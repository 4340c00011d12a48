---------------------------- MODULE GCHeapProofs ----------------------------
(***************************************************************************)
(* The heap as it is laid out, for halves of any size, any number of       *)
(* handles and identities and any types: the layout of both halves, the    *)
(* bookkeeping of pointers_ and of the pending fixups, and the refinement  *)
(* of CopyCollector.                                                       *)
(***************************************************************************)
EXTENDS GCHeap, FiniteSetTheorems, SequenceTheorems, TLAPS

-----------------------------------------------------------------------------
(* Sequences that list a set, each element once.                           *)

Lists(s, R) == s \in Seq(R) /\ IsInjective(s) /\ Range(s) = R

LEMMA ListsItsRange ==
  ASSUME NEW E, NEW s \in Seq(E), IsInjective(s)
  PROVE  Lists(s, Range(s))
  BY SeqOfRange DEF Lists

LEMMA ListsElements ==
  ASSUME NEW R, NEW s, Lists(s, R)
  PROVE  /\ Len(s) \in Nat /\ DOMAIN s = 1 .. Len(s)
         /\ s \in [1 .. Len(s) -> R]
         /\ \A i \in 1 .. Len(s) : s[i] \in R
         /\ \A i, j \in 1 .. Len(s) : s[i] = s[j] => i = j
         /\ \A x \in R : \E i \in 1 .. Len(s) : s[i] = x
<1>1. s \in Seq(R)
  BY DEF Lists
<1>2. Len(s) \in Nat /\ DOMAIN s = 1 .. Len(s) /\ s \in [1 .. Len(s) -> R]
  BY <1>1, LenProperties
<1>3. \A i, j \in 1 .. Len(s) : s[i] = s[j] => i = j
  BY <1>2 DEF Lists, IsInjective
<1>4. \A x \in R : \E i \in 1 .. Len(s) : s[i] = x
  BY <1>2 DEF Lists, Range
<1>5. QED BY <1>2, <1>3, <1>4

(* What the elements of a sequence must be for it to list a set.           *)
LEMMA ListsByElements ==
  ASSUME NEW R, NEW s \in Seq(R),
         \A i, j \in 1 .. Len(s) : s[i] = s[j] => i = j,
         \A x \in R : \E i \in 1 .. Len(s) : s[i] = x
  PROVE  Lists(s, R)
<1>1. DOMAIN s = 1 .. Len(s) /\ s \in [1 .. Len(s) -> R]
  BY LenProperties
<1>2. IsInjective(s)
  BY <1>1 DEF IsInjective
<1>3. Range(s) = R
  BY <1>1 DEF Range
<1>4. QED BY <1>2, <1>3 DEF Lists

LEMMA EmptyLists == Lists(<<>>, {})
  BY DEF Lists, IsInjective, Range

LEMMA EmptyRange ==
  ASSUME NEW E, NEW s \in Seq(E), Range(s) = {}
  PROVE  s = <<>>
<1>1. DOMAIN s = 1 .. Len(s) /\ Len(s) \in Nat
  BY LenProperties
<1>2. Len(s) = 0
  <2>1. ASSUME Len(s) # 0
        PROVE  FALSE
    <3>1. 1 \in DOMAIN s
      BY <1>1, <2>1
    <3>2. QED BY <3>1 DEF Range
  <2>2. QED BY <2>1
<1>3. QED BY <1>2, EmptySeq

LEMMA SingletonLists ==
  ASSUME NEW e
  PROVE  Lists(<<e>>, {e})
<1>1. <<e>> \in Seq({e}) /\ Len(<<e>>) = 1 /\ <<e>>[1] = e
  OBVIOUS
<1> DEFINE one == <<e>>
<1>2. one \in Seq({e}) /\ Len(one) = 1 /\ one[1] = e
  BY <1>1
<1> HIDE DEF one
<1>3. Lists(one, {e})
  BY <1>2, ListsByElements
<1>4. QED BY <1>3 DEF one

LEMMA AppendLists ==
  ASSUME NEW R, NEW s, Lists(s, R), NEW e, e \notin R
  PROVE  Lists(Append(s, e), R \cup {e})
<1> DEFINE t == Append(s, e)
<1>1. s \in Seq(R \cup {e})
  BY SeqMonotonic DEF Lists
<1>2. /\ t \in Seq(R \cup {e}) /\ Len(t) = Len(s) + 1
      /\ \A i \in 1 .. Len(s) : t[i] = s[i]
      /\ t[Len(s) + 1] = e
  BY <1>1, AppendProperties
<1>3. /\ Len(s) \in Nat
      /\ \A i \in 1 .. Len(s) : s[i] \in R
      /\ \A i, j \in 1 .. Len(s) : s[i] = s[j] => i = j
      /\ \A x \in R : \E i \in 1 .. Len(s) : s[i] = x
  BY ListsElements
<1> HIDE DEF t
<1>4. \A i, j \in 1 .. Len(t) : t[i] = t[j] => i = j
  <2>1. \A i \in 1 .. Len(t) : i \in 1 .. Len(s) \/ i = Len(s) + 1
    BY <1>2, <1>3
  <2>2. QED BY <1>2, <1>3, <2>1
<1>5. \A x \in R \cup {e} : \E i \in 1 .. Len(t) : t[i] = x
  <2>1. \A i \in 1 .. Len(s) : i \in 1 .. Len(t)
    BY <1>2, <1>3
  <2>2. Len(s) + 1 \in 1 .. Len(t)
    BY <1>2, <1>3
  <2>3. QED BY <1>2, <1>3, <2>1, <2>2
<1>6. Lists(t, R \cup {e})
  BY <1>2, <1>4, <1>5, ListsByElements
<1>7. QED BY <1>6 DEF t

LEMMA ConcatLists ==
  ASSUME NEW R, NEW s, Lists(s, R), NEW T, NEW t, Lists(t, T), R \cap T = {}
  PROVE  Lists(s \o t, R \cup T)
<1> DEFINE u == s \o t
<1>1. s \in Seq(R \cup T) /\ t \in Seq(R \cup T)
  BY SeqMonotonic DEF Lists
<1>2. /\ u \in Seq(R \cup T) /\ Len(u) = Len(s) + Len(t)
      /\ \A i \in 1 .. Len(s) + Len(t) : u[i] = IF i <= Len(s) THEN s[i] ELSE t[i - Len(s)]
  BY <1>1, ConcatProperties
<1>3. Range(u) = R \cup T
  BY <1>1, RangeConcatenation DEF Lists
<1>4. /\ Len(s) \in Nat /\ \A i \in 1 .. Len(s) : s[i] \in R
      /\ \A i, j \in 1 .. Len(s) : s[i] = s[j] => i = j
  BY ListsElements
<1>5. /\ Len(t) \in Nat /\ \A i \in 1 .. Len(t) : t[i] \in T
      /\ \A i, j \in 1 .. Len(t) : t[i] = t[j] => i = j
  BY ListsElements
<1>6. DOMAIN u = 1 .. Len(s) + Len(t)
  BY <1>2, LenProperties
<1> HIDE DEF u
<1>7. ASSUME NEW i \in 1 .. Len(s) + Len(t), NEW j \in 1 .. Len(s) + Len(t), u[i] = u[j]
      PROVE  i = j
  <2>1. CASE i <= Len(s) /\ j <= Len(s)
    BY <1>2, <1>4, <1>7, <2>1
  <2>2. CASE i > Len(s) /\ j > Len(s)
    <3>1. i - Len(s) \in 1 .. Len(t) /\ j - Len(s) \in 1 .. Len(t)
      BY <1>4, <1>5, <2>2
    <3>2. t[i - Len(s)] = t[j - Len(s)]
      BY <1>2, <1>4, <1>7, <2>2
    <3>3. i - Len(s) = j - Len(s)
      BY <1>5, <3>1, <3>2
    <3>4. QED BY <1>4, <3>3
  <2>3. CASE i <= Len(s) /\ j > Len(s)
    <3>1. u[i] \in R
      BY <1>2, <1>4, <2>3
    <3>2. j - Len(s) \in 1 .. Len(t) /\ u[j] = t[j - Len(s)]
      BY <1>2, <1>4, <1>5, <2>3
    <3>3. QED BY <1>5, <1>7, <3>1, <3>2
  <2>4. CASE i > Len(s) /\ j <= Len(s)
    <3>1. u[j] \in R
      BY <1>2, <1>4, <2>4
    <3>2. i - Len(s) \in 1 .. Len(t) /\ u[i] = t[i - Len(s)]
      BY <1>2, <1>4, <1>5, <2>4
    <3>3. QED BY <1>5, <1>7, <3>1, <3>2
  <2>5. QED BY <1>4, <2>1, <2>2, <2>3, <2>4
<1>8. IsInjective(u)
  BY <1>6, <1>7 DEF IsInjective
<1>9. QED BY <1>2, <1>3, <1>8 DEF Lists, u

LEMMA FrontProperties ==
  ASSUME NEW E, NEW s \in Seq(E), Len(s) > 0, NEW R, \A i \in 1 .. Len(s) - 1 : s[i] \in R
  PROVE  /\ Front(s) \in Seq(R)
         /\ Len(Front(s)) = Len(s) - 1
         /\ \A i \in 1 .. Len(s) - 1 : Front(s)[i] = s[i]
<1> DEFINE m == Len(s) - 1
<1>1. Len(s) \in Nat
  BY LenProperties
<1>2. m \in Nat /\ 1 \in Int /\ m \in Int /\ \A i \in 1 .. m : s[i] \in R
  BY <1>1
<1>3. Front(s) = SubSeq(s, 1, m)
  BY DEF Front
<1> HIDE DEF m
<1>4. /\ SubSeq(s, 1, m) \in Seq(R)
      /\ Len(SubSeq(s, 1, m)) = IF 1 <= m THEN m - 1 + 1 ELSE 0
      /\ \A i \in 1 .. m - 1 + 1 : SubSeq(s, 1, m)[i] = s[1 + i - 1]
  <2>1. SubSeq(s, 1, m) \in Seq(R)
    BY <1>2, SubSeqProperties
  <2>2. Len(SubSeq(s, 1, m)) = IF 1 <= m THEN m - 1 + 1 ELSE 0
    BY <1>2, SubSeqProperties
  <2>3. \A i \in 1 .. m - 1 + 1 : SubSeq(s, 1, m)[i] = s[1 + i - 1]
    BY <1>2, SubSeqProperties
  <2>4. QED BY <2>1, <2>2, <2>3
<1>5. m - 1 + 1 = m /\ \A i \in 1 .. m : 1 + i - 1 = i
  BY <1>2
<1>6. Len(SubSeq(s, 1, m)) = m
  BY <1>2, <1>4
<1>7. \A i \in 1 .. m : SubSeq(s, 1, m)[i] = s[i]
  BY <1>4, <1>5
<1>8. QED BY <1>3, <1>4, <1>6, <1>7 DEF m

LEMMA FrontLists ==
  ASSUME NEW R, NEW s, Lists(s, R), s # <<>>
  PROVE  Last(s) \in R /\ Lists(Front(s), R \ {Last(s)})
<1> DEFINE n == Len(s)
           t == Front(s)
<1>1. /\ n \in Nat
      /\ \A i \in 1 .. n : s[i] \in R
      /\ \A i, j \in 1 .. n : s[i] = s[j] => i = j
      /\ \A x \in R : \E i \in 1 .. n : s[i] = x
  BY ListsElements
<1>2. n > 0
  BY <1>1, EmptySeq DEF Lists
<1>3. Last(s) = s[n] /\ Last(s) \in R
  BY <1>1, <1>2 DEF Last
<1>4. \A i \in 1 .. n - 1 : s[i] \in R \ {Last(s)}
  BY <1>1, <1>2, <1>3
<1>5. /\ t \in Seq(R \ {Last(s)})
      /\ Len(t) = n - 1
      /\ \A i \in 1 .. n - 1 : t[i] = s[i]
  BY <1>2, <1>4, FrontProperties DEF Lists
<1> HIDE DEF t
<1>6. \A i, j \in 1 .. Len(t) : t[i] = t[j] => i = j
  BY <1>1, <1>5
<1>7. \A x \in R \ {Last(s)} : \E i \in 1 .. Len(t) : t[i] = x
  BY <1>1, <1>3, <1>5
<1>8. Lists(t, R \ {Last(s)})
  BY <1>5, <1>6, <1>7, ListsByElements
<1>9. QED BY <1>3, <1>8 DEF t

(* erase leaves the others attached, each of them once.                    *)
LEMMA EraseLists ==
  ASSUME NEW R, NEW s, Lists(s, R), NEW l \in R
  PROVE  Lists(Erase(s, l), R \ {l})
<1> DEFINE n == Len(s)
           J == {j \in DOMAIN s : s[j] = l}
           i == Max(J)
           t == [s EXCEPT ![i] = Last(s)]
<1>1. /\ n \in Nat /\ DOMAIN s = 1 .. n
      /\ \A k \in 1 .. n : s[k] \in R
      /\ \A k, j \in 1 .. n : s[k] = s[j] => k = j
      /\ \A x \in R : \E k \in 1 .. n : s[k] = x
  BY ListsElements
<1>0. n \in Nat
  BY <1>1
<1>2. PICK k \in 1 .. n : s[k] = l
  BY <1>1
<1>3. J = {k}
  BY <1>1, <1>2
<1>4. i = k
  <2>1. k \in {k} /\ \A y \in {k} : k >= y
    BY <1>1, <1>2
  <2>2. Max({k}) = k
    BY <2>1 DEF Max
  <2>3. QED BY <1>3, <2>2
<1>5. Last(s) = s[n] /\ n > 0
  BY <1>1, <1>2 DEF Last
<1>6. /\ t \in Seq(R) /\ Len(t) = n
      /\ \A j \in 1 .. n : t[j] = IF j = k THEN s[n] ELSE s[j]
  <2>1. s \in Seq(R) /\ s[n] \in R
    BY <1>1, <1>5 DEF Lists
  <2>2. t = [s EXCEPT ![k] = s[n]]
    BY <1>4, <1>5
  <2> HIDE DEF t
  <2>3. /\ [s EXCEPT ![k] = s[n]] \in Seq(R)
        /\ Len([s EXCEPT ![k] = s[n]]) = n
        /\ \A j \in 1 .. n : [s EXCEPT ![k] = s[n]][j] = IF j = k THEN s[n] ELSE s[j]
    BY <2>1, ExceptSeq
  <2>4. QED BY <2>2, <2>3
<1> DEFINE u == Front(t)
<1> HIDE DEF t, i, J
<1>7. \A j \in 1 .. n - 1 : t[j] \in R \ {l}
  <2> SUFFICES ASSUME NEW j \in 1 .. n - 1 PROVE t[j] \in R \ {l}
    OBVIOUS
  <2>1. j \in 1 .. n /\ j # n /\ n \in 1 .. n
    BY <1>0
  <2>2. CASE j = k
    <3>1. s[n] # s[k]
      BY <1>1, <2>1, <2>2
    <3>2. QED BY <1>1, <1>2, <1>6, <2>1, <2>2, <3>1
  <2>3. CASE j # k
    BY <1>1, <1>2, <1>6, <2>1, <2>3
  <2>4. QED BY <2>2, <2>3
<1>8. /\ u \in Seq(R \ {l})
      /\ Len(u) = n - 1
      /\ \A j \in 1 .. n - 1 : u[j] = t[j]
  BY <1>5, <1>6, <1>7, FrontProperties
<1> HIDE DEF u
<1>9. \A a, b \in 1 .. Len(u) : u[a] = u[b] => a = b
  <2> SUFFICES ASSUME NEW a \in 1 .. n - 1, NEW b \in 1 .. n - 1, t[a] = t[b] PROVE a = b
    BY <1>8
  <2>1. a \in 1 .. n /\ b \in 1 .. n /\ n \in 1 .. n /\ a # n /\ b # n
    BY <1>0
  <2>2. s[a] # s[n] /\ s[b] # s[n]
    BY <1>1, <2>1
  <2>3. QED BY <1>1, <1>6, <2>1, <2>2
<1>10. \A x \in R \ {l} : \E j \in 1 .. Len(u) : u[j] = x
  <2> SUFFICES ASSUME NEW x \in R \ {l} PROVE \E j \in 1 .. n - 1 : t[j] = x
    BY <1>8
  <2>1. PICK j \in 1 .. n : s[j] = x
    BY <1>1
  <2>2. CASE j = n
    <3>1. k \in 1 .. n - 1 /\ t[k] = x
      BY <1>1, <1>2, <1>6, <2>1, <2>2
    <3>2. QED BY <3>1
  <2>3. CASE j # n
    <3>1. j \in 1 .. n - 1
      BY <1>0, <2>3
    <3>2. j # k
      BY <1>2, <2>1
    <3>3. t[j] = x
      BY <1>6, <2>1, <3>2
    <3>4. QED BY <3>1, <3>3
  <2>4. QED BY <2>2, <2>3
<1>11. Lists(u, R \ {l})
  BY <1>8, <1>9, <1>10, ListsByElements
<1>12. Erase(s, l) = u
  BY DEF Erase, u, t, i, J
<1>13. QED BY <1>11, <1>12

LEMMA ReverseLists ==
  ASSUME NEW R, NEW s, Lists(s, R)
  PROVE  Lists(Reverse(s), R)
<1> DEFINE n == Len(s)
           t == Reverse(s)
<1>1. /\ n \in Nat
      /\ \A i \in 1 .. n : s[i] \in R
      /\ \A i, j \in 1 .. n : s[i] = s[j] => i = j
      /\ \A x \in R : \E i \in 1 .. n : s[i] = x
  BY ListsElements
<1>2. \A i \in 1 .. n : (n - i) + 1 \in 1 .. n
  BY <1>1
<1>3. t \in [1 .. n -> R] /\ \A i \in 1 .. n : t[i] = s[(n - i) + 1]
  BY <1>1, <1>2 DEF Reverse
<1> HIDE DEF t
<1>4. t \in Seq(R) /\ Len(t) = n
  <2>1. t \in Seq(R)
    BY <1>1, <1>3, SeqDef
  <2>2. QED BY <1>1, <1>3, <2>1, LenProperties
<1>5. \A i, j \in 1 .. Len(t) : t[i] = t[j] => i = j
  <2> SUFFICES ASSUME NEW i \in 1 .. n, NEW j \in 1 .. n, t[i] = t[j] PROVE i = j
    BY <1>4
  <2>1. (n - i) + 1 = (n - j) + 1
    <3>1. /\ (n - i) + 1 \in 1 .. n /\ (n - j) + 1 \in 1 .. n
          /\ s[(n - i) + 1] = s[(n - j) + 1]
      BY <1>2, <1>3
    <3> HIDE DEF n
    <3>2. QED BY <3>1, <1>1
  <2>2. n \in Int /\ i \in Int /\ j \in Int
    BY <1>1
  <2>3. QED BY <2>1, <2>2
<1>6. \A x \in R : \E i \in 1 .. Len(t) : t[i] = x
  <2> SUFFICES ASSUME NEW x \in R PROVE \E i \in 1 .. n : t[i] = x
    BY <1>4
  <2>1. PICK i \in 1 .. n : s[i] = x
    BY <1>1
  <2>2. (n - ((n - i) + 1)) + 1 = i
    BY <1>1
  <2>3. QED BY <1>2, <1>3, <2>1, <2>2
<1>7. Lists(t, R)
  BY <1>4, <1>5, <1>6, ListsByElements
<1>8. QED BY <1>7 DEF t

LEMMA SuffixOfConcat ==
  ASSUME NEW E, NEW s \in Seq(E), NEW t \in Seq(E)
  PROVE  SubSeq(s \o t, Len(s) + 1, Len(s \o t)) = t
<1> DEFINE u == SubSeq(s \o t, Len(s) + 1, Len(s \o t))
<1>1. /\ s \o t \in Seq(E) /\ Len(s \o t) = Len(s) + Len(t)
      /\ \A i \in 1 .. Len(s) + Len(t) :
           (s \o t)[i] = IF i <= Len(s) THEN s[i] ELSE t[i - Len(s)]
  BY ConcatProperties
<1>2. Len(s) \in Nat /\ Len(t) \in Nat /\ \A i \in 1 .. Len(t) : t[i] \in E
  BY LenProperties, ElementOfSeq
<1>3. \A i \in Len(s) + 1 .. Len(s) + Len(t) : (s \o t)[i] \in E
  <2> SUFFICES ASSUME NEW i \in Len(s) + 1 .. Len(s) + Len(t) PROVE (s \o t)[i] \in E
    OBVIOUS
  <2>1. i - Len(s) \in 1 .. Len(t) /\ (s \o t)[i] = t[i - Len(s)]
    BY <1>1, <1>2
  <2>2. QED BY <1>2, <2>1
<1>4. /\ u \in Seq(E)
      /\ Len(u) = Len(t)
      /\ \A i \in 1 .. Len(t) : u[i] = t[i]
  <2> DEFINE a == Len(s) + 1
             b == Len(s) + Len(t)
  <2>1. a \in Int /\ b \in Int
    BY <1>2
  <2>2. \A i \in a .. b : (s \o t)[i] \in E
    BY <1>3
  <2> HIDE DEF a, b
  <2>3. /\ SubSeq(s \o t, a, b) \in Seq(E)
        /\ Len(SubSeq(s \o t, a, b)) = IF a <= b THEN b - a + 1 ELSE 0
        /\ \A i \in 1 .. b - a + 1 : SubSeq(s \o t, a, b)[i] = (s \o t)[a + i - 1]
    <3>1. SubSeq(s \o t, a, b) \in Seq(E)
      BY <2>1, <2>2, SubSeqProperties
    <3>2. Len(SubSeq(s \o t, a, b)) = IF a <= b THEN b - a + 1 ELSE 0
      BY <2>1, <2>2, SubSeqProperties
    <3>3. \A i \in 1 .. b - a + 1 : SubSeq(s \o t, a, b)[i] = (s \o t)[a + i - 1]
      <4> DEFINE v == s \o t
      <4>1. \A i \in a .. b : v[i] \in E
        BY <2>2
      <4> HIDE DEF v
      <4>2. \A i \in 1 .. b - a + 1 : SubSeq(v, a, b)[i] = v[a + i - 1]
        BY <2>1, <4>1, SubSeqProperties
      <4>3. QED BY <4>2 DEF v
    <3>4. QED BY <3>1, <3>2, <3>3
  <2>4. u = SubSeq(s \o t, a, b)
    BY <1>1 DEF a, b
  <2>5. b - a + 1 = Len(t) /\ Len(u) = Len(t)
    BY <1>2, <2>3, <2>4 DEF a, b
  <2>6. ASSUME NEW i \in 1 .. Len(t)
        PROVE  u[i] = t[i]
    <3>1. u[i] = (s \o t)[a + i - 1]
      BY <2>3, <2>4, <2>5, <2>6
    <3>2. a + i - 1 = Len(s) + i /\ Len(s) + i \in 1 .. Len(s) + Len(t)
          /\ ~(Len(s) + i <= Len(s)) /\ (Len(s) + i) - Len(s) = i
      BY <1>2, <2>6 DEF a
    <3>3. QED BY <1>1, <3>1, <3>2
  <2>7. QED BY <2>3, <2>4, <2>5, <2>6
<1>5. QED BY <1>4, SeqEqual

-----------------------------------------------------------------------------
(* Folds of the heap: what is chosen from a list, and what is erased.      *)

KeepFold == INSTANCE FoldProofs WITH Op <- Keep
EraseFold == INSTANCE FoldProofs WITH Op <- Erase

LEMMA ChosenLists ==
  ASSUME NEW R, NEW s, Lists(s, R), NEW S
  PROVE  Lists(Chosen(s, S), R \cap S)
<1> DEFINE n == Len(s)
           e == [i \in DOMAIN s |-> <<s[i], s[i] \in S>>]
           Prefix(i) == {s[j] : j \in 1 .. i}
           J == [i \in 0 .. n |-> {r \in Seq(R) : Lists(r, Prefix(i) \cap S)}]
<1>1. /\ n \in Nat /\ DOMAIN s = 1 .. n
      /\ \A i \in 1 .. n : s[i] \in R
      /\ \A i, j \in 1 .. n : s[i] = s[j] => i = j
      /\ Prefix(n) = R
  <2>1. /\ n \in Nat /\ DOMAIN s = 1 .. n
        /\ \A i \in 1 .. n : s[i] \in R
        /\ \A i, j \in 1 .. n : s[i] = s[j] => i = j
    BY ListsElements
  <2>2. \A x \in R : \E i \in 1 .. n : s[i] = x
    BY ListsElements
  <2>3. QED BY <2>1, <2>2
<1>2. <<>> \in J[0]
  <2>1. Prefix(0) \cap S = {}
    OBVIOUS
  <2>2. 0 \in 0 .. n
    BY <1>1
  <2>3. QED BY <2>1, <2>2, EmptyLists
<1>3. ASSUME NEW i \in 1 .. n, NEW r \in J[i - 1]
      PROVE  Keep(r, e[i]) \in J[i]
  <2>1. /\ i \in 0 .. n /\ i - 1 \in 0 .. n /\ i \in Nat
        /\ r \in Seq(R) /\ Lists(r, Prefix(i - 1) \cap S)
    BY <1>1, <1>3
  <2>2. Prefix(i) = Prefix(i - 1) \cup {s[i]}
    <3>1. \A j : j \in 1 .. i <=> j \in 1 .. i - 1 \/ j = i
      BY <2>1, <1>3
    <3>2. QED BY <3>1
  <2>3. s[i] \notin Prefix(i - 1)
    <3>1. \A j \in 1 .. i - 1 : j \in 1 .. n /\ j # i
      BY <2>1, <1>1
    <3>2. QED BY <1>1, <1>3, <3>1
  <2>4. CASE s[i] \in S
    <3>1. Lists(Append(r, s[i]), (Prefix(i - 1) \cap S) \cup {s[i]})
      BY <2>1, <2>3, AppendLists
    <3>2. Prefix(i) \cap S = (Prefix(i - 1) \cap S) \cup {s[i]}
      BY <2>2, <2>4
    <3>3. Append(r, s[i]) \in Seq(R)
      BY <1>1, <2>1, AppendProperties
    <3>4. Keep(r, e[i]) = Append(r, s[i])
      BY <1>1, <2>4 DEF Keep
    <3>5. Lists(Append(r, s[i]), Prefix(i) \cap S)
      BY <3>1, <3>2
    <3>6. Append(r, s[i]) \in {q \in Seq(R) : Lists(q, Prefix(i) \cap S)}
      BY <3>3, <3>5
    <3>7. J[i] = {q \in Seq(R) : Lists(q, Prefix(i) \cap S)}
      BY <2>1
    <3>8. QED BY <3>4, <3>6, <3>7
  <2>5. CASE s[i] \notin S
    <3>1. Prefix(i) \cap S = Prefix(i - 1) \cap S
      BY <2>2, <2>5
    <3>2. Keep(r, e[i]) = r
      BY <1>1, <2>5 DEF Keep
    <3>3. Lists(r, Prefix(i) \cap S)
      BY <2>1, <3>1
    <3>4. QED BY <2>1, <3>2, <3>3
  <2>6. QED BY <2>4, <2>5
<1>4. DOMAIN e = 1 .. n
  BY <1>1
<1>5. \A r \in J[n] : Lists(r, R \cap S)
  <2>1. n \in 0 .. n
    BY <1>1
  <2>2. \A r \in J[n] : Lists(r, Prefix(n) \cap S)
    BY <2>1
  <2>3. QED BY <1>1, <2>2
<1>6. Chosen(s, S) = KeepFold!Folded(<<>>, e)
  BY DEF Chosen, FoldLeft, MapThenFoldSet, Max, KeepFold!Folded, KeepFold!Greatest
<1>7. \A i \in 1 .. n : \A r \in J[i - 1] : Keep(r, e[i]) \in J[i]
  BY <1>3
<1> HIDE DEF J, e
<1>8. n \in Nat
  BY <1>1
<1>9. KeepFold!Folded(<<>>, e) \in J[n]
  BY <1>2, <1>4, <1>7, <1>8, KeepFold!FoldInduction
<1>10. QED BY <1>5, <1>6, <1>9

LEMMA EraseAllLists ==
  ASSUME NEW R, NEW s, Lists(s, R), NEW T, NEW ls, Lists(ls, T), T \subseteq R
  PROVE  Lists(EraseAll(s, ls), R \ T)
<1> DEFINE n == Len(ls)
           Prefix(i) == {ls[j] : j \in 1 .. i}
           J == [i \in 0 .. n |-> {r \in Seq(R) : Lists(r, R \ Prefix(i))}]
<1>1. /\ n \in Nat /\ DOMAIN ls = 1 .. n
      /\ \A i \in 1 .. n : ls[i] \in R
      /\ \A i, j \in 1 .. n : ls[i] = ls[j] => i = j
      /\ Prefix(n) = T
  <2>1. /\ n \in Nat /\ DOMAIN ls = 1 .. n
        /\ \A i \in 1 .. n : ls[i] \in T
        /\ \A i, j \in 1 .. n : ls[i] = ls[j] => i = j
    BY ListsElements
  <2>2. \A x \in T : \E i \in 1 .. n : ls[i] = x
    BY ListsElements
  <2>3. QED BY <2>1, <2>2
<1>2. s \in J[0]
  <2>1. R \ Prefix(0) = R
    OBVIOUS
  <2>2. 0 \in 0 .. n
    BY <1>1
  <2>3. QED BY <2>1, <2>2 DEF Lists
<1>3. ASSUME NEW i \in 1 .. n, NEW r \in J[i - 1]
      PROVE  Erase(r, ls[i]) \in J[i]
  <2>1. /\ i \in 0 .. n /\ i - 1 \in 0 .. n /\ i \in Nat
        /\ r \in Seq(R) /\ Lists(r, R \ Prefix(i - 1))
    BY <1>1, <1>3
  <2>2. Prefix(i) = Prefix(i - 1) \cup {ls[i]}
    <3>1. \A j : j \in 1 .. i <=> j \in 1 .. i - 1 \/ j = i
      BY <2>1, <1>3
    <3>2. QED BY <3>1
  <2>3. ls[i] \notin Prefix(i - 1)
    <3>1. \A j \in 1 .. i - 1 : j \in 1 .. n /\ j # i
      BY <2>1, <1>1
    <3>2. QED BY <1>1, <1>3, <3>1
  <2>4. Lists(Erase(r, ls[i]), (R \ Prefix(i - 1)) \ {ls[i]})
    BY <1>1, <2>1, <2>3, EraseLists
  <2>5. (R \ Prefix(i - 1)) \ {ls[i]} = R \ Prefix(i)
    BY <2>2
  <2>6. Erase(r, ls[i]) \in Seq(R)
    BY <2>4, SeqMonotonic DEF Lists
  <2>7. QED BY <2>1, <2>4, <2>5, <2>6
<1>4. \A r \in J[n] : Lists(r, R \ T)
  <2>1. n \in 0 .. n
    BY <1>1
  <2>2. \A r \in J[n] : Lists(r, R \ Prefix(n))
    BY <2>1
  <2>3. QED BY <1>1, <2>2
<1>5. EraseAll(s, ls) = EraseFold!Folded(s, ls)
  BY DEF EraseAll, FoldLeft, MapThenFoldSet, Max, EraseFold!Folded, EraseFold!Greatest
<1>6. \A i \in 1 .. n : \A r \in J[i - 1] : Erase(r, ls[i]) \in J[i]
  BY <1>3
<1> HIDE DEF J
<1>7. n \in Nat /\ DOMAIN ls = 1 .. n
  BY <1>1
<1>8. EraseFold!Folded(s, ls) \in J[n]
  BY <1>2, <1>6, <1>7, EraseFold!FoldInduction
<1>9. QED BY <1>4, <1>5, <1>8

-----------------------------------------------------------------------------
(* The members of one object.                                              *)

MembersOf(p, t, members, kinds) ==
  {<<p, f>> : f \in {g \in DOMAIN members : Layout[t][g] \in kinds /\ members[g] # 0}}

LEMMA MemberLocationsLists ==
  ASSUME NEW p, NEW t, NEW E, NEW members \in Seq(E), NEW kinds
  PROVE  Lists(MemberLocations(p, t, members, kinds), MembersOf(p, t, members, kinds))
<1> DEFINE n == Len(members)
           s == [f \in DOMAIN members |-> <<p, f>>]
           R == {<<p, f>> : f \in DOMAIN members}
<1>1. n \in Nat /\ DOMAIN members = 1 .. n
  BY LenProperties
<1>2. s \in [1 .. n -> R] /\ \A i \in 1 .. n : s[i] = <<p, i>>
  BY <1>1
<1>3. R = {<<p, f>> : f \in 1 .. n}
  BY <1>1
<1> HIDE DEF s, R
<1>4. s \in Seq(R)
  BY <1>1, <1>2, SeqDef
<1>5. Len(s) = n
  BY <1>1, <1>2, <1>4, LenProperties
<1>6. Lists(s, R)
  <2>1. \A i, j \in 1 .. Len(s) : s[i] = s[j] => i = j
    BY <1>2, <1>5
  <2>2. \A x \in R : \E i \in 1 .. Len(s) : s[i] = x
    BY <1>2, <1>3, <1>5
  <2>3. QED BY <1>4, <2>1, <2>2, ListsByElements
<1>7. Lists(Chosen(s, MembersOf(p, t, members, kinds)), R \cap MembersOf(p, t, members, kinds))
  BY <1>6, ChosenLists
<1>8. R \cap MembersOf(p, t, members, kinds) = MembersOf(p, t, members, kinds)
  BY DEF R, MembersOf
<1>9. MemberLocations(p, t, members, kinds) = Chosen(s, MembersOf(p, t, members, kinds))
  BY DEF MemberLocations, MembersOf, s
<1>10. QED BY <1>7, <1>8, <1>9

-----------------------------------------------------------------------------
(* The layout of one half.                                                 *)

Here(o, s) == {p \in DOMAIN o : InHalf(p, s)}

Laid(o, from, to) ==
  /\ {from} \cup {p - 1 + o[p].size : p \in Here(o, from)} = {to} \cup {p - 1 : p \in Here(o, from)}
  /\ \A p \in Here(o, from) : p - 1 + o[p].size <= to
  /\ \A p, q \in Here(o, from) : p < q => p + o[p].size <= q

Sized(o) == \A p \in DOMAIN o : p \in Pos /\ o[p].size \in 1 .. Half

LEMMA LaidOut ==
  ASSUME NEW from, NEW to
  PROVE  Laid(obj, from, to) <=> Tiles(from, to) /\ Disjoint(from, to)
  BY DEF Laid, Here, Tiles, Disjoint

LEMMA LaidNone ==
  ASSUME NEW o, NEW from, Here(o, from) = {}
  PROVE  Laid(o, from, from)
  BY DEF Laid

LEMMA LaidSame ==
  ASSUME NEW o, NEW o2, NEW from, NEW to, Laid(o, from, to),
         Here(o2, from) = Here(o, from), \A p \in Here(o, from) : o2[p].size = o[p].size
  PROVE  Laid(o2, from, to)
<1>1. {p - 1 + o2[p].size : p \in Here(o2, from)} = {p - 1 + o[p].size : p \in Here(o, from)}
  OBVIOUS
<1>2. {p - 1 : p \in Here(o2, from)} = {p - 1 : p \in Here(o, from)}
  OBVIOUS
<1>3. QED BY <1>1, <1>2 DEF Laid

(* allocate: the next object begins where the last one ends.               *)
LEMMA LaidMore ==
  ASSUME NEW o, NEW o2, NEW from \in Nat, NEW to \in Nat, NEW n \in Nat,
         Sized(o), Laid(o, from, to), from <= to, n > 1, to + n <= from + Half,
         DOMAIN o2 = DOMAIN o \cup {to + 1}, o2[to + 1].size = n,
         \A p \in DOMAIN o : o2[p].size = o[p].size
  PROVE  to + 1 \notin Here(o, from) /\ Laid(o2, from, to + n)
<1> USE HeapAssumption
<1> DEFINE q == to + 1
<1>1. InHalf(q, from)
  BY DEF InHalf
<1>2. \A p \in Here(o, from) : p \in Nat /\ o[p].size \in Nat /\ o[p].size > 0 /\ p - 1 + o[p].size <= to
  BY DEF Here, Sized, Pos, Laid
<1>3. \A p \in Here(o, from) : p < q
  BY <1>2
<1>4. q \notin Here(o, from)
  BY <1>3
<1>5. Here(o2, from) = Here(o, from) \cup {q}
  BY <1>1 DEF Here
<1>6. \A p \in Here(o, from) : o2[p].size = o[p].size
  BY DEF Here
<1>7. /\ {p - 1 + o2[p].size : p \in Here(o2, from)}
           = {p - 1 + o[p].size : p \in Here(o, from)} \cup {to + n}
      /\ {p - 1 : p \in Here(o2, from)} = {p - 1 : p \in Here(o, from)} \cup {to}
  <2>1. q - 1 + o2[q].size = to + n /\ q - 1 = to
    <3>1. q \in Nat /\ q - 1 = to /\ o2[q].size = n
      OBVIOUS
    <3>2. QED BY <3>1
  <2> HIDE DEF q
  <2>2. {p - 1 + o2[p].size : p \in Here(o2, from)}
           = {p - 1 + o[p].size : p \in Here(o, from)} \cup {to + n}
    BY <1>5, <1>6, <2>1
  <2>3. {p - 1 : p \in Here(o2, from)} = {p - 1 : p \in Here(o, from)} \cup {to}
    BY <1>5, <2>1
  <2>4. QED BY <2>2, <2>3
<1>8. {from} \cup {p - 1 + o[p].size : p \in Here(o, from)} = {to} \cup {p - 1 : p \in Here(o, from)}
  BY DEF Laid
<1>9. {from} \cup {p - 1 + o2[p].size : p \in Here(o2, from)}
        = {to + n} \cup {p - 1 : p \in Here(o2, from)}
  BY <1>7, <1>8
<1>10. \A p \in Here(o2, from) : p - 1 + o2[p].size <= to + n
  <2>1. q - 1 + o2[q].size <= to + n
    OBVIOUS
  <2>2. \A p \in Here(o, from) : p - 1 + o2[p].size <= to + n
    BY <1>2, <1>6
  <2>3. QED BY <1>5, <2>1, <2>2
<1>11. \A p, r \in Here(o2, from) : p < r => p + o2[p].size <= r
  <2>1. \A p, r \in Here(o, from) : p < r => p + o2[p].size <= r
    BY <1>6 DEF Laid
  <2>2. \A p \in Here(o, from) : p + o2[p].size <= q /\ ~(q < p)
    BY <1>2, <1>6
  <2>3. ~(q < q)
    OBVIOUS
  <2> HIDE DEF q
  <2>4. QED BY <1>5, <2>1, <2>2, <2>3
<1>12. QED BY <1>4, <1>9, <1>10, <1>11 DEF Laid

(* An object takes the room below next_free_ that no other object takes.   *)
SlotsIn(o, p) == p - 1 .. p - 2 + o[p].size

LEMMA LaidApart ==
  ASSUME NEW o, NEW from \in Nat, NEW to \in Nat, Sized(o), Laid(o, from, to),
         NEW p \in Here(o, from), NEW q \in Here(o, from), p # q
  PROVE  SlotsIn(o, p) \cap SlotsIn(o, q) = {} /\ SlotsIn(o, p) \subseteq from .. to - 1
<1> USE HeapAssumption
<1>1. /\ p \in Nat /\ q \in Nat /\ o[p].size \in Nat /\ o[q].size \in Nat
      /\ from < p /\ from < q /\ p - 1 + o[p].size <= to
  BY DEF Here, Sized, Pos, Laid, InHalf
<1>2. p < q => p + o[p].size <= q
  BY DEF Laid
<1>3. q < p => q + o[q].size <= p
  BY DEF Laid
<1>4. p < q \/ q < p
  BY <1>1
<1>5. from \in Nat /\ to \in Nat
  OBVIOUS
<1>6. SlotsIn(o, p) \cap SlotsIn(o, q) = {}
  <2> SUFFICES ASSUME NEW x \in SlotsIn(o, p), x \in SlotsIn(o, q) PROVE FALSE
    OBVIOUS
  <2>1. x \in Int /\ p - 1 <= x /\ x <= p - 2 + o[p].size /\ q - 1 <= x /\ x <= q - 2 + o[q].size
    BY <1>1 DEF SlotsIn
  <2> DEFINE m == o[p].size
             n == o[q].size
  <2>2. /\ p \in Nat /\ q \in Nat /\ m \in Nat /\ n \in Nat
        /\ p - 1 <= x /\ x <= p - 2 + m /\ q - 1 <= x /\ x <= q - 2 + n
        /\ (p < q => p + m <= q) /\ (q < p => q + n <= p)
    BY <1>1, <1>2, <1>3, <2>1
  <2> HIDE DEF m, n
  <2>3. QED BY ONLY <1>4, <2>1, <2>2
<1>7. SlotsIn(o, p) \subseteq from .. to - 1
  <2> SUFFICES ASSUME NEW x \in SlotsIn(o, p) PROVE x \in from .. to - 1
    OBVIOUS
  <2>1. x \in Int /\ p - 1 <= x /\ x <= p - 2 + o[p].size
    BY <1>1 DEF SlotsIn
  <2>2. QED BY <1>1, <1>5, <2>1
<1>8. QED BY <1>6, <1>7

-----------------------------------------------------------------------------
(* The invariant in two parts: the layout, and what is registered.         *)

WellMade(a) ==
  /\ a \in AllocationRecord
  /\ a.type \in Types => a.size = Slots(a.type) /\ a.id \in Ids
                         /\ Len(a.member) = Len(Layout[a.type])
  /\ a.type \notin Types => a.member = <<>>
  /\ a.type # Moved => a.new = 0

SlotsLeft(o, s) == UNION {SlotsIn(o, p) : p \in {q \in Here(o, s) : o[q].type = Moved}}

HalvesOK(s, nf, tn, o, ph) ==
  /\ s \in {0, Half} /\ nf \in s .. s + Half /\ tn \in 0 .. 2 * Half
  /\ ph \in {"mutate", "move", "sweep"}
  /\ \A p \in DOMAIN o : p \in Pos /\ WellMade(o[p])
  /\ Laid(o, s, nf)
  /\ ph = "mutate" => tn = 0
  /\ ph # "mutate" => tn \in Half - s .. (Half - s) + Half /\ Laid(o, Half - s, tn)
  /\ \A p \in DOMAIN o :
       InHalf(p, s) \/ (InHalf(p, Half - s) /\ ph # "mutate" /\ o[p].type \in Types)
  /\ ph = "move" => Cardinality(SlotsLeft(o, s)) = tn - (Half - s)

LayoutOK == HalvesOK(start, nextFree, toNext, obj, phase)

HandlesHeld(r) == {<<0, h>> : h \in {g \in Handles : r[g] # 0}}
HeldBy(o, p) == MembersOf(p, o[p].type, o[p].member, {"tracked"})
HeldOf(o, r) == HandlesHeld(r) \cup UNION {HeldBy(o, p) : p \in DOMAIN o}

RegistersOK ==
  /\ root \in [Handles -> Ptr]
  /\ Lists(pointers, HeldOf(obj, root))
  /\ pending \in Seq(Location) /\ IsInjective(pending)
  /\ weak \in Seq(Location) /\ IsInjective(weak)
  /\ phase = "mutate" => pending = <<>> /\ weak = <<>>

LEMMA HeldLocations ==
  ASSUME \A p \in DOMAIN obj : p \in Pos
  PROVE  {l \in Locations : IsTracked(l) /\ Value(l) # 0} = HeldOf(obj, root)
<1> DEFINE A == {l \in Locations : IsTracked(l) /\ Value(l) # 0}
<1> USE HeapAssumption
<1>1. ASSUME NEW h \in Handles
      PROVE  <<0, h>> \in A <=> root[h] # 0
  BY DEF Locations, IsTracked, Value, ValueAt
<1>2. ASSUME NEW p \in DOMAIN obj, NEW f \in DOMAIN obj[p].member
      PROVE  <<p, f>> \in A <=> Layout[obj[p].type][f] = "tracked" /\ obj[p].member[f] # 0
  <2>1. p # 0
    BY DEF Pos
  <2>2. <<p, f>> \in Locations
    BY DEF Locations
  <2>3. QED BY <2>1, <2>2 DEF IsTracked, Value, ValueAt
<1>3. ASSUME NEW l \in A
      PROVE  l \in HeldOf(obj, root)
  <2>1. CASE \E h \in Handles : l = <<0, h>>
    BY <1>1, <1>3, <2>1 DEF HeldOf, HandlesHeld
  <2>2. CASE \E p \in DOMAIN obj : l \in {p} \X DOMAIN obj[p].member
    <3>1. PICK p \in DOMAIN obj : l \in {p} \X DOMAIN obj[p].member
      BY <2>2
    <3>2. l \in HeldBy(obj, p)
      BY <1>2, <1>3, <3>1 DEF HeldBy, MembersOf
    <3>3. QED BY <3>2 DEF HeldOf
  <2>3. QED BY <2>1, <2>2 DEF Locations
<1>4. ASSUME NEW l \in HeldOf(obj, root)
      PROVE  l \in A
  <2>1. CASE l \in HandlesHeld(root)
    BY <1>1, <2>1 DEF HandlesHeld
  <2>2. CASE \E p \in DOMAIN obj : l \in HeldBy(obj, p)
    BY <1>2, <2>2 DEF HeldBy, MembersOf
  <2>3. QED BY <2>1, <2>2 DEF HeldOf
<1>5. QED BY <1>3, <1>4

LEMMA HeldInLocation ==
  ASSUME NEW o, \A p \in DOMAIN o : p \in Pos /\ WellMade(o[p]), NEW r
  PROVE  HeldOf(o, r) \subseteq Location
<1> USE HeapAssumption
<1>1. HandlesHeld(r) \subseteq Location
  BY DEF HandlesHeld, Location
<1>2. ASSUME NEW p \in DOMAIN o
      PROVE  HeldBy(o, p) \subseteq Location
  <2>1. DOMAIN o[p].member \subseteq Members
    <3>1. o[p].member \in Seq(Ptr)
      BY DEF WellMade, AllocationRecord
    <3>2. CASE o[p].type \in Types
      <4>1. Layout[o[p].type] \in Seq(Kind) /\ Len(o[p].member) = Len(Layout[o[p].type])
        BY <3>2 DEF WellMade
      <4>2. DOMAIN o[p].member = DOMAIN Layout[o[p].type]
        BY <3>1, <4>1, LenProperties
      <4>3. QED BY <3>2, <4>2 DEF Members
    <3>3. CASE o[p].type \notin Types
      <4>1. o[p].member = <<>>
        BY <3>3 DEF WellMade
      <4>2. DOMAIN o[p].member = {}
        BY <4>1
      <4>3. QED BY <4>2
    <3>4. QED BY <3>2, <3>3
  <2>2. QED BY <2>1 DEF HeldBy, MembersOf, Location
<1>3. QED BY <1>1, <1>2 DEF HeldOf

LEMMA SplitInv == HeapInv <=> LayoutOK /\ RegistersOK /\ Collector!IInv
<1> USE HeapAssumption
<1>1. ASSUME HeapInv
      PROVE  LayoutOK /\ RegistersOK /\ Collector!IInv
  <2>1. TypeOK /\ MembersMatch /\ HalvesInv /\ RoomInv /\ PointersExact
        /\ IsInjective(pending) /\ IsInjective(weak) /\ Collector!IInv
        /\ Tiles(start, nextFree) /\ (phase # "mutate" => Tiles(ToStart, toNext))
    BY <1>1 DEF HeapInv, HeapTiled
  <2>2. \A p \in DOMAIN obj : p \in Pos /\ WellMade(obj[p])
    BY <2>1 DEF TypeOK, MembersMatch, WellMade
  <2>3. Laid(obj, start, nextFree) /\ (phase # "mutate" => Laid(obj, Half - start, toNext))
    BY <2>1, LaidOut DEF HalvesInv, ToStart
  <2>4. phase = "move" => Cardinality(SlotsLeft(obj, start)) = toNext - (Half - start)
    <3>1. SlotsLeft(obj, start) = UNION {SlotsOf(p) : p \in MovedObjects}
      <4>1. MovedObjects = {q \in Here(obj, start) : obj[q].type = Moved}
        BY DEF MovedObjects, Here
      <4>2. \A p : SlotsOf(p) = SlotsIn(obj, p)
        BY DEF SlotsOf, SlotsIn
      <4>3. QED BY <4>1, <4>2 DEF SlotsLeft
    <3>2. QED BY <2>1, <3>1 DEF RoomInv, ToStart
  <2>5. LayoutOK
    BY <2>1, <2>2, <2>3, <2>4 DEF LayoutOK, HalvesOK, TypeOK, HalvesInv, ToStart, IsObject
  <2>6. RegistersOK
    <3>1. Lists(pointers, HeldOf(obj, root))
      BY <2>1, <2>2, HeldLocations, ListsItsRange DEF PointersExact, TypeOK
    <3>2. QED BY <2>1, <3>1 DEF RegistersOK, TypeOK, HalvesInv
  <2>7. QED BY <2>1, <2>5, <2>6
<1>2. ASSUME LayoutOK, RegistersOK, Collector!IInv
      PROVE  HeapInv
  <2>1. HalvesOK(start, nextFree, toNext, obj, phase)
    BY <1>2 DEF LayoutOK
  <2>2. \A p \in DOMAIN obj : p \in Pos /\ WellMade(obj[p])
    BY <2>1 DEF HalvesOK
  <2>3. TypeOK
    <3>1. HeldOf(obj, root) \subseteq Location
      BY <2>2, HeldInLocation
    <3>2. pointers \in Seq(Location)
      BY <1>2, <3>1, SeqMonotonic DEF RegistersOK, Lists
    <3>3. QED BY <1>2, <2>1, <2>2, <3>2 DEF TypeOK, HalvesOK, RegistersOK, WellMade
  <2>4. MembersMatch
    BY <2>2 DEF MembersMatch, WellMade
  <2>5. Tiles(start, nextFree) /\ Disjoint(start, nextFree)
        /\ (phase # "mutate" => Tiles(ToStart, toNext) /\ Disjoint(ToStart, toNext))
    BY <2>1, LaidOut DEF HalvesOK, ToStart
  <2>6. HalvesInv
    BY <1>2, <2>1, <2>5 DEF HalvesInv, HalvesOK, RegistersOK, ToStart, IsObject
  <2>7. RoomInv
    <3>1. SlotsLeft(obj, start) = UNION {SlotsOf(p) : p \in MovedObjects}
      <4>1. MovedObjects = {q \in Here(obj, start) : obj[q].type = Moved}
        BY DEF MovedObjects, Here
      <4>2. \A p : SlotsOf(p) = SlotsIn(obj, p)
        BY DEF SlotsOf, SlotsIn
      <4>3. QED BY <4>1, <4>2 DEF SlotsLeft
    <3>2. QED BY <2>1, <3>1 DEF RoomInv, HalvesOK, ToStart
  <2>8. PointersExact
    BY <1>2, <2>2, HeldLocations DEF PointersExact, RegistersOK, Lists
  <2>9. QED BY <1>2, <2>3, <2>4, <2>5, <2>6, <2>7, <2>8 DEF HeapInv, HeapTiled, RegistersOK
<1>3. QED BY <1>1, <1>2

LEMMA SplitInvNext == HeapInv' <=> LayoutOK' /\ RegistersOK' /\ (Collector!IInv)'
  BY SplitInv, PTL

-----------------------------------------------------------------------------
(* What the collection algorithm sees of the heap.                         *)

(* The layouts of the types are a heap the algorithm is defined for.       *)
LEMMA MembersOfKind ==
  ASSUME NEW t \in Types, NEW kinds
  PROVE  /\ OfKind(kinds)[t] \subseteq DOMAIN Layout[t]
         /\ DOMAIN Layout[t] \subseteq Members
         /\ \A f : f \in OfKind(kinds)[t] <=> f \in DOMAIN Layout[t] /\ Layout[t][f] \in kinds
  BY DEF OfKind, Members

LEMMA KindOfMember ==
  ASSUME NEW t \in Types, NEW f \in DOMAIN Layout[t]
  PROVE  Layout[t][f] \in Kind
<1>1. Layout[t] \in Seq(Kind)
  BY HeapAssumption
<1>2. f \in 1 .. Len(Layout[t])
  BY <1>1, LenProperties
<1>3. QED BY <1>1, <1>2, ElementOfSeq

LEMMA ViewConstants ==
  /\ OfKind({"tracked", "strong"}) \in [Types -> SUBSET Members]
  /\ OfKind({"weak"}) \in [Types -> SUBSET Members]
  /\ \A t \in Types : OfKind({"tracked", "strong"})[t] \cap OfKind({"weak"})[t] = {}
  /\ (1 .. Half - 1) \cap (Half + 1 .. 2 * Half - 1) = {}
  /\ 0 \notin Ids
  /\ 0 \notin (1 .. Half - 1) \cup (Half + 1 .. 2 * Half - 1)
  /\ Free \notin Types /\ Moved \notin Types /\ Free # Moved
<1> USE HeapAssumption
<1>1. \A kinds : OfKind(kinds) \in [Types -> SUBSET Members]
  BY MembersOfKind DEF OfKind
<1>2. \A t \in Types : OfKind({"tracked", "strong"})[t] \cap OfKind({"weak"})[t] = {}
  BY MembersOfKind
<1>3. (1 .. Half - 1) \cap (Half + 1 .. 2 * Half - 1) = {}
  OBVIOUS
<1>4. 0 \notin (1 .. Half - 1) \cup (Half + 1 .. 2 * Half - 1)
  OBVIOUS
<1>5. QED BY <1>1, <1>2, <1>3, <1>4

OldPlaces == {p \in Places : InHalf(p, start)}
NewPlaces == {p \in Places : InHalf(p, Half - start)}

LEMMA ViewHalves ==
  ASSUME start \in {0, Half}
  PROVE  /\ Collector!Pos = Places /\ Collector!From = OldPlaces /\ Collector!To = NewPlaces
         /\ ActiveHalf \in {0, 1} /\ 0 \notin Places /\ Half \notin Places
         /\ OldPlaces \cap NewPlaces = {} /\ OldPlaces \cup NewPlaces = Places
         /\ \A p \in Pos : InHalf(p, start) \/ InHalf(p, Half - start) => p \in Places
         /\ Collector!Ptr = Places \cup {0}
<1> USE HeapAssumption
<1>1. Half \in Nat /\ Half > 0 /\ (start = 0 \/ start = Half)
  OBVIOUS
<1>2. \A p : p \in 1 .. 2 * Half - 1 /\ p # Half
        <=> p \in 1 .. Half - 1 \/ p \in Half + 1 .. 2 * Half - 1
  BY <1>1
<1>3. Collector!Pos = Places
  BY <1>2 DEF Collector!Pos, Places, Pos
<1>4. \A p \in 1 .. 2 * Half - 1 : (InHalf(p, 0) <=> p \in 1 .. Half - 1)
                                   /\ (InHalf(p, Half) <=> p \in Half + 1 .. 2 * Half - 1)
  BY <1>1 DEF InHalf
<1>5. Half - 0 = Half /\ Half - Half = 0 /\ Half # 0
  BY <1>1
<1>6. CASE start = 0
  <2>1. OldPlaces = 1 .. Half - 1
    BY <1>2, <1>4, <1>6 DEF OldPlaces, Places, Pos
  <2>2. NewPlaces = Half + 1 .. 2 * Half - 1
    BY <1>2, <1>4, <1>5, <1>6 DEF NewPlaces, Places, Pos
  <2>3. Collector!From = 1 .. Half - 1 /\ Collector!To = Half + 1 .. 2 * Half - 1
    BY <1>6 DEF Collector!From, Collector!To, Collector!HalfOf, ActiveHalf
  <2>4. QED BY <2>1, <2>2, <2>3, <1>1, <1>2, <1>3, <1>4, <1>5, <1>6
            DEF ActiveHalf, Places, Pos, Collector!Ptr
<1>7. CASE start = Half
  <2>1. OldPlaces = Half + 1 .. 2 * Half - 1
    BY <1>2, <1>4, <1>7 DEF OldPlaces, Places, Pos
  <2>2. NewPlaces = 1 .. Half - 1
    BY <1>2, <1>4, <1>5, <1>7 DEF NewPlaces, Places, Pos
  <2>3. Collector!From = Half + 1 .. 2 * Half - 1 /\ Collector!To = 1 .. Half - 1
    BY <1>5, <1>7 DEF Collector!From, Collector!To, Collector!HalfOf, ActiveHalf
  <2>4. QED BY <2>1, <2>2, <2>3, <1>1, <1>2, <1>3, <1>4, <1>5, <1>7
            DEF ActiveHalf, Places, Pos, Collector!Ptr
<1>8. QED BY <1>6, <1>7

(* The view of an assignment o of allocations to positions.                *)
Present(o, p) == p \in DOMAIN o /\ o[p].type # Uninit
MembersIn(a) == [f \in Members |-> IF f \in DOMAIN a.member THEN a.member[f] ELSE 0]
None == [f \in Members |-> 0]
TypeView(o) == [p \in Places |-> IF Present(o, p) THEN o[p].type ELSE Free]
IdView(o) == [p \in Places |-> IF Present(o, p) THEN o[p].id ELSE 0]
FieldsView(o) == [p \in Places |-> IF Present(o, p) THEN MembersIn(o[p]) ELSE None]
NewView(o) == [p \in Places |-> IF Present(o, p) THEN o[p].new ELSE 0]

SameView(o, o2) ==
  /\ TypeView(o2) = TypeView(o) /\ IdView(o2) = IdView(o)
  /\ FieldsView(o2) = FieldsView(o) /\ NewView(o2) = NewView(o)

LEMMA View ==
  /\ TypeAt = TypeView(obj) /\ IdAt = IdView(obj)
  /\ FieldsAt = FieldsView(obj) /\ NewPosAt = NewView(obj)
<1>1. TypeAt = TypeView(obj) /\ IdAt = IdView(obj) /\ NewPosAt = NewView(obj)
  BY DEF TypeAt, TypeView, IdAt, IdView, NewPosAt, NewView, Exists, Present
<1>2. ASSUME NEW p \in Places
      PROVE  FieldsAt[p] = FieldsView(obj)[p]
  BY DEF FieldsAt, FieldsView, MemberAt, MembersIn, None, Exists, Present
<1>3. FieldsAt = [p \in Places |-> FieldsAt[p]] /\ FieldsView(obj) = [p \in Places |-> FieldsView(obj)[p]]
  BY DEF FieldsAt, FieldsView
<1>4. FieldsAt = FieldsView(obj)
  BY <1>2, <1>3
<1>5. QED BY <1>1, <1>4

LEMMA ViewNext ==
  /\ TypeAt' = TypeView(obj') /\ IdAt' = IdView(obj')
  /\ FieldsAt' = FieldsView(obj') /\ NewPosAt' = NewView(obj')
<1>1. TypeAt' = TypeView(obj') /\ IdAt' = IdView(obj') /\ NewPosAt' = NewView(obj')
  BY DEF TypeAt, TypeView, IdAt, IdView, NewPosAt, NewView, Exists, Present
<1>2. ASSUME NEW p \in Places
      PROVE  FieldsAt'[p] = FieldsView(obj')[p]
  BY DEF FieldsAt, FieldsView, MemberAt, MembersIn, None, Exists, Present
<1>3. FieldsAt' = [p \in Places |-> FieldsAt'[p]]
      /\ FieldsView(obj') = [p \in Places |-> FieldsView(obj')[p]]
  BY DEF FieldsAt, FieldsView
<1>4. FieldsAt' = FieldsView(obj')
  BY <1>2, <1>3
<1>5. QED BY <1>1, <1>4

SetAt(r, h, v) == [r EXCEPT ![h] = v]

(* A new allocation, or one in place of another.                           *)
Put(o, q, a) == [r \in DOMAIN o \cup {q} |-> IF r = q THEN a ELSE o[r]]

LEMMA PutAt ==
  ASSUME NEW o, NEW q, NEW a
  PROVE  /\ DOMAIN Put(o, q, a) = DOMAIN o \cup {q} /\ Put(o, q, a)[q] = a
         /\ \A p \in DOMAIN o : p # q => Put(o, q, a)[p] = o[p]
  BY DEF Put

LEMMA PutView ==
  ASSUME NEW o, NEW q \in Places, NEW a, a.type # Uninit
  PROVE  /\ TypeView(Put(o, q, a)) = SetAt(TypeView(o), q, a.type)
         /\ IdView(Put(o, q, a)) = SetAt(IdView(o), q, a.id)
         /\ FieldsView(Put(o, q, a)) = SetAt(FieldsView(o), q, MembersIn(a))
         /\ NewView(Put(o, q, a)) = SetAt(NewView(o), q, a.new)
<1> DEFINE u == Put(o, q, a)
<1>0. DOMAIN u = DOMAIN o \cup {q} /\ u[q] = a /\ \A p \in DOMAIN o : p # q => u[p] = o[p]
  BY DEF Put
<1> HIDE DEF u
<1>1. Present(u, q) /\ u[q] = a
  BY <1>0 DEF Present
<1>2. \A p \in Places : p # q =>
        (Present(u, p) <=> Present(o, p)) /\ (Present(o, p) => u[p] = o[p])
  BY <1>0 DEF Present
<1>3. TypeView(u) = [TypeView(o) EXCEPT ![q] = a.type]
  BY <1>1, <1>2 DEF TypeView
<1>4. IdView(u) = [IdView(o) EXCEPT ![q] = a.id]
  BY <1>1, <1>2 DEF IdView
<1>5. FieldsView(u) = [FieldsView(o) EXCEPT ![q] = MembersIn(a)]
  BY <1>1, <1>2 DEF FieldsView
<1>6. NewView(u) = [NewView(o) EXCEPT ![q] = a.new]
  BY <1>1, <1>2 DEF NewView
<1>7. QED BY <1>3, <1>4, <1>5, <1>6 DEF u, SetAt

LEMMA PutUninitView ==
  ASSUME NEW o, NEW q, q \notin DOMAIN o, NEW a, a.type = Uninit
  PROVE  SameView(o, Put(o, q, a))
<1> DEFINE u == Put(o, q, a)
<1>0. DOMAIN u = DOMAIN o \cup {q} /\ u[q] = a /\ \A p \in DOMAIN o : p # q => u[p] = o[p]
  BY DEF Put
<1> HIDE DEF u
<1>1. \A p : (Present(u, p) <=> Present(o, p)) /\ (Present(o, p) => u[p] = o[p])
  BY <1>0 DEF Present
<1>2. TypeView(u) = TypeView(o) /\ IdView(u) = IdView(o)
  BY <1>1 DEF TypeView, IdView
<1>3. FieldsView(u) = FieldsView(o) /\ NewView(u) = NewView(o)
  BY <1>1 DEF FieldsView, NewView
<1>4. QED BY <1>2, <1>3 DEF SameView, u

(* Assignment to a member.                                                 *)
SetIn(o, p, f, v) == [o EXCEPT ![p].member[f] = v]

LEMMA SetInAt ==
  ASSUME NEW o, NEW p \in DOMAIN o, o[p] \in AllocationRecord, NEW f \in DOMAIN o[p].member,
         NEW v \in Ptr
  PROVE  LET u == SetIn(o, p, f, v)
         IN  /\ DOMAIN u = DOMAIN o
             /\ \A q \in DOMAIN o : q # p => u[q] = o[q]
             /\ u[p] \in AllocationRecord
             /\ u[p].size = o[p].size /\ u[p].type = o[p].type
             /\ u[p].new = o[p].new /\ u[p].id = o[p].id
             /\ u[p].member = SetAt(o[p].member, f, v)
             /\ DOMAIN u[p].member = DOMAIN o[p].member
             /\ Len(u[p].member) = Len(o[p].member)
<1> DEFINE u == SetIn(o, p, f, v)
           m == [o[p].member EXCEPT ![f] = v]
<1>1. o[p].member \in Seq(Ptr) /\ f \in 1 .. Len(o[p].member)
  BY LenProperties DEF AllocationRecord
<1>2. m \in Seq(Ptr) /\ Len(m) = Len(o[p].member) /\ DOMAIN m = DOMAIN o[p].member
  BY <1>1, ExceptSeq
<1>3. u[p] = [o[p] EXCEPT !.member = m]
  BY DEF SetIn
<1>4. DOMAIN u = DOMAIN o /\ \A q \in DOMAIN o : q # p => u[q] = o[q]
  BY DEF SetIn
<1> HIDE DEF u, m
<1>5. /\ u[p] \in AllocationRecord
      /\ u[p].size = o[p].size /\ u[p].type = o[p].type
      /\ u[p].new = o[p].new /\ u[p].id = o[p].id
      /\ u[p].member = m
  BY <1>2, <1>3 DEF AllocationRecord
<1>6. QED BY <1>2, <1>4, <1>5 DEF u, m, SetAt

LEMMA SetInView ==
  ASSUME NEW o, NEW p \in DOMAIN o, p \in Places, o[p] \in AllocationRecord,
         o[p].type # Uninit, NEW f \in DOMAIN o[p].member, f \in Members, NEW v \in Ptr
  PROVE  LET u == SetIn(o, p, f, v)
         IN  /\ TypeView(u) = TypeView(o) /\ IdView(u) = IdView(o) /\ NewView(u) = NewView(o)
             /\ FieldsView(u) = [FieldsView(o) EXCEPT ![p][f] = v]
<1> DEFINE u == SetIn(o, p, f, v)
<1>1. /\ DOMAIN u = DOMAIN o
      /\ \A q \in DOMAIN o : q # p => u[q] = o[q]
      /\ u[p].type = o[p].type /\ u[p].new = o[p].new /\ u[p].id = o[p].id
      /\ u[p].member = SetAt(o[p].member, f, v)
      /\ DOMAIN u[p].member = DOMAIN o[p].member
  BY SetInAt
<1> HIDE DEF u
<1>2. \A q : Present(u, q) <=> Present(o, q)
  BY <1>1 DEF Present
<1>3. \A q : Present(o, q) =>
        u[q].type = o[q].type /\ u[q].id = o[q].id /\ u[q].new = o[q].new
  BY <1>1 DEF Present
<1>4. TypeView(u) = TypeView(o) /\ IdView(u) = IdView(o) /\ NewView(u) = NewView(o)
  BY <1>2, <1>3 DEF TypeView, IdView, NewView
<1>5. MembersIn(u[p]) = [MembersIn(o[p]) EXCEPT ![f] = v]
  BY <1>1 DEF MembersIn, SetAt
<1>6. FieldsView(u) = [FieldsView(o) EXCEPT ![p] = MembersIn(u[p])]
  BY <1>1, <1>2 DEF FieldsView, Present
<1>7. FieldsView(o)[p] = MembersIn(o[p])
  BY DEF FieldsView, Present
<1>8. FieldsView(u) = [FieldsView(o) EXCEPT ![p][f] = v]
  BY <1>5, <1>6, <1>7
<1>9. QED BY <1>4, <1>8 DEF u

(* run_destructors.                                                        *)
Emptied(F, s, v) == [p \in Places |-> IF InHalf(p, s) THEN v ELSE F[p]]

LEMMA ReleasedView ==
  ASSUME NEW o, NEW u, NEW s, DOMAIN u = {p \in DOMAIN o : ~InHalf(p, s)},
         \A p \in DOMAIN u : u[p] = o[p]
  PROVE  /\ TypeView(u) = Emptied(TypeView(o), s, Free)
         /\ IdView(u) = Emptied(IdView(o), s, 0)
         /\ FieldsView(u) = Emptied(FieldsView(o), s, None)
         /\ NewView(u) = Emptied(NewView(o), s, 0)
<1>1. \A p : Present(u, p) <=> Present(o, p) /\ ~InHalf(p, s)
  BY DEF Present
<1>2. \A p : Present(u, p) => u[p] = o[p]
  BY DEF Present
<1>3. TypeView(u) = [p \in Places |-> IF InHalf(p, s) THEN Free ELSE TypeView(o)[p]]
  BY <1>1, <1>2 DEF TypeView
<1>4. IdView(u) = [p \in Places |-> IF InHalf(p, s) THEN 0 ELSE IdView(o)[p]]
  BY <1>1, <1>2 DEF IdView
<1>5. FieldsView(u) = [p \in Places |-> IF InHalf(p, s) THEN None ELSE FieldsView(o)[p]]
  BY <1>1, <1>2 DEF FieldsView
<1>6. NewView(u) = [p \in Places |-> IF InHalf(p, s) THEN 0 ELSE NewView(o)[p]]
  BY <1>1, <1>2 DEF NewView
<1>7. QED BY <1>3, <1>4, <1>5, <1>6 DEF Emptied

-----------------------------------------------------------------------------
(* What each kind of step does to the layout.                              *)

LEMMA OtherHalf ==
  ASSUME NEW s \in {0, Half}
  PROVE  /\ Half \in Nat /\ Half > 0 /\ s \in Nat /\ Half - s \in {0, Half} /\ Half - s \in Nat
         /\ Half - (Half - s) = s
         /\ \A p \in Pos : ~(InHalf(p, s) /\ InHalf(p, Half - s))
<1> USE HeapAssumption
<1>1. Half \in Nat /\ Half > 0 /\ (s = 0 \/ s = Half)
  OBVIOUS
<1>2. s \in Nat /\ Half - s \in {0, Half} /\ Half - s \in Nat /\ Half - (Half - s) = s
  BY <1>1
<1>3. ASSUME NEW p \in Pos
      PROVE  ~(InHalf(p, 0) /\ InHalf(p, Half))
  BY <1>1 DEF InHalf, Pos
<1>4. Half - 0 = Half /\ Half - Half = 0
  BY <1>1
<1>5. \A p \in Pos : ~(InHalf(p, s) /\ InHalf(p, Half - s))
  BY <1>1, <1>3, <1>4
<1>6. QED BY <1>1, <1>2, <1>5

LEMMA SizesOK ==
  ASSUME NEW o, \A p \in DOMAIN o : p \in Pos /\ WellMade(o[p])
  PROVE  Sized(o)
  BY DEF Sized, WellMade, AllocationRecord

LEMMA SlotsOfType ==
  ASSUME NEW t \in Types
  PROVE  Slots(t) \in Nat /\ Slots(t) > 1
<1>1. Body[t] \in Nat /\ Body[t] > 0
  BY HeapAssumption
<1>2. QED BY <1>1 DEF Slots

(* Nothing is allocated, moved or released.                                *)
LEMMA HalvesSame ==
  ASSUME NEW s, NEW nf, NEW tn, NEW o, NEW ph, HalvesOK(s, nf, tn, o, ph),
         NEW o2, DOMAIN o2 = DOMAIN o,
         \A p \in DOMAIN o : WellMade(o2[p]) /\ o2[p].size = o[p].size /\ o2[p].type = o[p].type,
         NEW ph2 \in {"mutate", "move", "sweep"},
         ph2 = "mutate" <=> ph = "mutate", ph2 = "move" => ph = "move"
  PROVE  HalvesOK(s, nf, tn, o2, ph2)
<1>1. \A h : Here(o2, h) = Here(o, h) /\ \A p \in Here(o, h) : p \in DOMAIN o
  BY DEF Here
<1>2. \A h, e : Laid(o, h, e) => Laid(o2, h, e)
  BY <1>1, LaidSame
<1>3. SlotsLeft(o2, s) = SlotsLeft(o, s)
  <2>1. {q \in Here(o2, s) : o2[q].type = Moved} = {q \in Here(o, s) : o[q].type = Moved}
    BY <1>1
  <2>2. \A p \in Here(o, s) : SlotsIn(o2, p) = SlotsIn(o, p)
    BY <1>1 DEF SlotsIn
  <2>3. {SlotsIn(o2, p) : p \in {q \in Here(o2, s) : o2[q].type = Moved}}
          = {SlotsIn(o, p) : p \in {q \in Here(o, s) : o[q].type = Moved}}
    BY <2>1, <2>2
  <2>4. QED BY <2>3 DEF SlotsLeft
<1>4. QED BY <1>2, <1>3 DEF HalvesOK

(* allocate_and_construct.                                                 *)
LEMMA HalvesPut ==
  ASSUME NEW s, NEW nf, NEW tn, NEW o, HalvesOK(s, nf, tn, o, "mutate"),
         NEW a, WellMade(a), a.size > 1, a.type # Moved, nf + a.size <= s + Half
  PROVE  /\ nf + 1 \notin DOMAIN o /\ nf + 1 \in Places
         /\ HalvesOK(s, nf + a.size, tn, Put(o, nf + 1, a), "mutate")
<1> DEFINE q == nf + 1
           u == Put(o, q, a)
<1>0. /\ s \in {0, Half} /\ nf \in s .. s + Half /\ Laid(o, s, nf) /\ a.size \in Nat
      /\ \A p \in DOMAIN o : p \in Pos /\ WellMade(o[p]) /\ InHalf(p, s)
  BY DEF HalvesOK, WellMade, AllocationRecord
<1>1. Half \in Nat /\ s \in Nat /\ Half > 0 /\ nf \in Nat /\ s <= nf /\ (s = 0 \/ s = Half)
  <2>1. Half \in Nat /\ s \in Nat /\ Half > 0
    BY <1>0, OtherHalf
  <2>2. QED BY <1>0, <2>1
<1>2. InHalf(q, s) /\ q \in Pos /\ q \in Places
  <2>1. s < q /\ q < s + Half /\ q \in Nat
    BY <1>0, <1>1
  <2>2. QED BY <1>1, <2>1 DEF InHalf, Pos, Places
<1>3. DOMAIN u = DOMAIN o \cup {q} /\ u[q] = a /\ \A p \in DOMAIN o : p # q => u[p] = o[p]
  BY DEF Put
<1>4. Here(o, s) = DOMAIN o
  BY <1>0 DEF Here
<1>5. q \notin DOMAIN o
  <2>1. \A p \in DOMAIN o : p \in Nat /\ o[p].size \in Nat /\ o[p].size > 0 /\ p - 1 + o[p].size <= nf
    BY <1>0, <1>4 DEF Pos, WellMade, AllocationRecord, Laid
  <2>2. QED BY <1>1, <2>1
<1>6. \A p \in DOMAIN o : u[p] = o[p]
  BY <1>3, <1>5
<1> HIDE DEF u
<1>7. Laid(u, s, nf + a.size)
  <2>1. \A p \in DOMAIN o : u[p].size = o[p].size
    BY <1>6
  <2>2. Sized(o)
    BY <1>0, SizesOK
  <2>3. QED BY <1>0, <1>1, <1>3, <2>1, <2>2, LaidMore
<1>8. \A p \in DOMAIN u : p \in Pos /\ WellMade(u[p]) /\ InHalf(p, s)
  BY <1>0, <1>2, <1>3, <1>6
<1>9. nf + a.size \in s .. s + Half
  BY <1>0, <1>1
<1>10. HalvesOK(s, nf + a.size, tn, u, "mutate")
  BY <1>0, <1>7, <1>8, <1>9 DEF HalvesOK
<1>11. QED BY <1>2, <1>5, <1>10 DEF u

LEMMA HalvesBegin ==
  ASSUME NEW s, NEW nf, NEW tn, NEW o, HalvesOK(s, nf, tn, o, "mutate"),
         \A p \in DOMAIN o : o[p].type # Moved
  PROVE  HalvesOK(s, nf, Half - s, o, "move")
<1>1. /\ s \in {0, Half} /\ \A p \in DOMAIN o : p \in Pos /\ InHalf(p, s)
  BY DEF HalvesOK
<1>2. /\ Half \in Nat /\ Half > 0 /\ Half - s \in Nat /\ Half - s \in {0, Half}
      /\ \A p \in Pos : ~(InHalf(p, s) /\ InHalf(p, Half - s))
  BY <1>1, OtherHalf
<1>3. Here(o, Half - s) = {}
  BY <1>1, <1>2 DEF Here
<1>4. Laid(o, Half - s, Half - s)
  BY <1>3, LaidNone
<1>5. SlotsLeft(o, s) = {} /\ Cardinality({}) = 0
  BY FS_EmptySet DEF SlotsLeft, Here
<1>6. /\ Half - s \in 0 .. 2 * Half /\ Half - s \in Half - s .. (Half - s) + Half
      /\ (Half - s) - (Half - s) = 0
  BY <1>2
<1>7. QED BY <1>1, <1>4, <1>5, <1>6 DEF HalvesOK

LEMMA HalvesReleased ==
  ASSUME NEW s, NEW nf, NEW tn, NEW o, HalvesOK(s, nf, tn, o, "mutate"),
         NEW u, DOMAIN u = {p \in DOMAIN o : ~InHalf(p, s)}
  PROVE  DOMAIN u = {} /\ HalvesOK(s, s, tn, u, "mutate")
<1>1. s \in {0, Half} /\ \A p \in DOMAIN o : InHalf(p, s)
  BY DEF HalvesOK
<1>2. DOMAIN u = {}
  BY <1>1
<1>3. Laid(u, s, s)
  BY <1>2, LaidNone DEF Here
<1>4. s \in s .. s + Half
  <2>1. Half \in Nat /\ s \in Nat
    BY <1>1, OtherHalf
  <2>2. QED BY <2>1
<1>5. QED BY <1>1, <1>2, <1>3, <1>4 DEF HalvesOK

LEMMA HalvesSwapped ==
  ASSUME NEW s, NEW nf, NEW tn, NEW o, HalvesOK(s, nf, tn, o, "sweep"),
         NEW u, DOMAIN u = {p \in DOMAIN o : ~InHalf(p, s)}, \A p \in DOMAIN u : u[p] = o[p]
  PROVE  HalvesOK(Half - s, tn, 0, u, "mutate")
<1> DEFINE r == Half - s
<1>1. /\ s \in {0, Half} /\ tn \in r .. r + Half /\ Laid(o, r, tn)
      /\ \A p \in DOMAIN o : p \in Pos /\ WellMade(o[p])
      /\ \A p \in DOMAIN o : InHalf(p, s) \/ InHalf(p, r)
  BY DEF HalvesOK
<1>2. /\ Half \in Nat /\ Half > 0 /\ r \in {0, Half}
      /\ \A p \in Pos : ~(InHalf(p, s) /\ InHalf(p, r))
  BY <1>1, OtherHalf
<1>3. \A p \in DOMAIN u : p \in Pos /\ WellMade(u[p]) /\ InHalf(p, r)
  BY <1>1
<1>4. Here(u, r) = Here(o, r) /\ \A p \in Here(o, r) : u[p].size = o[p].size
  BY <1>1, <1>2 DEF Here
<1> HIDE DEF r
<1>5. Laid(u, r, tn)
  BY <1>1, <1>4, LaidSame
<1>6. 0 \in 0 .. 2 * Half
  BY <1>2
<1>7. HalvesOK(r, tn, 0, u, "mutate")
  BY <1>1, <1>2, <1>3, <1>5, <1>6 DEF HalvesOK
<1>8. QED BY <1>7 DEF r

(* What has moved, and an object that has not, fit below next_free_.       *)
LEMMA RoomLeft ==
  ASSUME NEW s, NEW nf, NEW tn, NEW o, HalvesOK(s, nf, tn, o, "move"),
         NEW p \in Here(o, s), o[p].type \in Types
  PROVE  /\ Cardinality(SlotsLeft(o, s) \cup SlotsIn(o, p)) = (tn - (Half - s)) + o[p].size
         /\ tn + o[p].size <= (Half - s) + Half
<1> DEFINE A == SlotsLeft(o, s)
           B == SlotsIn(o, p)
           n == o[p].size
<1>1. /\ s \in {0, Half} /\ nf \in s .. s + Half /\ Laid(o, s, nf)
      /\ tn \in Half - s .. (Half - s) + Half
      /\ \A q \in DOMAIN o : q \in Pos /\ WellMade(o[q])
      /\ Cardinality(A) = tn - (Half - s)
  BY DEF HalvesOK
<1>2. Half \in Nat /\ Half > 0 /\ s \in Nat /\ Half - s \in Nat /\ nf \in Nat /\ tn \in Nat
  <2>1. Half \in Nat /\ Half > 0 /\ s \in Nat /\ Half - s \in Nat
    BY <1>1, OtherHalf
  <2>2. QED BY <1>1, <2>1
<1>3. Sized(o)
  BY <1>1, SizesOK
<1>4. \A q \in Here(o, s) : SlotsIn(o, q) \subseteq s .. nf - 1
  <2> SUFFICES ASSUME NEW q \in Here(o, s) PROVE SlotsIn(o, q) \subseteq s .. nf - 1
    OBVIOUS
  <2>1. /\ q \in Nat /\ o[q].size \in Nat /\ s < q /\ q - 1 + o[q].size <= nf
    BY <1>1, <1>3 DEF Here, Sized, Pos, Laid, InHalf
  <2>2. ASSUME NEW x \in SlotsIn(o, q)
        PROVE  x \in s .. nf - 1
    <3>1. x \in Int /\ q - 1 <= x /\ x <= q - 2 + o[q].size
      BY <2>1 DEF SlotsIn
    <3>2. QED BY <1>2, <2>1, <3>1
  <2>3. QED BY <2>2
<1>5. A \subseteq s .. nf - 1 /\ B \subseteq s .. nf - 1
  BY <1>4 DEF SlotsLeft
<1>6. A \cap B = {}
  <2>1. HeapAssumption
    BY HeapAssumption
  <2>2. \A q \in Here(o, s) : o[q].type = Moved => q # p
    BY <2>1, HeapAssumption
  <2>3. \A q \in Here(o, s) : o[q].type = Moved => SlotsIn(o, q) \cap B = {}
    BY <1>1, <1>2, <1>3, <2>2, LaidApart
  <2>4. QED BY <2>3 DEF SlotsLeft
<1>7. IsFiniteSet(s .. nf - 1) /\ Cardinality(s .. nf - 1) = nf - s
  <2>1. nf - 1 \in Int
    BY <1>2
  <2>2. /\ IsFiniteSet(s .. nf - 1)
        /\ Cardinality(s .. nf - 1) = IF s > nf - 1 THEN 0 ELSE (nf - 1) - s + 1
    BY <1>2, <2>1, FS_Interval
  <2>3. QED BY <1>1, <1>2, <2>2
<1>8. IsFiniteSet(A) /\ IsFiniteSet(B)
  BY <1>5, <1>7, FS_Subset
<1>9. Cardinality(B) = n /\ n \in Nat
  <2>1. p \in Nat /\ n \in Nat /\ n > 0
    BY <1>3 DEF Here, Sized, Pos
  <2>2. p - 1 \in Int /\ p - 2 + n \in Int
    BY <2>1
  <2>3. Cardinality(p - 1 .. p - 2 + n)
          = IF p - 1 > p - 2 + n THEN 0 ELSE (p - 2 + n) - (p - 1) + 1
    BY <2>2, FS_Interval
  <2>4. QED BY <2>1, <2>3 DEF SlotsIn
<1> HIDE DEF A, B, n
<1>10. IsFiniteSet(A \cup B) /\ Cardinality(A \cup B) = Cardinality(A) + Cardinality(B) - Cardinality(A \cap B)
  BY <1>8, FS_Union
<1>11. Cardinality(A \cap B) = 0
  BY <1>6, FS_EmptySet
<1>12. Cardinality(A \cup B) = (tn - (Half - s)) + n
  BY <1>1, <1>2, <1>9, <1>10, <1>11
<1>13. Cardinality(A \cup B) <= Cardinality(s .. nf - 1)
  BY <1>5, <1>7, FS_Subset
<1>14. tn + n <= (Half - s) + Half
  BY <1>1, <1>2, <1>7, <1>9, <1>12, <1>13
<1>15. QED BY <1>12, <1>14 DEF A, B, n

(* What an object that has been moved leaves behind.                       *)
Left(a, q) == [a EXCEPT !.type = Moved, !.new = q, !.member = <<>>]
Moving(o, p, q) == Put(Put(o, q, o[p]), p, Left(o[p], q))

LEMMA MovingAt ==
  ASSUME NEW o, NEW p \in DOMAIN o, NEW q, q # p
  PROVE  LET u == Moving(o, p, q)
         IN  /\ DOMAIN u = DOMAIN o \cup {q} /\ u[q] = o[p] /\ u[p] = Left(o[p], q)
             /\ \A r \in DOMAIN o : r # p /\ r # q => u[r] = o[r]
  BY DEF Moving, Put

LEMMA LeftOver ==
  ASSUME NEW a, WellMade(a), NEW q \in Ptr
  PROVE  /\ WellMade(Left(a, q)) /\ Left(a, q).type = Moved /\ Left(a, q).new = q
         /\ Left(a, q).size = a.size /\ Left(a, q).id = a.id /\ Left(a, q).member = <<>>
<1> USE HeapAssumption
<1>1. /\ a \in AllocationRecord
  BY DEF WellMade
<1>2. /\ Left(a, q).type = Moved /\ Left(a, q).new = q
      /\ Left(a, q).size = a.size /\ Left(a, q).id = a.id /\ Left(a, q).member = <<>>
      /\ Left(a, q) \in AllocationRecord
  <2>1. <<>> \in Seq(Ptr)
    OBVIOUS
  <2>2. QED BY <1>1, <2>1 DEF Left, AllocationRecord
<1>3. QED BY <1>2 DEF WellMade

(* gc_move: the object and what is left of it are apart.                   *)
LEMMA HalvesMoved ==
  ASSUME NEW s, NEW nf, NEW tn, NEW o, HalvesOK(s, nf, tn, o, "move"),
         NEW p \in Here(o, s), o[p].type \in Types
  PROVE  LET q == tn + 1
         IN  /\ q \notin DOMAIN o /\ q \in Places /\ InHalf(q, Half - s) /\ q # p
             /\ HalvesOK(s, nf, tn + o[p].size, Moving(o, p, q), "move")
<1> DEFINE q == tn + 1
           n == o[p].size
           r == Half - s
           u == Moving(o, p, q)
<1>0. /\ s \in {0, Half} /\ nf \in s .. s + Half /\ Laid(o, s, nf)
      /\ tn \in r .. r + Half /\ Laid(o, r, tn)
      /\ \A x \in DOMAIN o : x \in Pos /\ WellMade(o[x])
      /\ \A x \in DOMAIN o : InHalf(x, s) \/ (InHalf(x, r) /\ o[x].type \in Types)
      /\ p \in DOMAIN o /\ InHalf(p, s)
  BY DEF HalvesOK, Here
<1>1. /\ Half \in Nat /\ Half > 0 /\ s \in Nat /\ r \in Nat /\ r \in {0, Half} /\ nf \in Nat /\ tn \in Nat
      /\ r <= tn /\ tn <= r + Half
      /\ \A x \in Pos : ~(InHalf(x, s) /\ InHalf(x, r))
  <2>1. /\ Half \in Nat /\ Half > 0 /\ s \in Nat /\ r \in Nat /\ r \in {0, Half}
        /\ \A x \in Pos : ~(InHalf(x, s) /\ InHalf(x, r))
    BY <1>0, OtherHalf
  <2> HIDE DEF r
  <2>2. QED BY <1>0, <2>1
<1>2. n \in Nat /\ n > 1 /\ tn + n <= r + Half
  <2>1. n = Slots(o[p].type)
    BY <1>0 DEF WellMade
  <2>2. QED BY <2>1, SlotsOfType, RoomLeft
<1>3. InHalf(q, r) /\ q \in Pos /\ q \in Places /\ q \in Ptr
  <2> HIDE DEF r
  <2>1. r < q /\ q < r + Half /\ q \in Nat
    BY <1>1, <1>2
  <2>2. QED BY <1>1, <2>1 DEF InHalf, Pos, Places, Ptr
<1>4. q \notin DOMAIN o /\ q # p
  <2>1. \A x \in Here(o, r) : x \in Nat /\ o[x].size \in Nat /\ o[x].size > 0 /\ x - 1 + o[x].size <= tn
    BY <1>0 DEF Here, Pos, WellMade, AllocationRecord, Laid
  <2>2. tn \in Nat
    BY <1>1
  <2>3. q \notin Here(o, r)
    <3>1. ASSUME q \in Here(o, r)
          PROVE  o[q].size \in Nat /\ o[q].size > 0 /\ q - 1 + o[q].size <= tn
      BY <2>1, <3>1
    <3>2. QED BY <2>2, <3>1
  <2>4. QED BY <1>0, <1>3, <2>3 DEF Here
<1>5. /\ DOMAIN u = DOMAIN o \cup {q} /\ u[q] = o[p] /\ u[p] = Left(o[p], q)
      /\ \A x \in DOMAIN o : x # p => u[x] = o[x]
  BY <1>0, <1>4 DEF Moving, Put
<1>6. WellMade(u[p]) /\ u[p].type = Moved /\ u[p].size = n
  BY <1>0, <1>3, <1>5, LeftOver
<1> HIDE DEF u
<1>7. \A x \in DOMAIN o : u[x].size = o[x].size
  BY <1>5, <1>6
<1>8. Laid(u, r, tn + n)
  <2> HIDE DEF r
  <2>1. Sized(o)
    BY <1>0, SizesOK
  <2>2. u[tn + 1].size = n
    BY <1>5
  <2>3. QED BY <1>0, <1>1, <1>2, <1>5, <1>7, <2>1, <2>2, LaidMore
<1>9. Here(u, s) = Here(o, s)
  BY <1>1, <1>3, <1>5 DEF Here
<1>10. Laid(u, s, nf)
  <2>1. \A x \in Here(o, s) : u[x].size = o[x].size
    BY <1>7 DEF Here
  <2>2. QED BY <1>0, <1>9, <2>1, LaidSame
<1>11. \A x \in DOMAIN u : x \in Pos /\ WellMade(u[x])
  BY <1>0, <1>3, <1>5, <1>6
<1>12. \A x \in DOMAIN u : InHalf(x, s) \/ (InHalf(x, r) /\ u[x].type \in Types)
  BY <1>0, <1>3, <1>5
<1>13. SlotsLeft(u, s) = SlotsLeft(o, s) \cup SlotsIn(o, p)
  <2>1. {x \in Here(u, s) : u[x].type = Moved} = {x \in Here(o, s) : o[x].type = Moved} \cup {p}
    BY <1>5, <1>6, <1>9 DEF Here
  <2>2. \A x \in Here(o, s) : SlotsIn(u, x) = SlotsIn(o, x)
    BY <1>7 DEF SlotsIn, Here
  <2>3. {SlotsIn(u, x) : x \in {y \in Here(u, s) : u[y].type = Moved}}
          = {SlotsIn(o, x) : x \in {y \in Here(o, s) : o[y].type = Moved}} \cup {SlotsIn(o, p)}
    BY <2>1, <2>2
  <2>4. QED BY <2>3 DEF SlotsLeft
<1>14. Cardinality(SlotsLeft(u, s)) = (tn + n) - (Half - s)
  <2>1. Cardinality(SlotsLeft(u, s)) = (tn - (Half - s)) + n
    BY <1>13, RoomLeft
  <2>2. n \in Nat /\ tn \in Nat /\ Half \in Nat /\ s \in Nat
    BY <1>1, <1>2
  <2> HIDE DEF n
  <2>3. (tn - (Half - s)) + n = (tn + n) - (Half - s)
    BY <2>2
  <2>4. QED BY <2>1, <2>3
<1>15. /\ tn + n \in r .. r + Half
       /\ tn + n \in 0 .. 2 * Half
  <2> HIDE DEF r, n
  <2>1. r = 0 \/ r = Half
    BY <1>1
  <2>2. QED BY <1>1, <1>2, <2>1
<1>16. HalvesOK(s, nf, tn + n, u, "move")
  <2>1. "move" \in {"mutate", "move", "sweep"} /\ "move" # "mutate"
    OBVIOUS
  <2>2. QED BY <1>0, <1>8, <1>10, <1>11, <1>12, <1>14, <1>15, <2>1 DEF HalvesOK
<1>17. QED BY <1>3, <1>4, <1>16 DEF u

-----------------------------------------------------------------------------
(* What each kind of step does to the tracked pointers.                    *)

LEMMA HeldElements ==
  ASSUME NEW o, NEW r, \A p \in DOMAIN o : p \in Pos
  PROVE  /\ \A h \in Handles : <<0, h>> \in HeldOf(o, r) <=> r[h] # 0
         /\ \A p, f : p # 0 =>
              (<<p, f>> \in HeldOf(o, r)
                 <=> p \in DOMAIN o /\ f \in DOMAIN o[p].member
                     /\ Layout[o[p].type][f] = "tracked" /\ o[p].member[f] # 0)
         /\ \A l \in HeldOf(o, r) : (\E h \in Handles : l = <<0, h>>) \/ (\E p, f : p # 0 /\ l = <<p, f>>)
<1> USE HeapAssumption
<1>1. \A p \in DOMAIN o : p # 0
  BY DEF Pos
<1>2. \A h, p : <<0, h>> \in HeldBy(o, p) => p = 0
  BY DEF HeldBy, MembersOf
<1>3. \A p, f : <<p, f>> \in HandlesHeld(r) => p = 0
  BY DEF HandlesHeld
<1>4. \A h \in Handles : <<0, h>> \in HandlesHeld(r) <=> r[h] # 0
  BY DEF HandlesHeld
<1>5. \A p, f, q : <<p, f>> \in HeldBy(o, q)
        <=> p = q /\ f \in DOMAIN o[p].member
            /\ Layout[o[p].type][f] = "tracked" /\ o[p].member[f] # 0
  BY DEF HeldBy, MembersOf
<1>6. \A h \in Handles : <<0, h>> \in HeldOf(o, r) <=> r[h] # 0
  <2> TAKE h \in Handles
  <2>1. \A p \in DOMAIN o : <<0, h>> \notin HeldBy(o, p)
    BY <1>1, <1>2
  <2>2. <<0, h>> \in HeldOf(o, r) <=> <<0, h>> \in HandlesHeld(r)
    BY <2>1 DEF HeldOf
  <2>3. QED BY <1>4, <2>2
<1>7. ASSUME NEW p, NEW f, p # 0
      PROVE  <<p, f>> \in HeldOf(o, r)
                 <=> p \in DOMAIN o /\ f \in DOMAIN o[p].member
                     /\ Layout[o[p].type][f] = "tracked" /\ o[p].member[f] # 0
  BY <1>3, <1>5, <1>7 DEF HeldOf
<1>8. ASSUME NEW l \in HeldOf(o, r)
      PROVE  (\E h \in Handles : l = <<0, h>>) \/ (\E p, f : p # 0 /\ l = <<p, f>>)
  <2>1. CASE l \in HandlesHeld(r)
    BY <2>1 DEF HandlesHeld
  <2>2. CASE \E p \in DOMAIN o : l \in HeldBy(o, p)
    BY <1>1, <2>2 DEF HeldBy, MembersOf
  <2>3. QED BY <2>1, <2>2 DEF HeldOf
<1>9. QED BY <1>6, <1>7, <1>8

LEMMA HeldPut ==
  ASSUME NEW o, NEW r, \A p \in DOMAIN o : p \in Pos, NEW q \in Pos, q \notin DOMAIN o, NEW a
  PROVE  LET M == MembersOf(q, a.type, a.member, {"tracked"})
         IN  HeldOf(Put(o, q, a), r) = HeldOf(o, r) \cup M /\ HeldOf(o, r) \cap M = {}
<1> USE HeapAssumption
<1> DEFINE M == MembersOf(q, a.type, a.member, {"tracked"})
           u == Put(o, q, a)
<1>1. DOMAIN u = DOMAIN o \cup {q} /\ u[q] = a /\ \A p \in DOMAIN o : u[p] = o[p]
  BY DEF Put
<1>2. HeldBy(u, q) = M /\ \A p \in DOMAIN o : HeldBy(u, p) = HeldBy(o, p)
  BY <1>1 DEF HeldBy
<1> HIDE DEF u, M
<1>3. HeldOf(u, r) = HeldOf(o, r) \cup M
  BY <1>1, <1>2 DEF HeldOf
<1>4. \A l \in M : l[1] = q
  BY DEF M, MembersOf
<1>5. \A l \in HeldOf(o, r) : l[1] # q
  <2>1. q # 0
    BY DEF Pos
  <2>2. \A p \in DOMAIN o : \A l \in HeldBy(o, p) : l[1] = p
    BY DEF HeldBy, MembersOf
  <2>3. \A l \in HandlesHeld(r) : l[1] = 0
    BY DEF HandlesHeld
  <2>4. QED BY <2>1, <2>2, <2>3 DEF HeldOf
<1>6. QED BY <1>3, <1>4, <1>5 DEF u, M

LEMMA HeldRoot ==
  ASSUME NEW o, NEW r \in [Handles -> Ptr], \A p \in DOMAIN o : p \in Pos,
         NEW h \in Handles, NEW v
  PROVE  HeldOf(o, SetAt(r, h, v))
           = IF v # 0 THEN HeldOf(o, r) \cup {<<0, h>>} ELSE HeldOf(o, r) \ {<<0, h>>}
<1> DEFINE r2 == SetAt(r, h, v)
           M == UNION {HeldBy(o, p) : p \in DOMAIN o}
<1>1. \A l \in M : l # <<0, h>>
  <2>1. \A p \in DOMAIN o : p # 0
    BY HeapAssumption DEF Pos
  <2>2. \A p \in DOMAIN o : \A l \in HeldBy(o, p) : l[1] = p
    BY DEF HeldBy, MembersOf
  <2>3. QED BY <2>1, <2>2
<1>2. \A g \in Handles : r2[g] = IF g = h THEN v ELSE r[g]
  BY DEF SetAt
<1> HIDE DEF r2, M
<1>3. HandlesHeld(r2) = IF v # 0 THEN HandlesHeld(r) \cup {<<0, h>>} ELSE HandlesHeld(r) \ {<<0, h>>}
  BY <1>2 DEF HandlesHeld
<1>4. HeldOf(o, r2) = HandlesHeld(r2) \cup M /\ HeldOf(o, r) = HandlesHeld(r) \cup M
  BY DEF HeldOf, M
<1>5. HeldOf(o, r2) = IF v # 0 THEN HeldOf(o, r) \cup {<<0, h>>} ELSE HeldOf(o, r) \ {<<0, h>>}
  BY <1>1, <1>3, <1>4
<1>6. QED BY <1>5 DEF r2

(* A member that changes, tracked or not.                                  *)
LEMMA HeldSet ==
  ASSUME NEW o, NEW r, \A p \in DOMAIN o : p \in Pos,
         NEW p \in DOMAIN o, o[p] \in AllocationRecord, NEW f \in DOMAIN o[p].member, NEW v \in Ptr
  PROVE  /\ Layout[o[p].type][f] = "tracked" =>
              HeldOf(SetIn(o, p, f, v), r)
                = IF v # 0 THEN HeldOf(o, r) \cup {<<p, f>>} ELSE HeldOf(o, r) \ {<<p, f>>}
         /\ Layout[o[p].type][f] # "tracked" => HeldOf(SetIn(o, p, f, v), r) = HeldOf(o, r)
<1> DEFINE u == SetIn(o, p, f, v)
<1>1. /\ DOMAIN u = DOMAIN o
      /\ \A q \in DOMAIN o : q # p => u[q] = o[q]
      /\ u[p].type = o[p].type
      /\ u[p].member = SetAt(o[p].member, f, v)
      /\ DOMAIN u[p].member = DOMAIN o[p].member
  BY SetInAt
<1> HIDE DEF u
<1>2. /\ u[p].member[f] = v
      /\ \A g \in DOMAIN o[p].member : g # f => u[p].member[g] = o[p].member[g]
  BY <1>1 DEF SetAt
<1>3. \A q \in DOMAIN o : q # p => HeldBy(u, q) = HeldBy(o, q)
  BY <1>1 DEF HeldBy
<1>4. \A q \in DOMAIN o : q # p => <<p, f>> \notin HeldBy(o, q)
  BY DEF HeldBy, MembersOf
<1>5. <<p, f>> \notin HandlesHeld(r)
  BY HeapAssumption DEF HandlesHeld, Pos
<1>6. ASSUME Layout[o[p].type][f] = "tracked"
      PROVE  HeldBy(u, p) = IF v # 0 THEN HeldBy(o, p) \cup {<<p, f>>} ELSE HeldBy(o, p) \ {<<p, f>>}
  <2>1. \A g \in DOMAIN o[p].member : g # f => (<<p, g>> \in HeldBy(u, p) <=> <<p, g>> \in HeldBy(o, p))
    BY <1>1, <1>2 DEF HeldBy, MembersOf
  <2>2. <<p, f>> \in HeldBy(u, p) <=> v # 0
    BY <1>1, <1>2, <1>6 DEF HeldBy, MembersOf
  <2>3. \A l \in HeldBy(u, p) \cup HeldBy(o, p) : \E g \in DOMAIN o[p].member : l = <<p, g>>
    BY <1>1 DEF HeldBy, MembersOf
  <2>4. CASE v # 0
    BY <2>1, <2>2, <2>3, <2>4
  <2>5. CASE v = 0
    BY <2>1, <2>2, <2>3, <2>5
  <2>6. QED BY <2>4, <2>5
<1>7. ASSUME Layout[o[p].type][f] # "tracked"
      PROVE  HeldBy(u, p) = HeldBy(o, p)
  <2>1. \A g \in DOMAIN o[p].member :
          (Layout[u[p].type][g] \in {"tracked"} /\ u[p].member[g] # 0)
            <=> (Layout[o[p].type][g] \in {"tracked"} /\ o[p].member[g] # 0)
    BY <1>1, <1>2, <1>7
  <2>2. QED BY <1>1, <2>1 DEF HeldBy, MembersOf
<1> DEFINE M == HandlesHeld(r) \cup UNION {HeldBy(o, q) : q \in DOMAIN o \ {p}}
<1>8. HeldOf(u, r) = M \cup HeldBy(u, p) /\ HeldOf(o, r) = M \cup HeldBy(o, p) /\ <<p, f>> \notin M
  BY <1>1, <1>3, <1>4, <1>5 DEF HeldOf
<1> HIDE DEF M
<1>9. QED BY <1>6, <1>7, <1>8 DEF u

(* A fixup leaves the pointer non-empty.                                   *)
LEMMA HeldFixed ==
  ASSUME NEW o, NEW r, \A p \in DOMAIN o : p \in Pos,
         NEW p \in DOMAIN o, o[p] \in AllocationRecord, NEW f \in DOMAIN o[p].member, NEW v \in Ptr,
         v # 0, o[p].member[f] # 0
  PROVE  HeldOf(SetIn(o, p, f, v), r) = HeldOf(o, r)
<1>1. Layout[o[p].type][f] = "tracked" => <<p, f>> \in HeldOf(o, r)
  BY HeldElements, HeapAssumption DEF Pos
<1>2. CASE Layout[o[p].type][f] = "tracked"
  <2>1. HeldOf(SetIn(o, p, f, v), r) = HeldOf(o, r) \cup {<<p, f>>}
    BY <1>2, HeldSet
  <2>2. QED BY <1>1, <1>2, <2>1
<1>3. CASE Layout[o[p].type][f] # "tracked"
  BY <1>3, HeldSet
<1>4. QED BY <1>2, <1>3

LEMMA HeldRootFixed ==
  ASSUME NEW o, NEW r \in [Handles -> Ptr], \A p \in DOMAIN o : p \in Pos,
         NEW h \in Handles, NEW v, v # 0, r[h] # 0
  PROVE  HeldOf(o, SetAt(r, h, v)) = HeldOf(o, r)
<1>1. <<0, h>> \in HeldOf(o, r)
  BY HeldElements
<1>2. HeldOf(o, SetAt(r, h, v))
        = IF v # 0 THEN HeldOf(o, r) \cup {<<0, h>>} ELSE HeldOf(o, r) \ {<<0, h>>}
  BY ONLY r \in [Handles -> Ptr], \A p \in DOMAIN o : p \in Pos, h \in Handles, HeldRoot
<1>3. HeldOf(o, SetAt(r, h, v)) = HeldOf(o, r) \cup {<<0, h>>}
  BY <1>2
<1>4. QED BY <1>1, <1>3

LEMMA HeldMoved ==
  ASSUME NEW o, NEW r, \A p \in DOMAIN o : p \in Pos, NEW p \in DOMAIN o, NEW q \in Pos,
         q \notin DOMAIN o, o[p] \in AllocationRecord
  PROVE  LET M == MembersOf(q, o[p].type, o[p].member, {"tracked"})
         IN  /\ HeldOf(Moving(o, p, q), r) = (HeldOf(o, r) \cup M) \ HeldBy(o, p)
             /\ HeldOf(o, r) \cap M = {} /\ HeldBy(o, p) \subseteq HeldOf(o, r)
<1> DEFINE M == MembersOf(q, o[p].type, o[p].member, {"tracked"})
           w == Put(o, q, o[p])
           u == Moving(o, p, q)
<1>1. /\ DOMAIN u = DOMAIN o \cup {q} /\ u[q] = o[p] /\ u[p].member = <<>>
      /\ \A x \in DOMAIN o : x # p => u[x] = o[x]
  <2>1. p # q
    OBVIOUS
  <2>2. Left(o[p], q).member = <<>>
    BY DEF Left, AllocationRecord
  <2>3. QED BY <2>1, <2>2 DEF Moving, Put
<1>2. HeldBy(u, q) = M /\ \A x \in DOMAIN o : x # p => HeldBy(u, x) = HeldBy(o, x)
  BY <1>1 DEF HeldBy
<1>3. HeldBy(u, p) = {}
  BY <1>1 DEF HeldBy, MembersOf
<1>4. HeldOf(o, r) \cap M = {}
  BY HeldPut
<1> HIDE DEF u, M, w
<1> DEFINE N == HandlesHeld(r) \cup UNION {HeldBy(o, x) : x \in DOMAIN o \ {p}}
<1>5. HeldOf(u, r) = N \cup M
  BY <1>1, <1>2, <1>3 DEF HeldOf
<1>6. HeldOf(o, r) = N \cup HeldBy(o, p)
  BY DEF HeldOf
<1>7. N \cap HeldBy(o, p) = {}
  <2>1. p # 0
    BY HeapAssumption DEF Pos
  <2>2. \A x \in DOMAIN o : \A l \in HeldBy(o, x) : l[1] = x
    BY DEF HeldBy, MembersOf
  <2>3. \A l \in HandlesHeld(r) : l[1] = 0
    BY DEF HandlesHeld
  <2>4. QED BY <2>1, <2>2, <2>3
<1> HIDE DEF N
<1>8. HeldOf(u, r) = (HeldOf(o, r) \cup M) \ HeldBy(o, p)
  BY <1>4, <1>5, <1>6, <1>7
<1>9. QED BY <1>4, <1>6, <1>8 DEF u, M

LEMMA HeldReleased ==
  ASSUME NEW o, NEW r, NEW s, \A p \in DOMAIN o : p \in Pos, NEW u,
         DOMAIN u = {p \in DOMAIN o : ~InHalf(p, s)}, \A p \in DOMAIN u : u[p] = o[p]
  PROVE  HeldOf(u, r) = HeldOf(o, r) \ UNION {HeldBy(o, p) : p \in Here(o, s)}
<1> DEFINE A == UNION {HeldBy(o, p) : p \in Here(o, s)}
           B == UNION {HeldBy(o, p) : p \in DOMAIN u}
<1>1. HeldOf(o, r) = HandlesHeld(r) \cup A \cup B
  BY DEF HeldOf, Here
<1>2. \A p \in DOMAIN u : HeldBy(u, p) = HeldBy(o, p)
  BY DEF HeldBy
<1>3. HeldOf(u, r) = HandlesHeld(r) \cup B
  BY <1>2 DEF HeldOf
<1>4. A \cap (HandlesHeld(r) \cup B) = {}
  <2>1. \A p \in DOMAIN o : p # 0
    BY HeapAssumption DEF Pos
  <2>2. \A p : \A l \in HeldBy(o, p) : l[1] = p
    BY DEF HeldBy, MembersOf
  <2>3. \A l \in HandlesHeld(r) : l[1] = 0
    BY DEF HandlesHeld
  <2>4. QED BY <2>1, <2>2, <2>3 DEF Here
<1> HIDE DEF A, B
<1>5. QED BY <1>1, <1>3, <1>4 DEF A

(* operator= of a tracked pointer.                                         *)
LEMMA ReattachedLists ==
  ASSUME NEW R, Lists(pointers, R), NEW l, NEW old, NEW new, l \in R <=> old # 0
  PROVE  Lists(Reattached(l, old, new), IF new # 0 THEN R \cup {l} ELSE R \ {l})
<1> DEFINE d == IF old # 0 THEN Erase(pointers, l) ELSE pointers
<1>1. Lists(d, R \ {l})
  <2>1. CASE old # 0
    BY <2>1, EraseLists
  <2>2. CASE old = 0
    <3>1. R \ {l} = R
      BY <2>2
    <3>2. QED BY <2>2, <3>1
  <2>3. QED BY <2>1, <2>2
<1>2. Reattached(l, old, new) = IF new # 0 THEN Append(d, l) ELSE d
  BY DEF Reattached
<1> HIDE DEF d
<1>3. Lists(Append(d, l), (R \ {l}) \cup {l})
  BY <1>1, AppendLists
<1>4. (R \ {l}) \cup {l} = R \cup {l}
  OBVIOUS
<1>5. QED BY <1>1, <1>2, <1>3, <1>4

LEMMA DestroyedLists ==
  ASSUME NEW R, NEW s, Lists(s, R), NEW p, obj[p].member \in Seq(Ptr), HeldBy(obj, p) \subseteq R
  PROVE  Lists(Destroyed(s, p), R \ HeldBy(obj, p))
<1>1. Lists(Attached(p, obj[p]), HeldBy(obj, p))
  BY MemberLocationsLists DEF Attached, HeldBy
<1>2. Lists(Reverse(Attached(p, obj[p])), HeldBy(obj, p))
  BY <1>1, ReverseLists
<1>3. QED BY <1>2, EraseAllLists DEF Destroyed

DestroyFold == INSTANCE FoldProofs WITH Op <- Destroyed

(* The destructors of a list of objects.                                   *)
LEMMA AllDestroyedLists ==
  ASSUME NEW R, NEW s, Lists(s, R), NEW P, NEW ps, Lists(ps, P),
         \A p \in P : obj[p].member \in Seq(Ptr) /\ HeldBy(obj, p) \subseteq R
  PROVE  Lists(FoldLeft(Destroyed, s, ps), R \ UNION {HeldBy(obj, p) : p \in P})
<1> DEFINE n == Len(ps)
           Prefix(i) == {ps[j] : j \in 1 .. i}
           Gone(S) == UNION {HeldBy(obj, p) : p \in S}
           J == [i \in 0 .. n |-> {x \in Seq(R) : Lists(x, R \ Gone(Prefix(i)))}]
<1>1. /\ n \in Nat /\ DOMAIN ps = 1 .. n
      /\ \A i \in 1 .. n : ps[i] \in P
      /\ \A i, j \in 1 .. n : ps[i] = ps[j] => i = j
      /\ Prefix(n) = P
  <2>1. /\ n \in Nat /\ DOMAIN ps = 1 .. n
        /\ \A i \in 1 .. n : ps[i] \in P
        /\ \A i, j \in 1 .. n : ps[i] = ps[j] => i = j
    BY ListsElements
  <2>2. \A x \in P : \E i \in 1 .. n : ps[i] = x
    BY ListsElements
  <2>3. QED BY <2>1, <2>2
<1>2. s \in J[0]
  <2>1. R \ Gone(Prefix(0)) = R
    OBVIOUS
  <2>2. 0 \in 0 .. n
    BY <1>1
  <2>3. QED BY <2>1, <2>2 DEF Lists
<1>3. ASSUME NEW i \in 1 .. n, NEW x \in J[i - 1]
      PROVE  Destroyed(x, ps[i]) \in J[i]
  <2> DEFINE p == ps[i]
             A == Gone(Prefix(i - 1))
  <2>1. /\ i \in 0 .. n /\ i - 1 \in 0 .. n /\ i \in Nat
        /\ x \in Seq(R) /\ Lists(x, R \ A)
    BY <1>1, <1>3
  <2>2. Prefix(i) = Prefix(i - 1) \cup {p}
    <3>1. \A j : j \in 1 .. i <=> j \in 1 .. i - 1 \/ j = i
      BY <2>1, <1>3
    <3>2. QED BY <3>1
  <2>3. p \notin Prefix(i - 1)
    <3>1. \A j \in 1 .. i - 1 : j \in 1 .. n /\ j # i
      BY <2>1, <1>1
    <3>2. QED BY <1>1, <1>3, <3>1
  <2>4. Gone(Prefix(i)) = A \cup HeldBy(obj, p)
    <3> HIDE DEF p, Prefix
    <3>1. QED BY <2>2
  <2>5. HeldBy(obj, p) \subseteq R \ A
    <3>1. \A q : \A l \in HeldBy(obj, q) : l[1] = q
      BY DEF HeldBy, MembersOf
    <3>2. p \in P /\ HeldBy(obj, p) \subseteq R
      BY <1>1
    <3> HIDE DEF p, Prefix
    <3>3. QED BY <2>3, <3>1, <3>2
  <2>6. obj[p].member \in Seq(Ptr)
    BY <1>1
  <2> HIDE DEF p, A, Gone, Prefix
  <2>7. Lists(Destroyed(x, p), (R \ A) \ HeldBy(obj, p))
    BY <2>1, <2>5, <2>6, DestroyedLists
  <2>8. (R \ A) \ HeldBy(obj, p) = R \ Gone(Prefix(i))
    BY <2>4
  <2>9. Lists(Destroyed(x, p), R \ Gone(Prefix(i)))
    BY <2>7, <2>8
  <2>10. Destroyed(x, p) \in Seq(R)
    BY <2>9, SeqMonotonic DEF Lists
  <2>11. J[i] = {y \in Seq(R) : Lists(y, R \ Gone(Prefix(i)))}
    BY <2>1
  <2>12. Destroyed(x, p) \in J[i]
    BY <2>9, <2>10, <2>11
  <2>13. QED BY <2>12 DEF p
<1>4. \A x \in J[n] : Lists(x, R \ Gone(P))
  <2>1. n \in 0 .. n
    BY <1>1
  <2>2. \A x \in J[n] : Lists(x, R \ Gone(Prefix(n)))
    BY <2>1
  <2> HIDE DEF Gone, Prefix
  <2>3. QED BY <1>1, <2>2
<1>5. FoldLeft(Destroyed, s, ps) = DestroyFold!Folded(s, ps)
  BY DEF FoldLeft, MapThenFoldSet, Max, DestroyFold!Folded, DestroyFold!Greatest
<1>6. \A i \in 1 .. n : \A x \in J[i - 1] : Destroyed(x, ps[i]) \in J[i]
  BY <1>3
<1> HIDE DEF J
<1>7. n \in Nat /\ DOMAIN ps = 1 .. n
  BY <1>1
<1>8. DestroyFold!Folded(s, ps) \in J[n]
  BY <1>2, <1>6, <1>7, DestroyFold!FoldInduction
<1>9. QED BY <1>4, <1>5, <1>8

-----------------------------------------------------------------------------
(* run_destructors visits every object of its half, and each of them once. *)

Headers == {p - 1 : p \in {q \in DOMAIN obj : InHalf(q, start)}} \cup {nextFree}
NextHeader(pos) == pos + obj[pos + 1].size
Walks(w, D) ==
  w = [pos \in D |-> IF pos >= nextFree THEN <<>> ELSE <<pos + 1>> \o w[NextHeader(pos)]]
Near(k) == {pos \in Headers : pos >= nextFree - k}
Ahead(pos) == {p \in Here(obj, start) : p > pos}

LEMMA HeadersOK ==
  ASSUME LayoutOK
  PROVE  /\ nextFree \in Nat /\ start \in Headers /\ Here(obj, start) = Ahead(start)
         /\ Ahead(nextFree) = {}
         /\ \A pos \in Headers : pos \in 0 .. nextFree
         /\ \A pos \in Headers : pos < nextFree =>
              /\ NextHeader(pos) \in Headers /\ pos < NextHeader(pos)
              /\ pos + 1 \in Here(obj, start)
              /\ Ahead(pos) = {pos + 1} \cup Ahead(NextHeader(pos))
<1> DEFINE H == Here(obj, start)
<1>1. /\ start \in {0, Half} /\ nextFree \in start .. start + Half /\ Laid(obj, start, nextFree)
      /\ \A p \in DOMAIN obj : p \in Pos /\ WellMade(obj[p])
  BY DEF LayoutOK, HalvesOK
<1>2. Half \in Nat /\ start \in Nat
  BY <1>1, OtherHalf
<1>3. nextFree \in Nat /\ start <= nextFree
  BY <1>1, <1>2
<1>4. \A p \in H : /\ p \in Nat /\ obj[p].size \in Nat /\ obj[p].size > 0
                   /\ start < p /\ p - 1 + obj[p].size <= nextFree
  BY <1>1, <1>2 DEF Here, Pos, WellMade, AllocationRecord, InHalf, Laid
<1>5. \A p, q \in H : p < q => p + obj[p].size <= q
  BY <1>1 DEF Laid
<1>6. {start} \cup {p - 1 + obj[p].size : p \in H} = {nextFree} \cup {p - 1 : p \in H}
  BY <1>1 DEF Laid
<1>7. Headers = {nextFree} \cup {p - 1 : p \in H}
  BY DEF Headers, Here
<1> HIDE DEF H
<1>8. start \in Headers
  BY <1>6, <1>7
<1>9. H = Ahead(start)
  BY <1>4 DEF Ahead, H
<1>10. Ahead(nextFree) = {}
  <2> SUFFICES ASSUME NEW p \in H, p > nextFree PROVE FALSE
    BY DEF Ahead, H
  <2>1. QED BY <1>3, <1>4
<1>11. \A pos \in Headers : pos \in 0 .. nextFree
  <2> SUFFICES ASSUME NEW p \in H PROVE p - 1 \in 0 .. nextFree
    BY <1>3, <1>7
  <2>1. QED BY <1>2, <1>3, <1>4
<1>12. ASSUME NEW pos \in Headers, pos < nextFree
       PROVE  /\ NextHeader(pos) \in Headers /\ pos < NextHeader(pos)
              /\ pos + 1 \in H
              /\ Ahead(pos) = {pos + 1} \cup Ahead(NextHeader(pos))
  <2>1. PICK p \in H : pos = p - 1
    <3>1. pos # nextFree
      BY <1>3, <1>11, <1>12
    <3>2. QED BY <1>7, <1>12, <3>1
  <2>2. pos + 1 = p /\ NextHeader(pos) = p - 1 + obj[p].size
    BY <1>4, <2>1 DEF NextHeader
  <2>3. NextHeader(pos) \in Headers
    BY <1>6, <1>7, <2>1, <2>2
  <2>4. pos < NextHeader(pos)
    BY <1>4, <2>1, <2>2
  <2>5. ASSUME NEW q \in H
        PROVE  q > pos <=> q = p \/ q > NextHeader(pos)
    <3>1. p \in Nat /\ q \in Nat /\ obj[p].size \in Nat /\ obj[p].size > 0
      BY <1>4
    <3>2. (q > p => p + obj[p].size <= q) /\ (q > pos <=> q >= p)
      BY <1>5, <2>1, <3>1
    <3>3. QED BY <2>2, <3>1, <3>2
  <2>6. Ahead(pos) = {p} \cup Ahead(NextHeader(pos))
    BY <2>1, <2>5 DEF Ahead, H
  <2>7. QED BY <2>1, <2>2, <2>3, <2>4, <2>6
<1>13. QED BY <1>3, <1>8, <1>9, <1>10, <1>11, <1>12 DEF H

LEMMA WalkExists ==
  ASSUME LayoutOK
  PROVE  \E w : Walks(w, Headers)
<1> DEFINE T == {k \in 0 .. nextFree : \E w : Walks(w, Near(k))}
<1>1. /\ nextFree \in Nat /\ \A pos \in Headers : pos \in 0 .. nextFree
      /\ \A pos \in Headers : pos < nextFree =>
           NextHeader(pos) \in Headers /\ pos < NextHeader(pos)
  BY HeadersOK
<1>2. 0 \in T
  <2> DEFINE w == [pos \in Near(0) |-> <<>>]
  <2>1. \A pos \in Near(0) : pos >= nextFree
    BY <1>1 DEF Near
  <2>2. Walks(w, Near(0))
    BY <2>1 DEF Walks
  <2> HIDE DEF w
  <2>3. QED BY <1>1, <2>2
<1>3. ASSUME NEW k \in 0 .. nextFree - 1, k \in T
      PROVE  k + 1 \in T
  <2>1. PICK w : Walks(w, Near(k))
    BY <1>3
  <2> DEFINE b == nextFree - (k + 1)
             g == [pos \in Near(k + 1) |-> IF pos = b THEN <<pos + 1>> \o w[NextHeader(pos)] ELSE w[pos]]
  <2>2. /\ k \in Nat /\ b \in Nat /\ b < nextFree
        /\ \A pos \in Near(k + 1) : pos # b => pos \in Near(k)
        /\ \A pos \in Near(k) : pos \in Near(k + 1) /\ pos # b
    BY <1>1 DEF Near
  <2>3. \A pos \in Near(k + 1) : pos < nextFree => NextHeader(pos) \in Near(k)
    <3> SUFFICES ASSUME NEW pos \in Near(k + 1), pos < nextFree PROVE NextHeader(pos) \in Near(k)
      OBVIOUS
    <3>1. /\ NextHeader(pos) \in Headers /\ NextHeader(pos) \in 0 .. nextFree /\ pos < NextHeader(pos)
          /\ pos \in 0 .. nextFree /\ pos >= b
      BY <1>1 DEF Near
    <3>2. NextHeader(pos) >= nextFree - k
      BY <1>1, <2>2, <3>1
    <3>3. QED BY <3>1, <3>2 DEF Near
  <2>4. \A pos \in Near(k) : g[pos] = w[pos]
    BY <2>2
  <2>5. ASSUME NEW pos \in Near(k + 1)
        PROVE  g[pos] = IF pos >= nextFree THEN <<>> ELSE <<pos + 1>> \o g[NextHeader(pos)]
    <3>0. pos \in 0 .. nextFree
      BY <1>1 DEF Near
    <3>1. CASE pos = b
      <4>1. g[pos] = <<pos + 1>> \o w[NextHeader(pos)]
        BY <3>1
      <4>2. NextHeader(pos) \in Near(k) /\ ~(pos >= nextFree)
        BY <1>1, <2>2, <2>3, <3>1
      <4>3. QED BY <2>4, <4>1, <4>2
    <3>2. CASE pos # b
      <4>1. pos \in Near(k)
        BY <2>2, <3>2
      <4>2. w[pos] = IF pos >= nextFree THEN <<>> ELSE <<pos + 1>> \o w[NextHeader(pos)]
        BY <2>1, <4>1 DEF Walks
      <4>3. pos < nextFree => g[NextHeader(pos)] = w[NextHeader(pos)]
        BY <2>3, <2>4
      <4>4. pos >= nextFree \/ pos < nextFree
        BY <1>1, <3>0
      <4>5. g[pos] = w[pos]
        BY <2>4, <4>1
      <4> HIDE DEF g
      <4>6. QED BY <4>2, <4>3, <4>4, <4>5
    <3>3. QED BY <3>1, <3>2
  <2>6. g = [pos \in Near(k + 1) |-> g[pos]]
    OBVIOUS
  <2> HIDE DEF g
  <2>7. Walks(g, Near(k + 1))
    BY <2>5, <2>6 DEF Walks
  <2>8. k + 1 \in 0 .. nextFree
    BY <1>1
  <2>9. QED BY <2>7, <2>8
<1>4. \A k \in 0 .. nextFree - 1 : k \in T => k + 1 \in T
  BY <1>3
<1> HIDE DEF T
<1>5. \A k \in 0 .. nextFree : k \in T
  BY <1>1, <1>2, <1>4, KeepFold!UpTo
<1>6. nextFree \in T
  BY <1>1, <1>5
<1>7. Near(nextFree) = Headers
  BY <1>1 DEF Near
<1>8. QED BY <1>6, <1>7 DEF T

LEMMA WalkLists ==
  ASSUME LayoutOK
  PROVE  Lists(Walk, Here(obj, start))
<1> DEFINE w == CHOOSE f : Walks(f, Headers)
           T == {k \in 0 .. nextFree : \A pos \in Near(k) : Lists(w[pos], Ahead(pos))}
<1>1. Walks(w, Headers)
  BY WalkExists
<1>2. Walk = w[start]
  BY DEF Walk, Walks, Headers, NextHeader
<1> HIDE DEF w
<1>3. /\ nextFree \in Nat /\ start \in Headers /\ Here(obj, start) = Ahead(start)
      /\ Ahead(nextFree) = {}
      /\ \A pos \in Headers : pos \in 0 .. nextFree
  BY HeadersOK
<1>4. \A pos \in Headers : pos < nextFree =>
              /\ NextHeader(pos) \in Headers /\ pos < NextHeader(pos)
              /\ pos + 1 \in Here(obj, start)
              /\ Ahead(pos) = {pos + 1} \cup Ahead(NextHeader(pos))
  BY HeadersOK
<1>5. \A pos \in Headers :
        w[pos] = IF pos >= nextFree THEN <<>> ELSE <<pos + 1>> \o w[NextHeader(pos)]
  BY <1>1 DEF Walks
<1>6. ASSUME NEW pos \in Headers, pos >= nextFree
      PROVE  Lists(w[pos], Ahead(pos))
  <2>1. pos = nextFree
    BY <1>3, <1>6
  <2>2. w[pos] = <<>> /\ Ahead(pos) = {}
    BY <1>3, <1>5, <1>6, <2>1
  <2>3. QED BY <2>2, EmptyLists
<1>7. 0 \in T
  <2>1. \A pos \in Near(0) : pos \in Headers /\ pos >= nextFree
    BY <1>3 DEF Near
  <2>2. QED BY <1>3, <1>6, <2>1
<1>8. ASSUME NEW k \in 0 .. nextFree - 1, k \in T
      PROVE  k + 1 \in T
  <2>1. ASSUME NEW pos \in Near(k + 1)
        PROVE  Lists(w[pos], Ahead(pos))
    <3>1. pos \in Headers /\ pos \in 0 .. nextFree /\ pos >= nextFree - (k + 1)
      BY <1>3 DEF Near
    <3>2. CASE pos < nextFree
      <4> DEFINE next == NextHeader(pos)
                 one == <<pos + 1>>
      <4>1. next \in Headers /\ pos < next /\ Ahead(pos) = {pos + 1} \cup Ahead(next)
        BY <1>4, <3>1, <3>2
      <4>2. next \in 0 .. nextFree
        BY <1>3, <4>1
      <4> HIDE DEF next
      <4>3. next >= nextFree - k
        BY <1>3, <3>1, <4>1, <4>2
      <4>4. next \in Near(k)
        BY <4>1, <4>3 DEF Near
      <4>5. Lists(w[next], Ahead(next))
        BY <1>8, <4>4
      <4>6. Lists(one, {pos + 1})
        <5>1. one \in Seq({pos + 1}) /\ Len(one) = 1 /\ one[1] = pos + 1
          OBVIOUS
        <5>2. \A i, j \in 1 .. Len(one) : one[i] = one[j] => i = j
          BY <5>1
        <5>3. \A x \in {pos + 1} : \E i \in 1 .. Len(one) : one[i] = x
          BY <5>1
        <5> HIDE DEF one
        <5>4. QED BY <5>1, <5>2, <5>3, ListsByElements
      <4>7. {pos + 1} \cap Ahead(next) = {}
        <5>1. ~(pos + 1 > next)
          BY <3>1, <4>1, <4>2
        <5>2. QED BY <5>1 DEF Ahead
      <4>8. w[pos] = one \o w[next]
        <5>1. ~(pos >= nextFree)
          BY <1>3, <3>1, <3>2
        <5>2. QED BY <1>5, <3>1, <5>1 DEF next
      <4> HIDE DEF one
      <4>9. Lists(one \o w[next], {pos + 1} \cup Ahead(next))
        BY <4>5, <4>6, <4>7, ConcatLists
      <4>10. QED BY <4>1, <4>8, <4>9
    <3>3. CASE pos >= nextFree
      BY <1>6, <3>1, <3>3
    <3>4. QED BY <1>3, <3>1, <3>2, <3>3
  <2>2. k + 1 \in 0 .. nextFree
    BY <1>3
  <2>3. QED BY <2>1, <2>2
<1>9. \A k \in 0 .. nextFree - 1 : k \in T => k + 1 \in T
  BY <1>8
<1> HIDE DEF T
<1>10. \A k \in 0 .. nextFree : k \in T
  BY <1>3, <1>7, <1>9, KeepFold!UpTo
<1>11. nextFree \in T
  BY <1>3, <1>10
<1>12. start \in Near(nextFree)
  BY <1>3 DEF Near
<1>13. Lists(w[start], Ahead(start))
  BY <1>11, <1>12 DEF T
<1>14. QED BY <1>2, <1>3, <1>13

LEMMA RunDestructorsLists ==
  ASSUME LayoutOK, Lists(pointers, HeldOf(obj, root)), RunDestructors
  PROVE  /\ Lists(pointers', HeldOf(obj', root))
         /\ DOMAIN obj' = {p \in DOMAIN obj : ~InHalf(p, start)}
         /\ \A p \in DOMAIN obj' : obj'[p] = obj[p]
<1> DEFINE ps == Chosen(Walk, ObjectsIn(start))
           P == ObjectsIn(start)
<1>1. \A p \in DOMAIN obj : p \in Pos /\ WellMade(obj[p])
  BY DEF LayoutOK, HalvesOK
<1>2. P \subseteq Here(obj, start)
  BY DEF ObjectsIn, Here
<1>3. Lists(ps, P)
  <2>1. Lists(ps, Here(obj, start) \cap P)
    BY WalkLists, ChosenLists
  <2>2. Here(obj, start) \cap P = P
    BY <1>2
  <2>3. QED BY <2>1, <2>2
<1>4. \A p \in P : obj[p].member \in Seq(Ptr) /\ HeldBy(obj, p) \subseteq HeldOf(obj, root)
  BY <1>1, <1>2 DEF Here, WellMade, AllocationRecord, HeldOf
<1> HIDE DEF ps, P
<1>5. Lists(FoldLeft(Destroyed, pointers, ps), HeldOf(obj, root) \ UNION {HeldBy(obj, p) : p \in P})
  BY <1>3, <1>4, AllDestroyedLists
<1>6. UNION {HeldBy(obj, p) : p \in Here(obj, start)} = UNION {HeldBy(obj, p) : p \in P}
  <2>1. \A p \in Here(obj, start) : p \notin P => HeldBy(obj, p) = {}
    <3> SUFFICES ASSUME NEW p \in Here(obj, start), p \notin P PROVE HeldBy(obj, p) = {}
      OBVIOUS
    <3>1. p \in DOMAIN obj /\ obj[p].type \notin Types
      BY DEF Here, P, ObjectsIn, IsObject
    <3>2. obj[p].member = <<>>
      BY <1>1, <3>1 DEF WellMade
    <3>3. QED BY <3>2 DEF HeldBy, MembersOf
  <2>2. QED BY <1>2, <2>1
<1>7. /\ DOMAIN obj' = {p \in DOMAIN obj : ~InHalf(p, start)}
      /\ \A p \in DOMAIN obj' : obj'[p] = obj[p]
  BY DEF RunDestructors
<1>8. HeldOf(obj', root) = HeldOf(obj, root) \ UNION {HeldBy(obj, p) : p \in P}
  BY <1>1, <1>6, <1>7, HeldReleased
<1>9. pointers' = FoldLeft(Destroyed, pointers, ps)
  BY DEF RunDestructors, ps
<1>10. QED BY <1>5, <1>7, <1>8, <1>9

-----------------------------------------------------------------------------
(* Steps of the clients.                                                   *)

StepOK == LayoutOK' /\ RegistersOK' /\ [Collector!Next]_(Collector!vars)

LEMMA ObjFacts ==
  ASSUME LayoutOK
  PROVE  /\ start \in {0, Half}
         /\ \A p \in DOMAIN obj : p \in Pos /\ p \in Places /\ p # 0 /\ WellMade(obj[p])
                                  /\ obj[p] \in AllocationRecord
         /\ \A p \in Places : TypeAt[p] = IF Present(obj, p) THEN obj[p].type ELSE Free
         /\ \A p \in Places : IdAt[p] = IF Present(obj, p) THEN obj[p].id ELSE 0
         /\ \A p \in Places : FieldsAt[p] = IF Present(obj, p) THEN MembersIn(obj[p]) ELSE None
         /\ \A p \in Places : NewPosAt[p] = IF Present(obj, p) THEN obj[p].new ELSE 0
         /\ \A p \in Places : TypeAt[p] \in Types <=> IsObject(p)
<1> USE HeapAssumption
<1>1. start \in {0, Half} /\ \A p \in DOMAIN obj : p \in Pos /\ WellMade(obj[p])
  BY DEF LayoutOK, HalvesOK
<1>2. \A p \in DOMAIN obj : InHalf(p, start) \/ InHalf(p, Half - start)
  BY DEF LayoutOK, HalvesOK
<1>3. \A p \in DOMAIN obj : p \in Places /\ p # 0 /\ obj[p] \in AllocationRecord
  BY <1>1, <1>2, ViewHalves DEF Pos, WellMade
<1>4. \A p \in Places : TypeAt[p] = IF Present(obj, p) THEN obj[p].type ELSE Free
  BY DEF TypeAt, Exists, Present
<1>5. \A p \in Places : TypeAt[p] \in Types <=> IsObject(p)
  BY <1>4 DEF Present, IsObject
<1>6. /\ \A p \in Places : IdAt[p] = IF Present(obj, p) THEN obj[p].id ELSE 0
      /\ \A p \in Places : FieldsAt[p] = IF Present(obj, p) THEN MembersIn(obj[p]) ELSE None
      /\ \A p \in Places : NewPosAt[p] = IF Present(obj, p) THEN obj[p].new ELSE 0
  <2>1. /\ \A p \in Places : IdView(obj)[p] = IF Present(obj, p) THEN obj[p].id ELSE 0
        /\ \A p \in Places : FieldsView(obj)[p] = IF Present(obj, p) THEN MembersIn(obj[p]) ELSE None
        /\ \A p \in Places : NewView(obj)[p] = IF Present(obj, p) THEN obj[p].new ELSE 0
    BY DEF IdView, FieldsView, NewView
  <2>2. QED BY <2>1, View
<1>7. QED BY <1>1, <1>3, <1>4, <1>5, <1>6

(* The members of a constructed object are those of its type.              *)
LEMMA MembersOfObject ==
  ASSUME NEW a, WellMade(a), a.type \in Types
  PROVE  /\ DOMAIN a.member = DOMAIN Layout[a.type] /\ a.member \in Seq(Ptr)
         /\ DOMAIN a.member \subseteq Members
         /\ \A f \in DOMAIN a.member :
              MembersIn(a)[f] = a.member[f] /\ a.member[f] \in Ptr
              /\ Layout[a.type][f] \in Kind
         /\ \A f \in Members : f \notin DOMAIN a.member => MembersIn(a)[f] = 0
<1>1. a.member \in Seq(Ptr) /\ Layout[a.type] \in Seq(Kind) /\ Len(a.member) = Len(Layout[a.type])
  BY HeapAssumption DEF WellMade, AllocationRecord
<1>2. DOMAIN a.member = DOMAIN Layout[a.type]
  BY <1>1, LenProperties
<1>3. DOMAIN a.member \subseteq Members
  BY <1>2, MembersOfKind
<1>4. \A f \in DOMAIN a.member : a.member[f] \in Ptr
  BY <1>1, LenProperties
<1>5. \A f \in DOMAIN a.member : Layout[a.type][f] \in Kind
  BY <1>2, KindOfMember
<1>6. QED BY <1>1, <1>2, <1>3, <1>4, <1>5 DEF MembersIn

LEMMA GcSame ==
  ASSUME UNCHANGED gcVars, start' = start
  PROVE  UNCHANGED <<PendingHandles, PendingFields, WeakFixups, ActiveHalf, phase>>
<1>1. pending' = pending /\ weak' = weak /\ phase' = phase
  BY DEF gcVars
<1>2. QED BY <1>1 DEF PendingHandles, PendingFields, WeakFixups, ActiveHalf

LEMMA RootValues ==
  ASSUME root \in [Handles -> Ptr]
  PROVE  HandleValues \subseteq Ptr /\ Collector!HandleValues = HandleValues
  BY HeapAssumption DEF HandleValues, Collector!HandleValues, Ptr

LEMMA MakeStep ==
  ASSUME HeapInv, NEW h \in Handles, NEW t \in Types, NEW x \in Ids,
         NEW members \in [1 .. Len(Layout[t]) -> HandleValues], Make(h, t, x, members)
  PROVE  StepOK
<1> DEFINE q == nextFree + 1
           a == Allocation(Slots(t), t, members, x)
           M == MembersOf(q, a.type, a.member, {"tracked"})
<1> USE HeapAssumption
<1>0. LayoutOK /\ RegistersOK /\ Collector!IInv /\ phase = "mutate" /\ phase' = "mutate"
  BY SplitInv DEF Make, gcVars
<1>1. /\ start' = start /\ nextFree' = nextFree + Slots(t) /\ UNCHANGED gcVars
      /\ root[h] = 0 /\ x \notin IdsInUse /\ Fits(nextFree, start + Half, Slots(t))
      /\ obj' = Put(obj, q, a)
      /\ root' = SetAt(root, h, q)
      /\ pointers' = pointers \o Attached(q, a) \o << <<0, h>> >>
  BY DEF Make, Put, SetAt
<1>2. /\ HalvesOK(start, nextFree, toNext, obj, "mutate")
      /\ root \in [Handles -> Ptr] /\ Lists(pointers, HeldOf(obj, root))
      /\ start \in {0, Half} /\ nextFree \in start .. start + Half
      /\ \A p \in DOMAIN obj : p \in Pos
  BY <1>0 DEF LayoutOK, RegistersOK, HalvesOK
<1>3. /\ a.size = Slots(t) /\ a.type = t /\ a.member = members /\ a.new = 0 /\ a.id = x
      /\ a = [size |-> Slots(t), type |-> t, member |-> members, new |-> 0, id |-> x]
  BY DEF Allocation
<1> HIDE DEF a
<1>4. /\ Slots(t) \in Nat /\ Slots(t) > 1 /\ Half \in Nat /\ start \in Nat
      /\ nextFree + Slots(t) <= start + Half /\ Slots(t) \in 1 .. Half
  <2>1. Slots(t) \in Nat /\ Slots(t) > 1 /\ Half \in Nat /\ start \in Nat
    BY <1>2, SlotsOfType, OtherHalf
  <2>2. Slots(t) <= start + Half /\ nextFree <= start + Half - Slots(t)
    <3>1. Fits(nextFree, start + Half, Slots(t))
      BY <1>1
    <3> HIDE DEF q, a, M
    <3>2. nextFree \in Nat
      BY <1>2, <2>1
    <3> DEFINE n == Slots(t)
               c == start + Half
    <3>3. n \in Nat /\ c \in Nat /\ Fits(nextFree, c, n)
      BY <2>1, <3>1
    <3> HIDE DEF n, c
    <3>4. n <= c /\ nextFree <= c - n
      BY <3>2, <3>3 DEF Fits
    <3>5. QED BY <2>1, <3>2, <3>4 DEF n, c
  <2>3. QED BY <1>2, <2>1, <2>2
<1>5. /\ members \in Seq(HandleValues) /\ Len(members) = Len(Layout[t])
      /\ DOMAIN members = DOMAIN Layout[t]
  <2>1. Layout[t] \in Seq(Kind)
    OBVIOUS
  <2>2. Len(Layout[t]) \in Nat /\ DOMAIN Layout[t] = 1 .. Len(Layout[t])
    BY <2>1, LenProperties
  <2>3. members \in Seq(HandleValues)
    BY <2>2, SeqDef
  <2>4. QED BY <2>2, <2>3, LenProperties
<1>6. WellMade(a)
  <2>1. members \in Seq(Ptr)
    BY <1>2, <1>5, RootValues, SeqMonotonic
  <2>2. 0 \in Ptr
    BY DEF Ptr
  <2>3. a \in AllocationRecord
    BY <1>3, <1>4, <2>1, <2>2 DEF AllocationRecord
  <2>4. QED BY <1>3, <1>5, <2>3 DEF WellMade
<1>7. q \notin DOMAIN obj /\ q \in Places /\ HalvesOK(start, nextFree + a.size, toNext, Put(obj, q, a), "mutate")
  <2>1. a.size > 1 /\ nextFree + a.size <= start + Half /\ a.type # Moved
    BY <1>3, <1>4
  <2>2. QED BY <1>2, <1>6, <2>1, HalvesPut
<1>8. LayoutOK'
  BY <1>0, <1>1, <1>3, <1>7 DEF LayoutOK, gcVars
<1> HIDE DEF q, M
<1>9. RegistersOK'
  <2>1. q \in Pos /\ q \in Ptr /\ q # 0
    BY <1>7 DEF Places, Pos, Ptr
  <2>2. HeldOf(obj', root) = HeldOf(obj, root) \cup M /\ HeldOf(obj, root) \cap M = {}
    <3>1. /\ HeldOf(Put(obj, q, a), root) = HeldOf(obj, root) \cup M
          /\ HeldOf(obj, root) \cap M = {}
      BY <1>2, <1>7, <2>1, HeldPut DEF M
    <3>2. QED BY <1>1, <3>1
  <2>3. HeldOf(obj', root') = HeldOf(obj', root) \cup {<<0, h>>}
    <3>1. \A p \in DOMAIN obj' : p \in Pos
      BY <1>1, <1>2, <2>1 DEF Put
    <3>2. HeldOf(obj', SetAt(root, h, q))
            = IF q # 0 THEN HeldOf(obj', root) \cup {<<0, h>>} ELSE HeldOf(obj', root) \ {<<0, h>>}
      <4> DEFINE o == obj'
      <4>1. (\A p \in DOMAIN o : p \in Pos) /\ root \in [Handles -> Ptr]
        BY <1>2, <3>1
      <4> HIDE DEF o
      <4>2. HeldOf(o, SetAt(root, h, q))
              = IF q # 0 THEN HeldOf(o, root) \cup {<<0, h>>} ELSE HeldOf(o, root) \ {<<0, h>>}
        BY ONLY <4>1, HeldRoot, h \in Handles
      <4>3. QED BY <4>2 DEF o
    <3>3. QED BY <1>1, <2>1, <3>2
  <2>4. <<0, h>> \notin HeldOf(obj', root)
    <3>1. \A p \in DOMAIN obj' : p \in Pos
      BY <1>1, <1>2, <2>1 DEF Put
    <3>2. QED BY <1>1, <3>1, HeldElements
  <2>5. Lists(Attached(q, a), M)
    BY <1>3, <1>5, MemberLocationsLists DEF Attached, M
  <2>6. Lists(pointers \o Attached(q, a), HeldOf(obj', root))
    <3> DEFINE at == Attached(q, a)
               H == HeldOf(obj, root)
               u == obj'
    <3>1. Lists(pointers, H) /\ Lists(at, M) /\ H \cap M = {} /\ HeldOf(u, root) = H \cup M
      BY <1>2, <2>2, <2>5
    <3> HIDE DEF at, H, u
    <3>2. Lists(pointers \o at, H \cup M)
      BY ONLY <3>1, ConcatLists
    <3>3. Lists(pointers \o at, HeldOf(u, root))
      BY ONLY <3>1, <3>2
    <3>4. QED BY ONLY <3>3 DEF at, u
  <2>7. Lists(<< <<0, h>> >>, { <<0, h>> })
    BY SingletonLists
  <2>8. HeldOf(obj', root) \cap { <<0, h>> } = {}
    BY <2>4
  <2>9. Lists(pointers', HeldOf(obj', root'))
    <3> DEFINE s == pointers \o Attached(q, a)
               l == << <<0, h>> >>
    <3>1. Lists(s, HeldOf(obj', root)) /\ Lists(l, { <<0, h>> }) /\ pointers' = s \o l
      BY <1>1, <2>6, <2>7
    <3> HIDE DEF s, l
    <3>2. Lists(s \o l, HeldOf(obj', root) \cup { <<0, h>> })
      BY <2>8, <3>1, ConcatLists
    <3>3. QED BY <2>3, <3>1, <3>2
  <2>10. root' \in [Handles -> Ptr]
    BY <1>1, <1>2, <2>1 DEF SetAt
  <2>11. QED BY <1>0, <1>1, <2>9, <2>10 DEF RegistersOK, gcVars
<1>10. Collector!Next
  <2> DEFINE init == MembersIn(a)
  <2>1. init \in [Members -> Collector!HandleValues]
    <3>1. \A f \in DOMAIN a.member : a.member[f] \in HandleValues
      BY <1>3, <1>5, LenProperties
    <3>2. 0 \in HandleValues
      BY DEF HandleValues
    <3>3. QED BY <1>2, <3>1, <3>2, RootValues DEF MembersIn
  <2>2. q \in OldPlaces /\ TypeAt[q] = Free
    <3>1. InHalf(q, start)
      BY <1>2, <1>4 DEF InHalf, q
    <3>2. QED BY <1>0, <1>7, <3>1, ObjFacts DEF OldPlaces, Present
  <2>3. \A p \in Places : TypeAt[p] \in Types => IdAt[p] # x
    <3>1. ASSUME NEW p \in Places, TypeAt[p] \in Types
          PROVE  IdAt[p] # x
      <4>1. p \in DOMAIN obj /\ obj[p].type # Uninit
        BY <1>0, <3>1, ObjFacts DEF IsObject
      <4>2. IdAt[p] = obj[p].id
        BY <1>0, <4>1, ObjFacts DEF Present
      <4>3. QED BY <1>1, <4>1, <4>2 DEF IdsInUse
    <3>2. QED BY <3>1
  <2>4. \A f \in Members \ Collector!PointersOf(t) : init[f] = 0
    <3>1. ASSUME NEW f \in Members, f \notin Collector!PointersOf(t)
          PROVE  f \notin DOMAIN a.member
      <4>1. f \notin OfKind({"tracked", "strong"})[t] /\ f \notin OfKind({"weak"})[t]
        BY <3>1 DEF Collector!PointersOf
      <4>2. f \in DOMAIN Layout[t] => Layout[t][f] \in Kind
        BY KindOfMember
      <4>3. QED BY <1>3, <1>5, <4>1, <4>2, MembersOfKind DEF Kind
    <3>2. QED BY <3>1 DEF MembersIn
  <2>5. a.type # Uninit
    BY <1>3
  <2>6. /\ TypeAt' = [TypeAt EXCEPT ![q] = t] /\ IdAt' = [IdAt EXCEPT ![q] = x]
        /\ FieldsAt' = [FieldsAt EXCEPT ![q] = init] /\ NewPosAt' = [NewPosAt EXCEPT ![q] = 0]
    <3>1. /\ TypeView(Put(obj, q, a)) = SetAt(TypeView(obj), q, a.type)
          /\ IdView(Put(obj, q, a)) = SetAt(IdView(obj), q, a.id)
          /\ FieldsView(Put(obj, q, a)) = SetAt(FieldsView(obj), q, MembersIn(a))
          /\ NewView(Put(obj, q, a)) = SetAt(NewView(obj), q, a.new)
      BY <1>7, <2>5, PutView
    <3>2. /\ TypeAt' = TypeView(Put(obj, q, a)) /\ IdAt' = IdView(Put(obj, q, a))
          /\ FieldsAt' = FieldsView(Put(obj, q, a)) /\ NewPosAt' = NewView(Put(obj, q, a))
      BY <1>1, ViewNext
    <3>3. QED BY <1>3, <3>1, <3>2, View DEF SetAt
  <2>7. NewPosAt' = NewPosAt
    <3>1. NewPosAt[q] = 0
      BY <1>0, <1>7, ObjFacts DEF Present
    <3>2. QED BY <2>6, <3>1 DEF NewPosAt
  <2>8. UNCHANGED <<PendingHandles, PendingFields, WeakFixups, ActiveHalf, phase>>
    BY <1>1, GcSame
  <2>9. Collector!Pos = Places /\ Collector!From = OldPlaces
    BY <1>2, ViewHalves
  <2> HIDE DEF init
  <2>10. Collector!Make(h, t, x, q, init)
    BY <1>0, <1>1, <2>2, <2>3, <2>4, <2>6, <2>7, <2>8, <2>9
    DEF Collector!Make, Collector!IsObject, Collector!gcVars, SetAt
  <2>11. q \in Collector!Pos
    BY <1>7, <2>9
  <2>12. QED BY <2>1, <2>10, <2>11 DEF Collector!Next, Collector!ClientStep
<1>11. QED BY <1>8, <1>9, <1>10 DEF StepOK

LEMMA InvFacts ==
  ASSUME HeapInv
  PROVE  /\ LayoutOK /\ RegistersOK /\ Collector!IInv
         /\ HalvesOK(start, nextFree, toNext, obj, phase)
         /\ start \in {0, Half} /\ nextFree \in start .. start + Half
         /\ \A p \in DOMAIN obj : p \in Pos
         /\ root \in [Handles -> Ptr] /\ Lists(pointers, HeldOf(obj, root))
  BY SplitInv DEF LayoutOK, RegistersOK, HalvesOK

LEMMA MakeThrowsStep ==
  ASSUME HeapInv, NEW t \in Types, MakeThrows(t)
  PROVE  StepOK
<1> DEFINE q == nextFree + 1
           a == [size |-> Slots(t), type |-> Uninit, member |-> <<>>, new |-> 0, id |-> 0]
           n == Slots(t)
           c == start + Half
<1> USE HeapAssumption
<1>0. LayoutOK /\ RegistersOK /\ Collector!IInv /\ phase = "mutate" /\ phase' = "mutate"
  BY InvFacts DEF MakeThrows, gcVars
<1>1. /\ start' = start /\ nextFree' = nextFree + Slots(t) /\ UNCHANGED gcVars
      /\ root' = root /\ pointers' = pointers /\ Fits(nextFree, c, n)
      /\ obj' = Put(obj, q, a)
  BY DEF MakeThrows, Put
<1>2. /\ HalvesOK(start, nextFree, toNext, obj, "mutate")
      /\ root \in [Handles -> Ptr] /\ Lists(pointers, HeldOf(obj, root))
      /\ start \in {0, Half} /\ nextFree \in start .. start + Half
      /\ \A p \in DOMAIN obj : p \in Pos
  BY <1>0, InvFacts
<1>3. /\ n \in Nat /\ n > 1 /\ Half \in Nat /\ start \in Nat /\ c \in Nat /\ nextFree \in Nat
  BY <1>2, SlotsOfType, OtherHalf
<1>4. /\ a.size = n /\ a.type = Uninit /\ a.member = <<>>
      /\ a = [size |-> n, type |-> Uninit, member |-> <<>>, new |-> 0, id |-> 0]
  OBVIOUS
<1> HIDE DEF a, n
<1>5. nextFree + n <= start + Half /\ n \in 1 .. Half
  <2> HIDE DEF c
  <2>1. n <= c /\ nextFree <= c - n
    BY <1>1, <1>3 DEF Fits
  <2>2. QED BY <1>2, <1>3, <2>1 DEF c
<1>6. WellMade(a)
  <2>1. 0 \in Ptr /\ <<>> \in Seq(Ptr)
    BY DEF Ptr
  <2>2. a \in AllocationRecord
    BY <1>4, <1>5, <2>1 DEF AllocationRecord
  <2>3. QED BY <1>4, <2>2 DEF WellMade
<1>7. q \notin DOMAIN obj /\ q \in Places /\ HalvesOK(start, nextFree + a.size, toNext, Put(obj, q, a), "mutate")
  <2>1. a.size > 1 /\ nextFree + a.size <= start + Half /\ a.type # Moved
    BY <1>3, <1>4, <1>5
  <2>2. QED BY <1>2, <1>6, <2>1, HalvesPut
<1>8. LayoutOK'
  BY <1>0, <1>1, <1>4, <1>7 DEF LayoutOK, gcVars, n
<1> HIDE DEF q
<1>9. RegistersOK'
  <2>1. q \in Pos
    BY <1>7 DEF Places
  <2> DEFINE M == MembersOf(q, a.type, a.member, {"tracked"})
  <2>2. M = {}
    BY <1>4 DEF MembersOf
  <2>3. HeldOf(Put(obj, q, a), root) = HeldOf(obj, root) \cup M
    BY <1>2, <1>7, <2>1, HeldPut
  <2> HIDE DEF M
  <2>4. HeldOf(obj', root') = HeldOf(obj, root)
    BY <1>1, <2>2, <2>3
  <2>5. QED BY <1>0, <1>1, <2>4 DEF RegistersOK, gcVars
<1>10. UNCHANGED Collector!vars
  <2>1. SameView(obj, Put(obj, q, a))
    BY <1>4, <1>7, PutUninitView
  <2>2. TypeAt' = TypeAt /\ IdAt' = IdAt /\ FieldsAt' = FieldsAt /\ NewPosAt' = NewPosAt
    BY <1>1, <2>1, View, ViewNext DEF SameView
  <2>3. QED BY <1>1, <2>2, GcSame DEF Collector!vars
<1>11. QED BY <1>8, <1>9, <1>10 DEF StepOK

LEMMA SetHandleStep ==
  ASSUME HeapInv, NEW h \in Handles, NEW v \in HandleValues, SetHandle(h, v)
  PROVE  StepOK
<1> USE HeapAssumption
<1>1. /\ phase = "mutate" /\ root' = SetAt(root, h, v) /\ UNCHANGED <<start, nextFree, obj, gcVars>>
      /\ pointers' = Reattached(<<0, h>>, root[h], v)
  BY DEF SetHandle, SetAt
<1>2. v \in Ptr
  BY InvFacts, RootValues
<1>3. Lists(pointers', HeldOf(obj, SetAt(root, h, v)))
  <2> DEFINE l == <<0, h>>
             R == HeldOf(obj, root)
  <2>1. l \in R <=> root[h] # 0
    BY InvFacts, HeldElements
  <2>2. HeldOf(obj, SetAt(root, h, v)) = IF v # 0 THEN R \cup {l} ELSE R \ {l}
    BY InvFacts, HeldRoot
  <2>3. Lists(pointers, R) /\ pointers' = Reattached(l, root[h], v)
    BY <1>1, InvFacts
  <2> HIDE DEF l, R
  <2>4. Lists(pointers', IF v # 0 THEN R \cup {l} ELSE R \ {l})
    BY <2>1, <2>3, ReattachedLists
  <2>5. QED BY <2>2, <2>4
<1>4. RegistersOK'
  <2>1. root' \in [Handles -> Ptr]
    BY <1>1, <1>2, InvFacts DEF SetAt
  <2>2. HeldOf(obj', root') = HeldOf(obj, SetAt(root, h, v))
    BY <1>1
  <2>3. QED BY <1>1, <1>3, <2>1, <2>2, InvFacts DEF RegistersOK, gcVars
<1>5. LayoutOK'
  BY <1>1, InvFacts DEF LayoutOK, gcVars
<1>6. Collector!Next
  <2>1. TypeAt' = TypeAt /\ IdAt' = IdAt /\ FieldsAt' = FieldsAt /\ NewPosAt' = NewPosAt
    BY <1>1, View, ViewNext
  <2>2. UNCHANGED <<PendingHandles, PendingFields, WeakFixups, ActiveHalf, phase>>
    BY <1>1, GcSame
  <2>3. Collector!SetHandle(h, v)
    BY <1>1, <2>1, <2>2 DEF Collector!SetHandle, Collector!gcVars, SetAt
  <2>4. v \in Collector!HandleValues
    BY InvFacts, RootValues
  <2>5. QED BY <2>3, <2>4 DEF Collector!Next, Collector!ClientStep
<1>7. QED BY <1>4, <1>5, <1>6 DEF StepOK

(* Between collections a handle refers to an object.                       *)
LEMMA HandleObject ==
  ASSUME HeapInv, phase = "mutate", NEW k \in Handles, root[k] # 0
  PROVE  /\ root[k] \in Places /\ IsObject(root[k]) /\ root[k] \in DOMAIN obj
         /\ TypeAt[root[k]] = obj[root[k]].type /\ obj[root[k]].type \in Types
         /\ FieldsAt[root[k]] = MembersIn(obj[root[k]])
         /\ WellMade(obj[root[k]])
<1>1. root \in [Handles -> Places \cup {0}]
  BY InvFacts, ViewHalves DEF Collector!IInv, Collector!TypeOK
<1>2. root[k] \in Places
  BY <1>1
<1>3. TypeAt[root[k]] \in Types
  BY InvFacts DEF Collector!IInv, Collector!NoDangling, Collector!UsedRef, Collector!IsObject
<1>4. IsObject(root[k])
  BY <1>2, <1>3, InvFacts, ObjFacts
<1>5. Present(obj, root[k])
  BY <1>4, HeapAssumption DEF IsObject, Present
<1>6. QED BY <1>2, <1>3, <1>4, <1>5, InvFacts, ObjFacts DEF IsObject

LEMMA SetMemberStep ==
  ASSUME HeapInv, NEW k \in Handles, NEW v \in HandleValues, root[k] # 0,
         NEW f \in DOMAIN obj[root[k]].member, SetMember(root[k], f, v)
  PROVE  StepOK
<1> DEFINE p == root[k]
<1> USE HeapAssumption
<1>1. /\ phase = "mutate" /\ obj' = SetIn(obj, p, f, v)
      /\ UNCHANGED <<start, nextFree, root, gcVars>>
      /\ pointers' = IF Layout[obj[p].type][f] = "tracked"
                     THEN Reattached(<<p, f>>, obj[p].member[f], v) ELSE pointers
  BY DEF SetMember, SetIn
<1>2. v \in Ptr
  BY InvFacts, RootValues
<1>3. /\ p \in Places /\ p \in DOMAIN obj /\ p # 0 /\ WellMade(obj[p])
      /\ TypeAt[p] = obj[p].type /\ obj[p].type \in Types
  BY <1>1, HandleObject, InvFacts, ObjFacts
<1> HIDE DEF p
<1>4. f \in DOMAIN obj[p].member
  BY DEF p
<1>5. /\ obj[p] \in AllocationRecord /\ f \in Members /\ obj[p].type # Uninit
      /\ DOMAIN obj[p].member = DOMAIN Layout[obj[p].type]
  BY <1>3, <1>4, MembersOfObject DEF WellMade
<1>6. /\ DOMAIN obj' = DOMAIN obj
      /\ \A q \in DOMAIN obj : q # p => obj'[q] = obj[q]
      /\ obj'[p] \in AllocationRecord
      /\ obj'[p].size = obj[p].size /\ obj'[p].type = obj[p].type
      /\ obj'[p].new = obj[p].new /\ obj'[p].id = obj[p].id
      /\ Len(obj'[p].member) = Len(obj[p].member)
  <2> DEFINE u == SetIn(obj, p, f, v)
  <2>1. /\ DOMAIN u = DOMAIN obj
        /\ \A q \in DOMAIN obj : q # p => u[q] = obj[q]
        /\ u[p] \in AllocationRecord
        /\ u[p].size = obj[p].size /\ u[p].type = obj[p].type
        /\ u[p].new = obj[p].new /\ u[p].id = obj[p].id
        /\ Len(u[p].member) = Len(obj[p].member)
    <3> DEFINE o == obj
    <3>1. p \in DOMAIN o /\ o[p] \in AllocationRecord /\ f \in DOMAIN o[p].member
      BY <1>3, <1>4, <1>5
    <3> HIDE DEF o
    <3>2. /\ DOMAIN SetIn(o, p, f, v) = DOMAIN o
          /\ \A q \in DOMAIN o : q # p => SetIn(o, p, f, v)[q] = o[q]
          /\ SetIn(o, p, f, v)[p] \in AllocationRecord
          /\ SetIn(o, p, f, v)[p].size = o[p].size /\ SetIn(o, p, f, v)[p].type = o[p].type
          /\ SetIn(o, p, f, v)[p].new = o[p].new /\ SetIn(o, p, f, v)[p].id = o[p].id
          /\ Len(SetIn(o, p, f, v)[p].member) = Len(o[p].member)
      BY <1>2, <3>1, SetInAt
    <3>3. QED BY <3>2 DEF o
  <2>2. obj' = u
    BY <1>1
  <2> HIDE DEF u
  <2>3. QED BY <2>1, <2>2
<1>7. LayoutOK'
  <2>1. WellMade(obj'[p])
    BY <1>3, <1>6 DEF WellMade
  <2>2. \A q \in DOMAIN obj : WellMade(obj'[q]) /\ obj'[q].size = obj[q].size /\ obj'[q].type = obj[q].type
    BY <1>6, <2>1, InvFacts, ObjFacts
  <2>3. HalvesOK(start, nextFree, toNext, obj', phase)
    <3> DEFINE o2 == obj'
    <3>1. /\ DOMAIN o2 = DOMAIN obj /\ HalvesOK(start, nextFree, toNext, obj, phase)
          /\ \A q \in DOMAIN obj : WellMade(o2[q]) /\ o2[q].size = obj[q].size /\ o2[q].type = obj[q].type
          /\ phase = "mutate"
      BY <1>1, <1>6, <2>2, InvFacts
    <3> HIDE DEF o2
    <3>2. HalvesOK(start, nextFree, toNext, o2, phase)
      BY <3>1, HalvesSame
    <3>3. QED BY <3>2 DEF o2
  <2>4. QED BY <1>1, <2>3 DEF LayoutOK, gcVars
<1>8. Lists(pointers', HeldOf(SetIn(obj, p, f, v), root))
  <2> DEFINE l == <<p, f>>
             R == HeldOf(obj, root)
  <2>1. Lists(pointers, R)
    BY InvFacts
  <2>2. CASE Layout[obj[p].type][f] = "tracked"
    <3>1. l \in R <=> obj[p].member[f] # 0
      BY <1>3, <1>4, <2>2, HeldElements, InvFacts
    <3>2. HeldOf(SetIn(obj, p, f, v), root) = IF v # 0 THEN R \cup {l} ELSE R \ {l}
      BY <1>2, <1>3, <1>4, <1>5, <2>2, HeldSet, InvFacts
    <3>3. pointers' = Reattached(l, obj[p].member[f], v)
      BY <1>1, <2>2
    <3> HIDE DEF l, R
    <3>4. Lists(pointers', IF v # 0 THEN R \cup {l} ELSE R \ {l})
      BY <2>1, <3>1, <3>3, ReattachedLists
    <3>5. QED BY <3>2, <3>4
  <2>3. CASE Layout[obj[p].type][f] # "tracked"
    <3>1. HeldOf(SetIn(obj, p, f, v), root) = R
      BY <1>2, <1>3, <1>4, <1>5, <2>3, HeldSet, InvFacts
    <3>2. QED BY <1>1, <2>1, <2>3, <3>1
  <2>4. QED BY <2>2, <2>3
<1>9. RegistersOK'
  BY <1>1, <1>8, InvFacts DEF RegistersOK, gcVars
<1>10. Collector!Next
  <2>1. /\ TypeAt' = TypeAt /\ IdAt' = IdAt /\ NewPosAt' = NewPosAt
        /\ FieldsAt' = [FieldsAt EXCEPT ![p][f] = v]
    <3>1. /\ TypeView(SetIn(obj, p, f, v)) = TypeView(obj) /\ IdView(SetIn(obj, p, f, v)) = IdView(obj)
          /\ NewView(SetIn(obj, p, f, v)) = NewView(obj)
          /\ FieldsView(SetIn(obj, p, f, v)) = [FieldsView(obj) EXCEPT ![p][f] = v]
      BY <1>2, <1>3, <1>4, <1>5, SetInView
    <3>2. QED BY <1>1, <3>1, View, ViewNext
  <2>2. UNCHANGED <<PendingHandles, PendingFields, WeakFixups, ActiveHalf, phase>>
    BY <1>1, GcSame
  <2>3. f \in Collector!PointersOf(TypeAt[p])
    <3>1. Layout[obj[p].type][f] \in Kind
      BY <1>3, <1>4, <1>5, KindOfMember
    <3>2. QED BY <1>3, <1>4, <1>5, <3>1, MembersOfKind DEF Collector!PointersOf, Kind
  <2>4. Collector!SetField(p, f, v)
    BY <1>1, <1>3, <2>1, <2>2, <2>3 DEF Collector!SetField, Collector!IsObject, Collector!gcVars
  <2>5. v \in Collector!HandleValues
    BY InvFacts, RootValues
  <2>6. QED BY <1>5, <2>4, <2>5 DEF Collector!Next, Collector!ClientStep, p
<1>11. QED BY <1>7, <1>9, <1>10 DEF StepOK

LEMMA TrackStep ==
  ASSUME HeapInv, NEW h \in Handles, NEW k \in Handles, root[k] # 0,
         NEW f \in DOMAIN obj[root[k]].member, Track(h, root[k], f)
  PROVE  StepOK
<1> DEFINE p == root[k]
           v == obj[p].member[f]
<1> USE HeapAssumption
<1>1. /\ phase = "mutate" /\ root' = SetAt(root, h, v) /\ root[h] = 0 /\ v # 0
      /\ UNCHANGED <<start, nextFree, obj, gcVars>> /\ pointers' = Append(pointers, <<0, h>>)
  BY DEF Track, SetAt
<1>2. /\ p \in Places /\ p \in DOMAIN obj /\ p # 0 /\ WellMade(obj[p])
      /\ TypeAt[p] = obj[p].type /\ obj[p].type \in Types /\ FieldsAt[p] = MembersIn(obj[p])
  BY <1>1, HandleObject, InvFacts, ObjFacts
<1> HIDE DEF p
<1>3. f \in DOMAIN obj[p].member
  BY DEF p
<1>4. v \in Ptr /\ f \in Members /\ FieldsAt[p][f] = v
  BY <1>2, <1>3, MembersOfObject
<1> HIDE DEF v
<1>5. Lists(pointers', HeldOf(obj, SetAt(root, h, v)))
  <2> DEFINE l == <<0, h>>
             R == HeldOf(obj, root)
  <2>1. l \notin R
    BY <1>1, InvFacts, HeldElements
  <2>2. HeldOf(obj, SetAt(root, h, v)) = IF v # 0 THEN R \cup {l} ELSE R \ {l}
    BY InvFacts, HeldRoot
  <2>3. Lists(pointers, R) /\ pointers' = Append(pointers, l)
    BY <1>1, InvFacts
  <2> HIDE DEF l, R
  <2>4. Lists(pointers', R \cup {l})
    BY <2>1, <2>3, AppendLists
  <2>5. QED BY <1>1, <2>2, <2>4
<1>6. RegistersOK'
  <2>1. root' \in [Handles -> Ptr]
    BY <1>1, <1>4, InvFacts DEF SetAt
  <2>2. HeldOf(obj', root') = HeldOf(obj, SetAt(root, h, v))
    BY <1>1
  <2>3. QED BY <1>1, <1>5, <2>1, <2>2, InvFacts DEF RegistersOK, gcVars
<1>7. LayoutOK'
  BY <1>1, InvFacts DEF LayoutOK, gcVars
<1>8. Collector!Next
  <2>1. TypeAt' = TypeAt /\ IdAt' = IdAt /\ FieldsAt' = FieldsAt /\ NewPosAt' = NewPosAt
    BY <1>1, View, ViewNext
  <2>2. UNCHANGED <<PendingHandles, PendingFields, WeakFixups, ActiveHalf, phase>>
    BY <1>1, GcSame
  <2>3. Collector!Track(h, p, f)
    BY <1>1, <1>2, <1>4, <2>1, <2>2 DEF Collector!Track, Collector!IsObject, Collector!gcVars, SetAt
  <2>4. QED BY <1>4, <2>3 DEF Collector!Next, Collector!ClientStep, p
<1>9. QED BY <1>6, <1>7, <1>8 DEF StepOK

-----------------------------------------------------------------------------
(* Steps of garbage_collect.                                               *)

(* The tracked pointers outside the heap are the handles in use.           *)
LEMMA ExternalLists ==
  ASSUME HeapInv, phase = "mutate"
  PROVE  Lists(ExternalPointers, HandlesHeld(root))
<1> DEFINE R == HeldOf(obj, root)
           S == {l \in Range(pointers) : IsExternal(l)}
<1>1. Lists(pointers, R) /\ Range(pointers) = R
  BY InvFacts DEF Lists
<1>2. R \cap S = HandlesHeld(root)
  <2>1. \A h \in Handles : <<0, h>> \in R <=> root[h] # 0
    BY InvFacts, HeldElements
  <2>2. \A l \in R : (\E h \in Handles : l = <<0, h>>) \/ (\E p, f : p # 0 /\ l = <<p, f>>)
    BY InvFacts, HeldElements
  <2>3. ASSUME NEW p, NEW f, p # 0, <<p, f>> \in R
        PROVE  ~IsExternal(<<p, f>>)
    <3>1. p \in DOMAIN obj
      BY <2>3, InvFacts, HeldElements
    <3>2. InHalf(p, start)
      BY <3>1, InvFacts, HeapAssumption DEF HalvesOK
    <3>3. p \in Pos /\ start \in {0, Half} /\ Half \in Nat
      BY <3>1, InvFacts, OtherHalf
    <3>4. 0 < p /\ p < start + Half
      BY <3>2, <3>3 DEF InHalf, Pos
    <3>5. QED BY <3>4 DEF IsExternal
  <2>4. \A h \in Handles : IsExternal(<<0, h>>)
    BY DEF IsExternal
  <2> HIDE DEF R
  <2>5. \A l \in HandlesHeld(root) : l \in R \cap S
    BY <1>1, <2>1, <2>4 DEF HandlesHeld
  <2>6. \A l \in R \cap S : l \in HandlesHeld(root)
    BY <2>1, <2>2, <2>3 DEF HandlesHeld
  <2>7. QED BY <2>5, <2>6
<1>3. Lists(ExternalPointers, R \cap S)
  <2> HIDE DEF R
  <2> DEFINE T == S
  <2>1. ExternalPointers = Chosen(pointers, T)
    BY DEF ExternalPointers
  <2> HIDE DEF T
  <2>2. Lists(Chosen(pointers, T), R \cap T)
    BY <1>1, ChosenLists
  <2>3. QED BY <2>1, <2>2 DEF T
<1>4. QED BY <1>2, <1>3

LEMMA HandlesInUse ==
  ASSUME HeapInv, phase = "mutate"
  PROVE  /\ Collector!HandlesInUse = {h \in Handles : <<0, h>> \in HandlesHeld(root)}
         /\ ExternalPointers = <<>> <=> Collector!HandlesInUse = {}
<1>1. Collector!HandlesInUse = {h \in Handles : <<0, h>> \in HandlesHeld(root)}
  BY DEF Collector!HandlesInUse, HandlesHeld
<1>2. ExternalPointers = <<>> => HandlesHeld(root) = {}
  BY ExternalLists DEF Lists, Range
<1>3. HandlesHeld(root) = {} => ExternalPointers = <<>>
  <2>1. ASSUME HandlesHeld(root) = {}
        PROVE  ExternalPointers = <<>>
    <3>1. Lists(ExternalPointers, {})
      BY <2>1, ExternalLists
    <3> DEFINE e == ExternalPointers
    <3>2. Lists(e, {})
      BY <3>1
    <3> HIDE DEF e
    <3>3. e \in Seq({}) /\ Range(e) = {}
      BY <3>2 DEF Lists
    <3>4. e = <<>>
      BY <3>3, EmptySeq DEF Range
    <3>5. QED BY <3>4 DEF e
  <2>2. QED BY <2>1
<1>4. HandlesHeld(root) = {} <=> {h \in Handles : <<0, h>> \in HandlesHeld(root)} = {}
  BY DEF HandlesHeld
<1>5. QED BY <1>1, <1>2, <1>3, <1>4

LEMMA GcBeginStep ==
  ASSUME HeapInv, GcBegin
  PROVE  StepOK
<1> USE HeapAssumption
<1>1. /\ phase = "mutate" /\ pending' = ExternalPointers /\ ExternalPointers # <<>>
      /\ toNext' = Half - start /\ phase' = "move"
      /\ UNCHANGED <<start, nextFree, obj, root, pointers, weak>>
  BY DEF GcBegin, ToStart
<1>2. Lists(pending', HandlesHeld(root)) /\ pending' # <<>>
  BY <1>1, ExternalLists
<1>3. pending = <<>> /\ weak = <<>>
  BY <1>1, InvFacts DEF RegistersOK
<1>4. \A p \in DOMAIN obj : obj[p].type # Moved
  <2>1. \A p \in Places : TypeAt[p] # Moved
    BY <1>1, InvFacts, ViewHalves DEF Collector!IInv, Collector!MutateInv
  <2>2. QED BY <2>1, InvFacts, ObjFacts DEF Present
<1>5. HalvesOK(start, nextFree, Half - start, obj, "move")
  BY <1>1, <1>4, InvFacts, HalvesBegin
<1>6. LayoutOK'
  BY <1>1, <1>5 DEF LayoutOK
<1>7. RegistersOK'
  <2>1. HandlesHeld(root) \subseteq Location
    BY DEF HandlesHeld, Location
  <2>2. pending' \in Seq(Location) /\ IsInjective(pending')
    <3> DEFINE e == pending'
    <3>1. e \in Seq(HandlesHeld(root)) /\ IsInjective(e)
      BY <1>2 DEF Lists
    <3> HIDE DEF e
    <3>2. e \in Seq(Location)
      BY <2>1, <3>1, SeqMonotonic
    <3>3. QED BY <3>1, <3>2 DEF e
  <2>3. QED BY <1>1, <2>2, InvFacts DEF RegistersOK
<1>8. Collector!Next
  <2>1. TypeAt' = TypeAt /\ IdAt' = IdAt /\ FieldsAt' = FieldsAt /\ NewPosAt' = NewPosAt
    BY <1>1, View, ViewNext
  <2>2. Range(pending') = HandlesHeld(root)
    BY <1>2 DEF Lists
  <2>3. PendingHandles' = Collector!HandlesInUse
    BY <1>1, <2>2, HandlesInUse DEF PendingHandles
  <2>4. PendingFields' = PendingFields
    <3>1. PendingFields' = {}
      BY <2>2 DEF PendingFields, HandlesHeld
    <3>2. PendingFields = {}
      BY <1>3 DEF PendingFields, Range
    <3>3. QED BY <3>1, <3>2
  <2>5. WeakFixups' = WeakFixups /\ ActiveHalf' = ActiveHalf
    BY <1>1 DEF WeakFixups, ActiveHalf
  <2>6. Collector!GcBegin
    BY <1>1, <2>1, <2>3, <2>4, <2>5, HandlesInUse DEF Collector!GcBegin
  <2>7. QED BY <2>6 DEF Collector!Next
<1>9. QED BY <1>6, <1>7, <1>8 DEF StepOK

(* run_destructors leaves of the active half what the algorithm leaves.    *)
LEMMA ReleaseFrom ==
  ASSUME HeapInv, RunDestructors
  PROVE  /\ Lists(pointers', HeldOf(obj', root))
         /\ DOMAIN obj' = {p \in DOMAIN obj : ~InHalf(p, start)}
         /\ \A p \in DOMAIN obj' : obj'[p] = obj[p]
         /\ Collector!ReleaseFrom
<1>1. /\ Lists(pointers', HeldOf(obj', root))
      /\ DOMAIN obj' = {p \in DOMAIN obj : ~InHalf(p, start)}
      /\ \A p \in DOMAIN obj' : obj'[p] = obj[p]
  BY InvFacts, RunDestructorsLists
<1>2. /\ TypeView(obj') = Emptied(TypeView(obj), start, Free)
      /\ IdView(obj') = Emptied(IdView(obj), start, 0)
      /\ FieldsView(obj') = Emptied(FieldsView(obj), start, None)
      /\ NewView(obj') = Emptied(NewView(obj), start, 0)
  <2> DEFINE u == obj'
             o == obj
  <2>1. DOMAIN u = {p \in DOMAIN o : ~InHalf(p, start)} /\ \A p \in DOMAIN u : u[p] = o[p]
    BY <1>1
  <2> HIDE DEF u, o
  <2>2. /\ TypeView(u) = Emptied(TypeView(o), start, Free)
        /\ IdView(u) = Emptied(IdView(o), start, 0)
        /\ FieldsView(u) = Emptied(FieldsView(o), start, None)
        /\ NewView(u) = Emptied(NewView(o), start, 0)
    BY <2>1, ReleasedView
  <2>3. QED BY <2>2 DEF u, o
<1>3. /\ Collector!Pos = Places /\ Collector!From = OldPlaces
      /\ \A p \in Places : p \in OldPlaces <=> InHalf(p, start)
  BY InvFacts, ViewHalves DEF OldPlaces
<1>4. TypeAt' = Collector!Released(Collector!From, TypeAt, Free)
  BY <1>2, <1>3, View, ViewNext DEF Collector!Released, Emptied
<1>5. IdAt' = Collector!Released(Collector!From, IdAt, 0)
  BY <1>2, <1>3, View, ViewNext DEF Collector!Released, Emptied
<1>6. FieldsAt' = Collector!Released(Collector!From, FieldsAt, Collector!NoFields)
  BY <1>2, <1>3, View, ViewNext DEF Collector!Released, Collector!NoFields, None, Emptied
<1>7. NewPosAt' = Collector!Released(Collector!From, NewPosAt, 0)
  BY <1>2, <1>3, View, ViewNext DEF Collector!Released, Emptied
<1>8. QED BY <1>1, <1>4, <1>5, <1>6, <1>7 DEF Collector!ReleaseFrom

LEMMA GcNoRootsStep ==
  ASSUME HeapInv, GcNoRoots
  PROVE  StepOK
<1> USE HeapAssumption
<1>1. /\ phase = "mutate" /\ ExternalPointers = <<>> /\ RunDestructors
      /\ nextFree' = start /\ UNCHANGED <<start, root, gcVars>>
  BY DEF GcNoRoots
<1>2. /\ Lists(pointers', HeldOf(obj', root))
      /\ DOMAIN obj' = {p \in DOMAIN obj : ~InHalf(p, start)}
      /\ Collector!ReleaseFrom
  BY <1>1, ReleaseFrom
<1>3. LayoutOK'
  <2> DEFINE u == obj'
  <2>1. DOMAIN u = {p \in DOMAIN obj : ~InHalf(p, start)} /\ HalvesOK(start, nextFree, toNext, obj, "mutate")
    BY <1>1, <1>2, InvFacts
  <2> HIDE DEF u
  <2>2. HalvesOK(start, start, toNext, u, "mutate")
    BY <2>1, HalvesReleased
  <2>3. QED BY <1>1, <2>2 DEF LayoutOK, gcVars, u
<1>4. RegistersOK'
  BY <1>1, <1>2, InvFacts DEF RegistersOK, gcVars
<1>5. Collector!HandlesInUse = {}
  BY <1>1, HandlesInUse
<1>6. UNCHANGED <<PendingHandles, PendingFields, WeakFixups, ActiveHalf, phase>>
  BY <1>1, GcSame
<1>7. Collector!GcNoRoots
  BY <1>1, <1>2, <1>5, <1>6 DEF Collector!GcNoRoots, Collector!gcVars
<1>8. QED BY <1>3, <1>4, <1>7 DEF StepOK, Collector!Next

LEMMA SweepStep ==
  ASSUME HeapInv, Sweep
  PROVE  StepOK
<1> USE HeapAssumption
<1>1. /\ phase = "sweep" /\ RunDestructors /\ start' = Half - start /\ nextFree' = toNext
      /\ toNext' = 0 /\ phase' = "mutate" /\ UNCHANGED <<root, pending, weak>>
  BY DEF Sweep, ToStart
<1>2. /\ Lists(pointers', HeldOf(obj', root))
      /\ DOMAIN obj' = {p \in DOMAIN obj : ~InHalf(p, start)}
      /\ \A p \in DOMAIN obj' : obj'[p] = obj[p]
      /\ Collector!ReleaseFrom
  BY <1>1, ReleaseFrom
<1>3. LayoutOK'
  <2> DEFINE u == obj'
  <2>1. /\ DOMAIN u = {p \in DOMAIN obj : ~InHalf(p, start)} /\ \A p \in DOMAIN u : u[p] = obj[p]
        /\ HalvesOK(start, nextFree, toNext, obj, "sweep")
    BY <1>1, <1>2, InvFacts
  <2> HIDE DEF u
  <2>2. HalvesOK(Half - start, toNext, 0, u, "mutate")
    BY <2>1, HalvesSwapped
  <2>3. QED BY <1>1, <2>2 DEF LayoutOK, u
<1>4. PendingHandles = {} /\ PendingFields = {} /\ WeakFixups = {}
  BY <1>1, InvFacts DEF Collector!IInv, Collector!SweepInv
<1>5. pending = <<>> /\ weak = <<>>
  <2>1. pending \in Seq(Location) /\ weak \in Seq(Location)
    BY InvFacts DEF RegistersOK
  <2>2. Range(weak) = {}
    BY <1>4 DEF WeakFixups
  <2>3. Range(pending) = {}
    <3>1. ASSUME NEW l \in Range(pending)
          PROVE  FALSE
      <4>1. l \in Location
        BY <2>1, ListsItsRange, LenProperties DEF Range
      <4>2. (\E h \in Handles : l = <<0, h>>) \/ l[1] # 0
        BY <4>1 DEF Location, Pos
      <4>3. QED BY <1>4, <4>2 DEF PendingHandles, PendingFields
    <3>2. QED BY <3>1
  <2>4. QED BY <2>1, <2>2, <2>3, EmptyRange
<1>6. RegistersOK'
  BY <1>1, <1>2, <1>5, InvFacts DEF RegistersOK
<1>7. ActiveHalf' = 1 - ActiveHalf
  BY <1>1, InvFacts DEF ActiveHalf
<1>8. UNCHANGED <<root, PendingHandles, PendingFields, WeakFixups>>
  BY <1>1 DEF PendingHandles, PendingFields, WeakFixups
<1>9. Collector!Sweep
  BY <1>1, <1>2, <1>7, <1>8 DEF Collector!Sweep
<1>10. QED BY <1>3, <1>4, <1>6, <1>9 DEF StepOK, Collector!Next

LEMMA HalvesSet ==
  ASSUME NEW s, NEW nf, NEW tn, NEW o, NEW ph, HalvesOK(s, nf, tn, o, ph),
         NEW p \in DOMAIN o, NEW f \in DOMAIN o[p].member, NEW v \in Ptr
  PROVE  HalvesOK(s, nf, tn, SetIn(o, p, f, v), ph)
<1> DEFINE u == SetIn(o, p, f, v)
<1>1. (\A r \in DOMAIN o : r \in Pos /\ WellMade(o[r])) /\ ph \in {"mutate", "move", "sweep"}
  BY DEF HalvesOK
<1>2. o[p] \in AllocationRecord /\ WellMade(o[p])
  BY <1>1 DEF WellMade
<1>3. /\ DOMAIN u = DOMAIN o
      /\ \A r \in DOMAIN o : r # p => u[r] = o[r]
      /\ u[p] \in AllocationRecord
      /\ u[p].size = o[p].size /\ u[p].type = o[p].type
      /\ u[p].new = o[p].new /\ u[p].id = o[p].id
      /\ Len(u[p].member) = Len(o[p].member)
      /\ DOMAIN u[p].member = DOMAIN o[p].member
  BY <1>2, SetInAt
<1> HIDE DEF u
<1>4. WellMade(u[p])
  <2>1. o[p].type \in Types
    <3>1. ASSUME o[p].type \notin Types
          PROVE  FALSE
      <4>1. o[p].member = <<>>
        BY <1>2, <3>1 DEF WellMade
      <4>2. QED BY <4>1
    <3>2. QED BY <3>1
  <2>2. QED BY <1>2, <1>3, <2>1 DEF WellMade
<1>5. \A r \in DOMAIN o : WellMade(u[r]) /\ u[r].size = o[r].size /\ u[r].type = o[r].type
  BY <1>1, <1>3, <1>4
<1>6. HalvesOK(s, nf, tn, u, ph)
  BY <1>1, <1>3, <1>5, HalvesSame
<1>7. QED BY <1>6 DEF u

(* A pending fixup is a pointer, not yet fixed up, of the kind that is     *)
(* registered, to an object of the old half or to what it left behind.     *)
HandlePending(l) == \E h \in Handles : l = <<0, h>> /\ h \in PendingHandles /\ root[h] # 0
FieldPending(l) ==
  \E p \in NewPlaces, f \in Members :
    /\ l = <<p, f>> /\ l \in PendingFields
    /\ p \in DOMAIN obj /\ obj[p].type \in Types /\ f \in DOMAIN obj[p].member
    /\ Layout[obj[p].type][f] \in {"tracked", "strong"} /\ obj[p].member[f] # 0

LEMMA PendingOK ==
  ASSUME HeapInv, phase = "move", NEW l \in Range(pending)
  PROVE  /\ HandlePending(l) \/ FieldPending(l)
         /\ l \in Location /\ (l[1] # 0 => l[1] \in DOMAIN obj)
         /\ Value(l) \in OldPlaces /\ Value(l) \in DOMAIN obj /\ Value(l) # 0
         /\ obj[Value(l)].type \in Types \cup {Moved}
<1> USE HeapAssumption
<1>1. l \in Location
  <2>1. pending \in Seq(Location)
    BY InvFacts DEF RegistersOK
  <2>2. QED BY <2>1, LenProperties DEF Range
<1>2. /\ Collector!Pos = Places /\ Collector!From = OldPlaces /\ Collector!To = NewPlaces
      /\ \A p \in Places : TypeAt[p] \in Types <=> IsObject(p)
      /\ \A p \in Places : TypeAt[p] = IF Present(obj, p) THEN obj[p].type ELSE Free
      /\ \A p \in Places : FieldsAt[p] = IF Present(obj, p) THEN MembersIn(obj[p]) ELSE None
      /\ OldPlaces \subseteq Places /\ NewPlaces \subseteq Places /\ 0 \notin Places
  BY InvFacts, ViewHalves, ObjFacts DEF OldPlaces, NewPlaces
<1>3. ASSUME NEW v, Collector!OldRef(v)
      PROVE  /\ v \in OldPlaces /\ v \in DOMAIN obj /\ v # 0
             /\ obj[v].type \in Types \cup {Moved}
  <2>1. v \in OldPlaces /\ TypeAt[v] # Free
    BY <1>2, <1>3 DEF Collector!OldRef
  <2>2. Present(obj, v)
    BY <1>2, <2>1
  <2>3. obj[v].type \in Types \cup {Moved, Uninit}
    BY <2>2, InvFacts, ObjFacts DEF AllocationRecord, Present
  <2>4. QED BY <1>2, <2>1, <2>2, <2>3 DEF Present
<1>4. CASE l[1] = 0
  <2>1. PICK h \in Handles : l = <<0, h>>
    BY <1>1, <1>4 DEF Location, Pos
  <2>2. h \in PendingHandles
    BY <2>1 DEF PendingHandles
  <2>3. root[h] # 0
    BY <2>2, InvFacts DEF Collector!IInv, Collector!PendingWellFormed
  <2>4. Collector!OldRef(root[h])
    BY <2>2, InvFacts DEF Collector!IInv, Collector!MoveInv
  <2>5. Value(l) = root[h]
    BY <2>1 DEF Value, ValueAt
  <2>6. HandlePending(l)
    BY <2>1, <2>2, <2>3 DEF HandlePending
  <2>7. QED BY <1>1, <1>3, <1>4, <2>4, <2>5, <2>6
<1>5. CASE l[1] # 0
  <2>1. l \in PendingFields
    BY <1>5 DEF PendingFields
  <2>2. PICK p \in Pos, f \in Members : l = <<p, f>>
    BY <1>1, <1>5 DEF Location
  <2>3. p \in Places
    <3>1. PendingFields \in SUBSET (Places \X Members)
      BY <1>2, InvFacts DEF Collector!IInv, Collector!TypeOK
    <3>2. QED BY <2>1, <2>2, <3>1
  <2>4. /\ p \in NewPlaces /\ TypeAt[p] \in Types
        /\ f \in OfKind({"tracked", "strong"})[TypeAt[p]] /\ FieldsAt[p][f] # 0
    BY <1>2, <2>1, <2>2, <2>3, InvFacts
    DEF Collector!IInv, Collector!PendingWellFormed, Collector!IsObject
  <2>5. IsObject(p) /\ Present(obj, p) /\ TypeAt[p] = obj[p].type /\ FieldsAt[p] = MembersIn(obj[p])
    BY <1>2, <2>3, <2>4 DEF IsObject, Present
  <2>6. p \in DOMAIN obj /\ obj[p].type \in Types /\ WellMade(obj[p])
    BY <2>5, InvFacts, ObjFacts DEF IsObject
  <2>7. f \in DOMAIN obj[p].member /\ Layout[obj[p].type][f] \in {"tracked", "strong"}
    BY <2>4, <2>5, <2>6, MembersOfKind, MembersOfObject
  <2>8. obj[p].member[f] = FieldsAt[p][f]
    BY <2>5, <2>6, <2>7, MembersOfObject
  <2>9. FieldPending(l)
    BY <2>1, <2>2, <2>4, <2>6, <2>7, <2>8 DEF FieldPending
  <2>10. Value(l) = FieldsAt[p][f]
    BY <1>5, <2>2, <2>8 DEF Value, ValueAt
  <2>11. Collector!OldRef(FieldsAt[p][f])
    <3>1. <<p, f>> \in PendingFields \cup WeakFixups
      BY <2>1, <2>2
    <3>2. QED BY <1>2, <2>4, <3>1, InvFacts DEF Collector!IInv, Collector!MoveInv, Collector!IsObject
  <2>12. QED BY <1>1, <1>3, <2>2, <2>6, <2>9, <2>10, <2>11
<1>6. QED BY <1>4, <1>5

LEMMA LastPending ==
  ASSUME HeapInv, phase = "move", pending # <<>>
  PROVE  /\ Last(pending) \in Range(pending)
         /\ Lists(Front(pending), Range(pending) \ {Last(pending)})
         /\ Front(pending) \in Seq(Location) /\ IsInjective(Front(pending))
<1>1. pending \in Seq(Location) /\ IsInjective(pending)
  BY InvFacts DEF RegistersOK
<1>2. Lists(pending, Range(pending))
  BY <1>1, ListsItsRange
<1>3. Last(pending) \in Range(pending) /\ Lists(Front(pending), Range(pending) \ {Last(pending)})
  BY <1>2, FrontLists
<1>4. Range(pending) \subseteq Location
  BY <1>1, LenProperties DEF Range
<1>5. Front(pending) \in Seq(Location)
  <2> DEFINE s == Front(pending)
             R == Range(pending) \ {Last(pending)}
  <2>1. s \in Seq(R) /\ R \subseteq Location
    BY <1>3, <1>4 DEF Lists
  <2> HIDE DEF s, R
  <2>2. s \in Seq(Location)
    BY <2>1, SeqMonotonic
  <2>3. QED BY <2>2 DEF s
<1>6. QED BY <1>3, <1>5 DEF Lists

LEMMA PendingSets ==
  ASSUME NEW l, NEW S, \A m \in S : m[1] # 0, Range(pending') = (Range(pending) \ {l}) \cup S
  PROVE  /\ \A h \in Handles : l = <<0, h>> =>
              PendingHandles' = PendingHandles \ {h} /\ PendingFields' = PendingFields \cup S
         /\ l[1] # 0 => PendingHandles' = PendingHandles /\ PendingFields' = (PendingFields \ {l}) \cup S
<1>1. PendingHandles' = {h \in Handles : <<0, h>> \in Range(pending')}
  BY DEF PendingHandles
<1>2. PendingFields' = {m \in Range(pending') : m[1] # 0}
  BY DEF PendingFields
<1>3. PendingFields' = {m \in Range(pending) \ {l} : m[1] # 0} \cup S
  BY <1>2
<1>4. \A h \in Handles : <<0, h>> \notin S
  OBVIOUS
<1>5. PendingHandles' = {h \in Handles : <<0, h>> \in Range(pending) \ {l}}
  BY <1>1, <1>4
<1>6. ASSUME NEW h \in Handles, l = <<0, h>>
      PROVE  PendingHandles' = PendingHandles \ {h} /\ PendingFields' = PendingFields \cup S
  <2>1. PendingHandles' = PendingHandles \ {h}
    BY <1>5, <1>6 DEF PendingHandles
  <2>2. PendingFields = {m \in Range(pending) \ {l} : m[1] # 0}
    BY <1>6 DEF PendingFields
  <2>3. QED BY <1>3, <2>1, <2>2
<1>7. ASSUME l[1] # 0
      PROVE  PendingHandles' = PendingHandles /\ PendingFields' = (PendingFields \ {l}) \cup S
  <2>1. \A h \in Handles : <<0, h>> # l
    BY <1>7
  <2>2. PendingHandles' = PendingHandles
    BY <1>5, <2>1 DEF PendingHandles
  <2>3. PendingFields \ {l} = {m \in Range(pending) \ {l} : m[1] # 0}
    BY DEF PendingFields
  <2>4. QED BY <1>3, <2>2, <2>3
<1>8. QED BY <1>6, <1>7

LEMMA FixupForwardStep ==
  ASSUME HeapInv, FixupForward
  PROVE  StepOK
<1> DEFINE l == Last(pending)
           p == Value(l)
           n == obj[p].new
<1> USE HeapAssumption
<1>1. /\ phase = "move" /\ pending # <<>> /\ obj[p].type = Moved
      /\ obj' = Stored(obj, l, n) /\ StoreRoot(l, n)
      /\ pending' = Front(pending)
      /\ UNCHANGED <<start, nextFree, toNext, pointers, weak, phase>>
  BY DEF FixupForward
<1>2. /\ l \in Range(pending) /\ Lists(pending', Range(pending) \ {l})
      /\ pending' \in Seq(Location) /\ IsInjective(pending')
  BY <1>1, LastPending
<1> HIDE DEF l
<1>3. /\ HandlePending(l) \/ FieldPending(l)
      /\ p \in OldPlaces /\ p \in DOMAIN obj /\ p # 0
  BY <1>1, <1>2, PendingOK
<1>4. /\ Collector!Pos = Places /\ Collector!From = OldPlaces /\ Collector!To = NewPlaces
      /\ OldPlaces \subseteq Places /\ NewPlaces \subseteq Places /\ 0 \notin Places /\ Places \subseteq Ptr
      /\ OldPlaces \cap NewPlaces = {}
  BY InvFacts, ViewHalves DEF OldPlaces, NewPlaces, Places, Pos, Ptr
<1>5. TypeAt[p] = Moved /\ NewPosAt[p] = n
  <2>1. Present(obj, p)
    BY <1>1, <1>3 DEF Present
  <2>2. QED BY <1>1, <1>3, <1>4, <2>1, InvFacts, ObjFacts
<1>6. n \in NewPlaces /\ n \in Ptr /\ n # 0
  <2>1. n \in NewPlaces
    BY <1>1, <1>3, <1>4, <1>5, InvFacts DEF Collector!IInv, Collector!MoveInv
  <2>2. QED BY <1>4, <2>1
<1>7. Range(pending') = (Range(pending) \ {l}) \cup {}
  BY <1>2 DEF Lists
<1>8. \A r \in DOMAIN obj : r \in Pos
  BY InvFacts
<1> HIDE DEF p, n
<1>9. WeakFixups' = WeakFixups /\ ActiveHalf' = ActiveHalf
  BY <1>1 DEF WeakFixups, ActiveHalf
<1>10. CASE HandlePending(l)
  <2>1. PICK h \in Handles : l = <<0, h>> /\ h \in PendingHandles /\ root[h] # 0
    BY <1>10 DEF HandlePending
  <2>2. obj' = obj /\ root' = SetAt(root, h, n) /\ p = root[h]
    BY <1>1, <2>1 DEF Stored, StoreRoot, SetAt, p, Value, ValueAt
  <2>3. LayoutOK'
    BY <1>1, <2>2, InvFacts DEF LayoutOK
  <2>4. HeldOf(obj, SetAt(root, h, n)) = HeldOf(obj, root)
    BY <1>6, <1>8, <2>1, HeldRootFixed, InvFacts
  <2>5. root' \in [Handles -> Ptr]
    BY <1>6, <2>2, InvFacts DEF SetAt
  <2>6. RegistersOK'
    BY <1>1, <1>2, <2>2, <2>4, <2>5, InvFacts DEF RegistersOK
  <2>7. TypeAt' = TypeAt /\ IdAt' = IdAt /\ FieldsAt' = FieldsAt /\ NewPosAt' = NewPosAt
    BY <2>2, View, ViewNext
  <2>8. PendingHandles' = PendingHandles \ {h} /\ PendingFields' = PendingFields
    <3> DEFINE S == {}
    <3>1. Range(pending') = (Range(pending) \ {l}) \cup S /\ \A m \in S : m[1] # 0
      BY <1>7
    <3>2. S = {}
      OBVIOUS
    <3> HIDE DEF S
    <3>3. PendingHandles' = PendingHandles \ {h} /\ PendingFields' = PendingFields \cup S
      BY <2>1, <3>1, PendingSets
    <3>4. QED BY <3>2, <3>3
  <2>9. Collector!FixHandleForward(h, n)
    BY <1>1, <1>5, <1>9, <2>1, <2>2, <2>7, <2>8
    DEF Collector!FixHandleForward, Collector!FixHandle, Collector!Forward, SetAt
  <2>10. n \in Collector!Pos
    BY <1>4, <1>6
  <2>11. Collector!Next
    BY <2>1, <2>9, <2>10 DEF Collector!Next, Collector!FixupStep
  <2>12. QED BY <2>3, <2>6, <2>11 DEF StepOK
<1>11. CASE FieldPending(l)
  <2>1. PICK pp \in NewPlaces, f \in Members :
          /\ l = <<pp, f>> /\ l \in PendingFields
          /\ pp \in DOMAIN obj /\ obj[pp].type \in Types /\ f \in DOMAIN obj[pp].member
          /\ Layout[obj[pp].type][f] \in {"tracked", "strong"} /\ obj[pp].member[f] # 0
    BY <1>11 DEF FieldPending
  <2>2. pp # 0 /\ l[1] = pp /\ l[2] = f /\ pp \in Places /\ obj[pp].type # Uninit
        /\ obj[pp] \in AllocationRecord
    BY <1>4, <2>1, InvFacts, ObjFacts
  <2>3. obj' = SetIn(obj, pp, f, n) /\ root' = root /\ p = obj[pp].member[f]
    BY <1>1, <2>2 DEF Stored, StoreRoot, SetIn, p, Value, ValueAt
  <2>4. LayoutOK'
    <3>1. HalvesOK(start, nextFree, toNext, SetIn(obj, pp, f, n), phase)
      BY <1>6, <2>1, HalvesSet, InvFacts
    <3>2. QED BY <1>1, <2>3, <3>1 DEF LayoutOK
  <2>5. HeldOf(SetIn(obj, pp, f, n), root) = HeldOf(obj, root)
    BY <1>6, <1>8, <2>1, <2>2, HeldFixed
  <2>6. RegistersOK'
    BY <1>1, <1>2, <2>3, <2>5, InvFacts DEF RegistersOK
  <2>7. /\ TypeAt' = TypeAt /\ IdAt' = IdAt /\ NewPosAt' = NewPosAt
        /\ FieldsAt' = [FieldsAt EXCEPT ![pp][f] = n]
    <3>1. /\ TypeView(SetIn(obj, pp, f, n)) = TypeView(obj) /\ IdView(SetIn(obj, pp, f, n)) = IdView(obj)
          /\ NewView(SetIn(obj, pp, f, n)) = NewView(obj)
          /\ FieldsView(SetIn(obj, pp, f, n)) = [FieldsView(obj) EXCEPT ![pp][f] = n]
      BY <1>6, <2>1, <2>2, SetInView
    <3>2. QED BY <2>3, <3>1, View, ViewNext
  <2>8. PendingHandles' = PendingHandles /\ PendingFields' = PendingFields \ {<<pp, f>>}
    BY <1>7, <2>1, <2>2, PendingSets
  <2>9. FieldsAt[pp][f] = p
    <3>1. Present(obj, pp) /\ WellMade(obj[pp])
      BY <2>1, <2>2, InvFacts, ObjFacts DEF Present
    <3>2. FieldsAt[pp] = MembersIn(obj[pp])
      BY <2>2, <3>1, InvFacts, ObjFacts
    <3>3. QED BY <2>1, <2>3, <3>1, <3>2, MembersOfObject
  <2>10. Collector!FixFieldForward(pp, f, n)
    BY <1>1, <1>5, <1>9, <2>1, <2>3, <2>7, <2>8, <2>9
    DEF Collector!FixFieldForward, Collector!FixField, Collector!Forward
  <2>11. n \in Collector!Pos /\ pp \in Collector!Pos
    BY <1>4, <1>6, <2>2
  <2>12. Collector!Next
    BY <2>1, <2>10, <2>11 DEF Collector!Next, Collector!FixupStep
  <2>13. QED BY <2>4, <2>6, <2>12 DEF StepOK
<1>12. QED BY <1>3, <1>10, <1>11

LEMMA MovingView ==
  ASSUME NEW o, NEW p \in DOMAIN o, p \in Places, NEW q \in Places, q \notin DOMAIN o,
         WellMade(o[p]), o[p].type \in Types
  PROVE  /\ TypeView(Moving(o, p, q)) = SetAt(SetAt(TypeView(o), p, Moved), q, o[p].type)
         /\ IdView(Moving(o, p, q)) = SetAt(IdView(o), q, o[p].id)
         /\ FieldsView(Moving(o, p, q)) = SetAt(SetAt(FieldsView(o), q, FieldsView(o)[p]), p, None)
         /\ NewView(Moving(o, p, q)) = SetAt(NewView(o), p, q)
<1> USE HeapAssumption
<1> DEFINE a == o[p]
           b == Left(a, q)
           m == Put(o, q, a)
<1>1. /\ b.type = Moved /\ b.new = q /\ b.id = a.id /\ b.member = <<>>
  <2>1. WellMade(a) /\ q \in Ptr
    BY DEF Places, Pos, Ptr
  <2> HIDE DEF a
  <2>2. QED BY <2>1, LeftOver
<1>2. /\ a.new = 0 /\ a.type \in Types /\ a.type # Uninit /\ b.type # Uninit
      /\ Present(o, p) /\ ~Present(o, q) /\ p # q
  BY <1>1 DEF WellMade, Present
<1>3. /\ TypeView(o)[p] = a.type /\ IdView(o)[p] = a.id /\ FieldsView(o)[p] = MembersIn(a)
      /\ NewView(o)[q] = 0
  BY <1>2 DEF TypeView, IdView, FieldsView, NewView
<1>4. Moving(o, p, q) = Put(m, p, b)
  BY DEF Moving
<1>5. MembersIn(b) = None
  BY <1>1 DEF MembersIn, None
<1> HIDE DEF a, b
<1>6. /\ TypeView(m) = SetAt(TypeView(o), q, a.type) /\ IdView(m) = SetAt(IdView(o), q, a.id)
      /\ FieldsView(m) = SetAt(FieldsView(o), q, MembersIn(a)) /\ NewView(m) = SetAt(NewView(o), q, a.new)
  <2>1. a.type # Uninit
    BY <1>2
  <2>2. QED BY ONLY q \in Places, <2>1, PutView
<1> HIDE DEF m
<1>7. /\ TypeView(Put(m, p, b)) = SetAt(TypeView(m), p, b.type)
      /\ IdView(Put(m, p, b)) = SetAt(IdView(m), p, b.id)
      /\ FieldsView(Put(m, p, b)) = SetAt(FieldsView(m), p, MembersIn(b))
      /\ NewView(Put(m, p, b)) = SetAt(NewView(m), p, b.new)
  BY <1>2, PutView
<1>8. /\ DOMAIN TypeView(o) = Places /\ DOMAIN IdView(o) = Places /\ DOMAIN NewView(o) = Places
      /\ DOMAIN FieldsView(o) = Places
      /\ TypeView(o) = [r \in Places |-> TypeView(o)[r]] /\ IdView(o) = [r \in Places |-> IdView(o)[r]]
      /\ NewView(o) = [r \in Places |-> NewView(o)[r]]
  BY DEF TypeView, IdView, NewView, FieldsView
<1>9. TypeView(Moving(o, p, q)) = SetAt(SetAt(TypeView(o), p, Moved), q, a.type)
  <2>1. TypeView(Moving(o, p, q)) = SetAt(SetAt(TypeView(o), q, a.type), p, Moved)
    BY <1>1, <1>4, <1>6, <1>7
  <2>2. QED BY <1>2, <1>8, <2>1 DEF SetAt
<1>10. IdView(Moving(o, p, q)) = SetAt(IdView(o), q, a.id)
  <2>1. IdView(Moving(o, p, q)) = SetAt(SetAt(IdView(o), q, a.id), p, IdView(o)[p])
    BY <1>1, <1>3, <1>4, <1>6, <1>7
  <2>2. QED BY <1>2, <1>8, <2>1 DEF SetAt
<1>11. NewView(Moving(o, p, q)) = SetAt(NewView(o), p, q)
  <2>1. NewView(Moving(o, p, q)) = SetAt(SetAt(NewView(o), q, NewView(o)[q]), p, q)
    BY <1>1, <1>2, <1>3, <1>4, <1>6, <1>7
  <2>2. QED BY <1>2, <1>8, <2>1 DEF SetAt
<1>12. FieldsView(Moving(o, p, q)) = SetAt(SetAt(FieldsView(o), q, FieldsView(o)[p]), p, None)
  BY <1>3, <1>4, <1>5, <1>6, <1>7
<1>13. QED BY <1>9, <1>10, <1>11, <1>12 DEF a

(* The pointers of the copy are those the algorithm registers.             *)
LEMMA RegisteredPointers ==
  ASSUME NEW p, NEW q, NEW a, WellMade(a), a.type \in Types, TypeAt[p] = a.type,
         FieldsAt[p] = MembersIn(a)
  PROVE  /\ Collector!StrongPointers(q, p)
              = MembersOf(q, a.type, a.member, {"tracked"}) \cup MembersOf(q, a.type, a.member, {"strong"})
         /\ Collector!WeakPointers(q, p) = MembersOf(q, a.type, a.member, {"weak"})
<1>1. /\ DOMAIN a.member = DOMAIN Layout[a.type] /\ DOMAIN a.member \subseteq Members
      /\ \A f \in DOMAIN a.member : MembersIn(a)[f] = a.member[f]
  BY MembersOfObject
<1>2. /\ \A f : f \in OfKind({"tracked", "strong"})[a.type]
                  <=> f \in DOMAIN a.member /\ Layout[a.type][f] \in {"tracked", "strong"}
      /\ \A f : f \in OfKind({"weak"})[a.type]
                  <=> f \in DOMAIN a.member /\ Layout[a.type][f] \in {"weak"}
  BY <1>1, MembersOfKind
<1>3. Collector!StrongPointers(q, p) = {<<q, f>> : f \in {g \in OfKind({"tracked", "strong"})[a.type] : MembersIn(a)[g] # 0}}
  BY DEF Collector!StrongPointers
<1>4. Collector!WeakPointers(q, p) = {<<q, f>> : f \in {g \in OfKind({"weak"})[a.type] : MembersIn(a)[g] # 0}}
  BY DEF Collector!WeakPointers
<1>5. {g \in OfKind({"tracked", "strong"})[a.type] : MembersIn(a)[g] # 0}
        = {g \in DOMAIN a.member : Layout[a.type][g] \in {"tracked"} /\ a.member[g] # 0}
          \cup {g \in DOMAIN a.member : Layout[a.type][g] \in {"strong"} /\ a.member[g] # 0}
  BY <1>1, <1>2
<1>6. {g \in OfKind({"weak"})[a.type] : MembersIn(a)[g] # 0}
        = {g \in DOMAIN a.member : Layout[a.type][g] \in {"weak"} /\ a.member[g] # 0}
  BY <1>1, <1>2
<1>7. Collector!WeakPointers(q, p) = MembersOf(q, a.type, a.member, {"weak"})
  BY <1>4, <1>6 DEF MembersOf
<1>8. QED BY <1>3, <1>5, <1>7 DEF MembersOf

(* What gc_move does to pointers_, pending_fixups and weak_fixups.         *)
LEMMA MoveRegisters ==
  ASSUME HeapInv, phase = "move", pending # <<>>,
         NEW p \in DOMAIN obj, obj[p].type \in Types, WellMade(obj[p]), NEW q \in Pos, q \notin DOMAIN obj,
         NEW extended, extended = pointers \o Attached(q, obj[p]),
         NEW internal, internal = SubSeq(extended, Len(pointers) + 1, Len(extended))
  PROVE  LET a == obj[p]
             S == MembersOf(q, a.type, a.member, {"tracked"}) \cup MembersOf(q, a.type, a.member, {"strong"})
             W == MembersOf(q, a.type, a.member, {"weak"})
         IN  /\ Lists(Destroyed(extended, p), HeldOf(Moving(obj, p, q), root))
             /\ Lists(Front(pending) \o internal \o Untracked(q, a),
                      (Range(pending) \ {Last(pending)}) \cup S)
             /\ Lists(weak \o WeakMembers(q, a), Range(weak) \cup W)
             /\ S \subseteq Location /\ W \subseteq Location
<1> USE HeapAssumption
<1> DEFINE a == obj[p]
           T == MembersOf(q, a.type, a.member, {"tracked"})
           U == MembersOf(q, a.type, a.member, {"strong"})
           W == MembersOf(q, a.type, a.member, {"weak"})
           H == HeldOf(obj, root)
           R == Range(pending) \ {Last(pending)}
           ta == Attached(q, a)
           ua == Untracked(q, a)
           wa == WeakMembers(q, a)
<1>1. a \in AllocationRecord /\ a.member \in Seq(Ptr)
  BY DEF WellMade, AllocationRecord
<1>2. Lists(ta, T) /\ Lists(ua, U) /\ Lists(wa, W)
  BY <1>1, MemberLocationsLists DEF Attached, Untracked, WeakMembers
<1>3. T \cap U = {} /\ T \cap W = {} /\ U \cap W = {}
  BY DEF MembersOf
<1>4. \A l \in T \cup U \cup W : l[1] = q /\ l \in Location
  <2>1. DOMAIN a.member \subseteq Members
    BY MembersOfObject
  <2>2. QED BY <2>1 DEF MembersOf, Location
<1>5. \A r \in DOMAIN obj : r \in Pos
  BY InvFacts
<1>6. /\ HeldOf(Moving(obj, p, q), root) = (H \cup T) \ HeldBy(obj, p)
      /\ H \cap T = {} /\ HeldBy(obj, p) \subseteq H
  BY <1>1, <1>5, HeldMoved
<1>7. Lists(pointers, H)
  BY InvFacts
<1>8. Lists(Destroyed(extended, p), HeldOf(Moving(obj, p, q), root))
  <2> HIDE DEF a, T, H, ta
  <2>1. Lists(extended, H \cup T)
    <3>1. extended = pointers \o ta
      BY DEF ta, a
    <3>2. Lists(pointers \o ta, H \cup T)
      BY <1>2, <1>6, <1>7, ConcatLists
    <3>3. QED BY <3>1, <3>2
  <2>2. HeldBy(obj, p) \subseteq H \cup T
    BY <1>6
  <2>3. obj[p].member \in Seq(Ptr)
    BY <1>1 DEF a
  <2> DEFINE X == H \cup T
  <2>4. Lists(extended, X) /\ HeldBy(obj, p) \subseteq X
    BY <2>1, <2>2
  <2> HIDE DEF X
  <2>5. Lists(Destroyed(extended, p), X \ HeldBy(obj, p))
    BY <2>3, <2>4, DestroyedLists
  <2>6. QED BY <1>6, <2>5 DEF X
<1>9. internal = ta
  <2> HIDE DEF ta, a
  <2>1. pointers \in Seq(Location \cup T) /\ ta \in Seq(Location \cup T)
    <3>1. pointers \in Seq(H) /\ ta \in Seq(T)
      BY <1>2, <1>7 DEF Lists
    <3>2. H \subseteq Location
      <4>1. \A r \in DOMAIN obj : r \in Pos /\ WellMade(obj[r])
        BY InvFacts, ObjFacts
      <4>2. QED BY <4>1, HeldInLocation
    <3> HIDE DEF T, H
    <3>3. QED BY <3>1, <3>2, SeqMonotonic
  <2> DEFINE E == Location \cup T
  <2> HIDE DEF E
  <2>2. pointers \in Seq(E) /\ ta \in Seq(E)
    BY <2>1 DEF E
  <2>3. SubSeq(pointers \o ta, Len(pointers) + 1, Len(pointers \o ta)) = ta
    BY <2>2, SuffixOfConcat
  <2>4. extended = pointers \o ta
    BY DEF ta, a
  <2>5. QED BY <2>3, <2>4
<1>10. R \cap T = {} /\ R \cap U = {}
  <2>1. ASSUME NEW l \in R
        PROVE  l[1] # q
    <3>1. l[1] # 0 => l[1] \in DOMAIN obj
      BY PendingOK
    <3>2. q # 0
      BY DEF Pos
    <3>3. QED BY <3>1, <3>2
  <2>2. QED BY <1>4, <2>1
<1>11. Lists(Front(pending) \o internal \o ua, R \cup (T \cup U))
  <2>1. Lists(Front(pending), R)
    BY LastPending
  <2> DEFINE f == Front(pending)
             fi == f \o internal
             RT == R \cup T
  <2> HIDE DEF f, R, T, U, ua, ta
  <2>2. Lists(fi, RT)
    BY <1>2, <1>9, <1>10, <2>1, ConcatLists DEF f
  <2>3. RT \cap U = {}
    BY <1>3, <1>10
  <2> HIDE DEF fi, RT
  <2>4. Lists(fi \o ua, RT \cup U)
    BY <1>2, <2>2, <2>3, ConcatLists
  <2>5. RT \cup U = R \cup (T \cup U)
    BY DEF RT
  <2>6. QED BY <2>4, <2>5 DEF fi, f
<1>12. Lists(weak \o wa, Range(weak) \cup W)
  <2>1. Lists(weak, Range(weak))
    <3>1. weak \in Seq(Location) /\ IsInjective(weak)
      BY InvFacts DEF RegistersOK
    <3>2. QED BY <3>1, ListsItsRange
  <2>2. Range(weak) \cap W = {}
    <3>1. ASSUME NEW l \in Range(weak), l \in W
          PROVE  FALSE
      <4>1. PICK f \in Members : l = <<q, f>>
        <5>1. DOMAIN a.member \subseteq Members
          BY MembersOfObject
        <5>2. QED BY <3>1, <5>1 DEF MembersOf
      <4>2. <<q, f>> \in WeakFixups
        BY <3>1, <4>1 DEF WeakFixups
      <4>3. WeakFixups \in SUBSET (Places \X Members)
        BY InvFacts, ViewHalves DEF Collector!IInv, Collector!TypeOK
      <4>4. q \in Places
        BY <4>2, <4>3
      <4>5. TypeAt[q] \in Types
        BY <4>2, <4>4, InvFacts, ViewHalves
        DEF Collector!IInv, Collector!PendingWellFormed, Collector!IsObject
      <4>6. IsObject(q)
        BY <4>4, <4>5, InvFacts, ObjFacts
      <4>7. QED BY <4>6 DEF IsObject
    <3>2. QED BY <3>1
  <2> HIDE DEF wa, W
  <2>3. QED BY <1>2, <2>1, <2>2, ConcatLists
<1>13. QED BY <1>4, <1>8, <1>11, <1>12

LEMMA RelocatedIsMoving ==
  ASSUME NEW p \in DOMAIN obj, NEW q, q # p
  PROVE  Relocated(p, q) = Moving(obj, p, q)
  BY DEF Relocated, Moving, Put, Left

LEMMA FixupMoveStep ==
  ASSUME HeapInv, FixupMove
  PROVE  StepOK
<1> DEFINE l == Last(pending)
           p == Value(l)
           q == toNext + 1
           a == obj[p]
           extended == pointers \o Attached(q, a)
           internal == SubSeq(extended, Len(pointers) + 1, Len(extended))
           u == Moving(obj, p, q)
           S == MembersOf(q, a.type, a.member, {"tracked"}) \cup MembersOf(q, a.type, a.member, {"strong"})
           W == MembersOf(q, a.type, a.member, {"weak"})
           pd == Front(pending) \o internal \o Untracked(q, a)
           wk == weak \o WeakMembers(q, a)
<1> USE HeapAssumption
<1>1. /\ phase = "move" /\ pending # <<>> /\ IsObject(p)
      /\ toNext' = toNext + a.size
      /\ pointers' = Destroyed(extended, p)
      /\ obj' = Stored(Relocated(p, q), l, q) /\ StoreRoot(l, q)
      /\ pending' = pd /\ weak' = wk
      /\ UNCHANGED <<start, nextFree, phase>>
  BY DEF FixupMove
<1> HIDE DEF l
<1>2. l \in Range(pending)
  BY <1>1, LastPending DEF l
<1>3. /\ HandlePending(l) \/ FieldPending(l)
      /\ p \in OldPlaces /\ p \in DOMAIN obj /\ p # 0
  BY <1>1, <1>2, PendingOK
<1>4. /\ Collector!Pos = Places /\ Collector!From = OldPlaces /\ Collector!To = NewPlaces
      /\ OldPlaces \subseteq Places /\ NewPlaces \subseteq Places /\ 0 \notin Places /\ Places \subseteq Ptr
      /\ OldPlaces \cap NewPlaces = {}
  BY InvFacts, ViewHalves DEF OldPlaces, NewPlaces, Places, Pos, Ptr
<1> HIDE DEF p
<1>5. a.type \in Types /\ WellMade(a) /\ a.type # Uninit /\ p \in Places /\ a.type # Moved
  BY <1>1, <1>3, <1>4, InvFacts, ObjFacts DEF IsObject
<1>6. p \in Here(obj, start)
  BY <1>3 DEF Here, OldPlaces
<1>7. /\ q \notin DOMAIN obj /\ q \in Places /\ InHalf(q, Half - start) /\ q # p
      /\ HalvesOK(start, nextFree, toNext + a.size, u, "move")
  <2>1. HalvesOK(start, nextFree, toNext, obj, "move")
    BY <1>1, InvFacts
  <2>2. QED BY <1>5, <1>6, <2>1, HalvesMoved
<1> HIDE DEF q
<1>8. q \in Pos /\ q \in Ptr /\ q # 0 /\ q \in NewPlaces
  BY <1>4, <1>7 DEF Places, NewPlaces
<1>9. Relocated(p, q) = u
  BY <1>3, <1>7, RelocatedIsMoving
<1>10. /\ Lists(pointers', HeldOf(u, root))
       /\ Lists(pending', (Range(pending) \ {l}) \cup S)
       /\ Lists(weak', Range(weak) \cup W)
       /\ S \subseteq Location /\ W \subseteq Location
  <2> DEFINE X == HeldOf(u, root)
  <2>1. /\ Lists(Destroyed(extended, p), X)
        /\ Lists(pd, (Range(pending) \ {l}) \cup S)
        /\ Lists(wk, Range(weak) \cup W)
        /\ S \subseteq Location /\ W \subseteq Location
    BY <1>1, <1>3, <1>5, <1>7, <1>8, MoveRegisters DEF l
  <2> HIDE DEF extended, X, pd, wk, S, W
  <2>2. QED BY <1>1, <2>1 DEF X
<1> HIDE DEF extended, internal, pd, wk
<1>11. Collector!StrongPointers(q, p) = S /\ Collector!WeakPointers(q, p) = W
  <2>1. Present(obj, p)
    BY <1>3, <1>5 DEF Present
  <2>2. TypeAt[p] = a.type /\ FieldsAt[p] = MembersIn(a)
    BY <1>5, <2>1, InvFacts, ObjFacts
  <2> HIDE DEF a
  <2>3. QED BY <1>5, <2>2, RegisteredPointers
<1>12. TypeAt[p] = a.type /\ IdAt[p] = a.id /\ FieldsAt[p] = MembersIn(a) /\ TypeAt[q] = Free
  <2>1. Present(obj, p) /\ ~Present(obj, q)
    BY <1>3, <1>5, <1>7 DEF Present
  <2>2. QED BY <1>5, <1>7, <2>1, InvFacts, ObjFacts
<1>13. \A m \in S : m[1] # 0
  BY <1>8 DEF MembersOf
<1>14. /\ TypeView(u) = SetAt(SetAt(TypeAt, p, Moved), q, TypeAt[p])
       /\ IdView(u) = SetAt(IdAt, q, IdAt[p])
       /\ FieldsView(u) = SetAt(SetAt(FieldsAt, q, FieldsAt[p]), p, None)
       /\ NewView(u) = SetAt(NewPosAt, p, q)
  <2>1. /\ TypeView(u) = SetAt(SetAt(TypeView(obj), p, Moved), q, a.type)
        /\ IdView(u) = SetAt(IdView(obj), q, a.id)
        /\ FieldsView(u) = SetAt(SetAt(FieldsView(obj), q, FieldsView(obj)[p]), p, None)
        /\ NewView(u) = SetAt(NewView(obj), p, q)
    BY <1>3, <1>5, <1>7, MovingView
  <2> HIDE DEF u
  <2>2. QED BY <1>12, <2>1, View
<1>15. /\ pending' \in Seq(Location) /\ IsInjective(pending') /\ Range(pending') = (Range(pending) \ {l}) \cup S
       /\ weak' \in Seq(Location) /\ IsInjective(weak') /\ Range(weak') = Range(weak) \cup W
  <2> HIDE DEF S, W
  <2>1. Range(pending) \subseteq Location /\ Range(weak) \subseteq Location
    <3>1. pending \in Seq(Location) /\ weak \in Seq(Location)
      BY InvFacts DEF RegistersOK
    <3>2. QED BY <3>1, LenProperties DEF Range
  <2>2. (Range(pending) \ {l}) \cup S \subseteq Location /\ Range(weak) \cup W \subseteq Location
    BY <1>10, <2>1
  <2> DEFINE RP == (Range(pending) \ {l}) \cup S
             RW == Range(weak) \cup W
             s == pending'
             w == weak'
  <2>3. Lists(s, RP) /\ Lists(w, RW) /\ RP \subseteq Location /\ RW \subseteq Location
    BY <1>10, <2>2
  <2> HIDE DEF RP, RW, s, w
  <2>4. s \in Seq(Location) /\ w \in Seq(Location)
    BY <2>3, SeqMonotonic DEF Lists
  <2>5. IsInjective(s) /\ Range(s) = RP /\ IsInjective(w) /\ Range(w) = RW
    BY <2>3 DEF Lists
  <2>6. QED BY <2>4, <2>5 DEF s, w, RP, RW
<1> HIDE DEF S, W
<1>16. WeakFixups' = WeakFixups \cup W /\ ActiveHalf' = ActiveHalf
  BY <1>1, <1>15 DEF WeakFixups, ActiveHalf
<1>17. \A r \in DOMAIN u : r \in Pos
  BY <1>7 DEF HalvesOK
<1>18. /\ u[q] = a /\ DOMAIN u = DOMAIN obj \cup {q}
       /\ \A r \in DOMAIN obj : r # p => u[r] = obj[r]
  <2> HIDE DEF a
  <2> DEFINE b == Left(a, q)
  <2> HIDE DEF b
  <2>1. u = Put(Put(obj, q, a), p, b)
    BY DEF Moving, a, b
  <2> HIDE DEF u
  <2>2. QED BY <1>3, <1>7, <2>1 DEF Put
<1> HIDE DEF u
<1>19. Collector!NoFields = None
  BY DEF Collector!NoFields, None
<1>20. CASE HandlePending(l)
  <2>1. PICK h \in Handles : l = <<0, h>> /\ h \in PendingHandles /\ root[h] # 0
    BY <1>20 DEF HandlePending
  <2>2. obj' = u /\ root' = SetAt(root, h, q) /\ p = root[h]
    BY <1>1, <1>9, <2>1 DEF Stored, StoreRoot, SetAt, p, Value, ValueAt
  <2>3. LayoutOK'
    BY <1>1, <1>7, <2>2 DEF LayoutOK
  <2>4. HeldOf(u, SetAt(root, h, q)) = HeldOf(u, root)
    BY <1>8, <1>17, <2>1, HeldRootFixed, InvFacts
  <2>5. root' \in [Handles -> Ptr]
    BY <1>8, <2>2, InvFacts DEF SetAt
  <2>6. RegistersOK'
    BY <1>1, <1>10, <1>15, <2>2, <2>4, <2>5 DEF RegistersOK
  <2>7. /\ TypeAt' = SetAt(SetAt(TypeAt, p, Moved), q, TypeAt[p]) /\ IdAt' = SetAt(IdAt, q, IdAt[p])
        /\ FieldsAt' = SetAt(SetAt(FieldsAt, q, FieldsAt[p]), p, None) /\ NewPosAt' = SetAt(NewPosAt, p, q)
    BY <1>14, <2>2, ViewNext
  <2>8. PendingHandles' = PendingHandles \ {h} /\ PendingFields' = PendingFields \cup S
    BY <1>13, <1>15, <2>1, PendingSets
  <2>9. Collector!Relocate(p, q)
    BY <1>4, <1>5, <1>8, <1>11, <1>12, <1>16, <2>7
    DEF Collector!Relocate, Collector!IsObject, SetAt
  <2>10. FieldsAt' = Collector!Copied(p, q)
    BY <1>19, <2>7 DEF Collector!Copied, SetAt
  <2>11. Collector!FixHandleMove(h, q)
    BY <1>1, <1>11, <1>16, <2>1, <2>2, <2>8, <2>9, <2>10
    DEF Collector!FixHandleMove, Collector!FixHandle, SetAt
  <2>12. q \in Collector!Pos
    BY <1>4, <1>7
  <2>13. Collector!Next
    BY <2>1, <2>11, <2>12 DEF Collector!Next, Collector!FixupStep
  <2>14. QED BY <2>3, <2>6, <2>13 DEF StepOK
<1>21. CASE FieldPending(l)
  <2>1. PICK pp \in NewPlaces, f \in Members :
          /\ l = <<pp, f>> /\ l \in PendingFields
          /\ pp \in DOMAIN obj /\ obj[pp].type \in Types /\ f \in DOMAIN obj[pp].member
          /\ Layout[obj[pp].type][f] \in {"tracked", "strong"} /\ obj[pp].member[f] # 0
    BY <1>21 DEF FieldPending
  <2>2. pp # 0 /\ l[1] = pp /\ l[2] = f /\ pp \in Places /\ obj[pp].type # Uninit
        /\ obj[pp] \in AllocationRecord /\ pp # p /\ pp # q
    BY <1>3, <1>4, <1>7, <2>1, InvFacts, ObjFacts
  <2>3. u[pp] = obj[pp] /\ pp \in DOMAIN u
    BY <1>18, <2>1, <2>2
  <2>4. obj' = SetIn(u, pp, f, q) /\ root' = root /\ p = obj[pp].member[f]
    BY <1>1, <1>9, <2>2 DEF Stored, StoreRoot, SetIn, p, Value, ValueAt
  <2>5. LayoutOK'
    <3> DEFINE tn == toNext + a.size
    <3>1. HalvesOK(start, nextFree, tn, u, "move")
      BY <1>7
    <3> HIDE DEF tn
    <3>2. HalvesOK(start, nextFree, tn, SetIn(u, pp, f, q), "move")
      BY <1>8, <2>1, <2>3, <3>1, HalvesSet
    <3>3. QED BY <1>1, <2>4, <3>2 DEF LayoutOK, tn
  <2>6. HeldOf(SetIn(u, pp, f, q), root) = HeldOf(u, root)
    BY <1>8, <1>17, <2>1, <2>2, <2>3, HeldFixed
  <2>7. RegistersOK'
    BY <1>1, <1>10, <1>15, <2>4, <2>6, InvFacts DEF RegistersOK
  <2>8. /\ TypeAt' = TypeView(u) /\ IdAt' = IdView(u) /\ NewPosAt' = NewView(u)
        /\ FieldsAt' = [FieldsView(u) EXCEPT ![pp][f] = q]
    <3>1. /\ TypeView(SetIn(u, pp, f, q)) = TypeView(u) /\ IdView(SetIn(u, pp, f, q)) = IdView(u)
          /\ NewView(SetIn(u, pp, f, q)) = NewView(u)
          /\ FieldsView(SetIn(u, pp, f, q)) = [FieldsView(u) EXCEPT ![pp][f] = q]
      BY <1>8, <2>1, <2>2, <2>3, SetInView
    <3>2. QED BY <2>4, <3>1, ViewNext
  <2>9. PendingHandles' = PendingHandles /\ PendingFields' = (PendingFields \ {<<pp, f>>}) \cup S
    BY <1>13, <1>15, <2>1, <2>2, PendingSets
  <2>10. FieldsAt[pp][f] = p
    <3>1. Present(obj, pp) /\ WellMade(obj[pp])
      BY <2>1, <2>2, InvFacts, ObjFacts DEF Present
    <3>2. FieldsAt[pp] = MembersIn(obj[pp])
      BY <2>2, <3>1, InvFacts, ObjFacts
    <3>3. QED BY <2>1, <2>4, <3>1, <3>2, MembersOfObject
  <2>11. Collector!Relocate(p, q)
    BY <1>4, <1>5, <1>8, <1>11, <1>12, <1>14, <1>16, <2>8
    DEF Collector!Relocate, Collector!IsObject, SetAt
  <2>12. FieldsAt' = [Collector!Copied(p, q) EXCEPT ![pp][f] = q]
    <3>1. FieldsView(u) = Collector!Copied(p, q)
      BY <1>14, <1>19 DEF Collector!Copied, SetAt
    <3>2. QED BY <2>8, <3>1
  <2>13. Collector!FixFieldMove(pp, f, q)
    BY <1>1, <1>11, <1>16, <2>1, <2>4, <2>9, <2>10, <2>11, <2>12
    DEF Collector!FixFieldMove, Collector!FixField
  <2>14. q \in Collector!Pos /\ pp \in Collector!Pos
    BY <1>4, <1>7, <2>2
  <2>15. Collector!Next
    BY <2>1, <2>13, <2>14 DEF Collector!Next, Collector!FixupStep
  <2>16. QED BY <2>5, <2>7, <2>15 DEF StepOK
<1>22. QED BY <1>3, <1>20, <1>21

(* A weak fixup is a weak pointer, not yet fixed up.                       *)
WeakPending(l) ==
  \E p \in NewPlaces, f \in Members :
    /\ l = <<p, f>>
    /\ p \in DOMAIN obj /\ obj[p].type \in Types /\ f \in DOMAIN obj[p].member
    /\ Layout[obj[p].type][f] = "weak" /\ obj[p].member[f] # 0
    /\ obj[p].member[f] \in OldPlaces /\ obj[p].member[f] \in DOMAIN obj
    /\ obj[obj[p].member[f]].type \in Types \cup {Moved}

LEMMA WeakOK ==
  ASSUME HeapInv, phase = "move", NEW l \in Range(weak)
  PROVE  WeakPending(l)
<1> USE HeapAssumption
<1>1. l \in WeakFixups
  BY DEF WeakFixups
<1>2. /\ Collector!Pos = Places /\ Collector!From = OldPlaces /\ Collector!To = NewPlaces
      /\ \A p \in Places : TypeAt[p] \in Types <=> IsObject(p)
      /\ \A p \in Places : TypeAt[p] = IF Present(obj, p) THEN obj[p].type ELSE Free
      /\ \A p \in Places : FieldsAt[p] = IF Present(obj, p) THEN MembersIn(obj[p]) ELSE None
      /\ OldPlaces \subseteq Places /\ NewPlaces \subseteq Places /\ 0 \notin Places
  BY InvFacts, ViewHalves, ObjFacts DEF OldPlaces, NewPlaces
<1>3. WeakFixups \in SUBSET (Places \X Members)
  BY <1>2, InvFacts DEF Collector!IInv, Collector!TypeOK
<1>4. PICK p \in Places, f \in Members : l = <<p, f>>
  BY <1>1, <1>3
<1>5. /\ p \in NewPlaces /\ TypeAt[p] \in Types
      /\ f \in OfKind({"weak"})[TypeAt[p]] /\ FieldsAt[p][f] # 0
  BY <1>1, <1>2, <1>4, InvFacts
  DEF Collector!IInv, Collector!PendingWellFormed, Collector!IsObject
<1>6. IsObject(p) /\ Present(obj, p) /\ TypeAt[p] = obj[p].type /\ FieldsAt[p] = MembersIn(obj[p])
  BY <1>2, <1>5 DEF IsObject, Present
<1>7. p \in DOMAIN obj /\ obj[p].type \in Types /\ WellMade(obj[p])
  BY <1>6, InvFacts, ObjFacts DEF IsObject
<1>8. f \in DOMAIN obj[p].member /\ Layout[obj[p].type][f] = "weak"
  BY <1>5, <1>6, <1>7, MembersOfKind, MembersOfObject
<1>9. obj[p].member[f] = FieldsAt[p][f]
  BY <1>6, <1>7, <1>8, MembersOfObject
<1> DEFINE v == obj[p].member[f]
<1>10. Collector!OldRef(v)
  <2>1. <<p, f>> \in PendingFields \cup WeakFixups
    BY <1>1, <1>4
  <2>2. QED BY <1>2, <1>5, <1>9, <2>1, InvFacts DEF Collector!IInv, Collector!MoveInv, Collector!IsObject
<1> HIDE DEF v
<1>11. v \in OldPlaces /\ TypeAt[v] # Free
  BY <1>2, <1>10 DEF Collector!OldRef
<1>12. Present(obj, v)
  BY <1>2, <1>11
<1>13. obj[v].type \in Types \cup {Moved, Uninit}
  BY <1>12, InvFacts, ObjFacts DEF AllocationRecord, Present
<1>14. v \in OldPlaces /\ v \in DOMAIN obj /\ obj[v].type \in Types \cup {Moved}
  BY <1>11, <1>12, <1>13 DEF Present
<1>15. QED BY <1>4, <1>5, <1>7, <1>8, <1>9, <1>14 DEF WeakPending, v

WeakFold == INSTANCE FoldProofs WITH Op <- FixedAt

(* The heap o when the weak pointers in F have been fixed up.              *)
Weakened(o, F) ==
  /\ DOMAIN o = DOMAIN obj
  /\ \A p \in DOMAIN obj :
       /\ o[p] \in AllocationRecord
       /\ o[p].size = obj[p].size /\ o[p].type = obj[p].type
       /\ o[p].new = obj[p].new /\ o[p].id = obj[p].id
       /\ DOMAIN o[p].member = DOMAIN obj[p].member /\ Len(o[p].member) = Len(obj[p].member)
       /\ \A f \in DOMAIN obj[p].member :
            o[p].member[f] = IF <<p, f>> \in F THEN FixedWeak(obj[p].member[f]) ELSE obj[p].member[f]

LEMMA WeakenedStep ==
  ASSUME HeapInv, NEW o, NEW F, Weakened(o, F), NEW l, WeakPending(l), l \notin F
  PROVE  Weakened(FixedAt(o, l), F \cup {l}) /\ FixedAt(o, l) \in [DOMAIN obj -> AllocationRecord]
<1> USE HeapAssumption
<1>1. PICK p \in NewPlaces, f \in Members :
        /\ l = <<p, f>>
        /\ p \in DOMAIN obj /\ obj[p].type \in Types /\ f \in DOMAIN obj[p].member
        /\ obj[p].member[f] \in DOMAIN obj
  BY DEF WeakPending
<1>2. p # 0 /\ l[1] = p /\ l[2] = f
  BY <1>1, InvFacts, ObjFacts
<1> DEFINE v == obj[p].member[f]
           w == FixedWeak(v)
           u == SetIn(o, p, f, w)
<1>3. w \in Ptr
  <2>1. obj[v] \in AllocationRecord
    BY <1>1, InvFacts, ObjFacts
  <2>2. obj[v].new \in Ptr /\ 0 \in Ptr
    BY <2>1 DEF AllocationRecord, Ptr
  <2>3. QED BY <2>2 DEF FixedWeak
<1>4. /\ DOMAIN o = DOMAIN obj /\ o[p] \in AllocationRecord /\ f \in DOMAIN o[p].member
      /\ o[p].member[f] = v
  BY <1>1 DEF Weakened
<1>5. FixedAt(o, l) = u
  BY <1>2, <1>4 DEF FixedAt, Stored, SetIn, ValueAt
<1> HIDE DEF w, v
<1>6. /\ DOMAIN u = DOMAIN o
      /\ \A q \in DOMAIN o : q # p => u[q] = o[q]
      /\ u[p] \in AllocationRecord
      /\ u[p].size = o[p].size /\ u[p].type = o[p].type
      /\ u[p].new = o[p].new /\ u[p].id = o[p].id
      /\ u[p].member = SetAt(o[p].member, f, w)
      /\ DOMAIN u[p].member = DOMAIN o[p].member
      /\ Len(u[p].member) = Len(o[p].member)
  BY <1>1, <1>3, <1>4, SetInAt
<1>7. u = [q \in DOMAIN o |-> u[q]]
  BY DEF SetIn
<1> HIDE DEF u
<1>8. \A q \in DOMAIN obj : u[q] \in AllocationRecord
  BY <1>1, <1>4, <1>6 DEF Weakened
<1>9. u \in [DOMAIN obj -> AllocationRecord]
  BY <1>4, <1>7, <1>8
<1>10. ASSUME NEW q \in DOMAIN obj
       PROVE  /\ u[q] \in AllocationRecord
              /\ u[q].size = obj[q].size /\ u[q].type = obj[q].type
              /\ u[q].new = obj[q].new /\ u[q].id = obj[q].id
              /\ DOMAIN u[q].member = DOMAIN obj[q].member /\ Len(u[q].member) = Len(obj[q].member)
              /\ \A g \in DOMAIN obj[q].member :
                   u[q].member[g] = IF <<q, g>> \in F \cup {l} THEN FixedWeak(obj[q].member[g])
                                    ELSE obj[q].member[g]
  <2>0. /\ o[q].size = obj[q].size /\ o[q].type = obj[q].type
        /\ o[q].new = obj[q].new /\ o[q].id = obj[q].id
        /\ DOMAIN o[q].member = DOMAIN obj[q].member /\ Len(o[q].member) = Len(obj[q].member)
        /\ \A g \in DOMAIN obj[q].member :
             o[q].member[g] = IF <<q, g>> \in F THEN FixedWeak(obj[q].member[g]) ELSE obj[q].member[g]
    BY DEF Weakened
  <2>1. CASE q = p
    <3>1. \A g \in DOMAIN obj[q].member : g # f => u[q].member[g] = o[q].member[g] /\ <<q, g>> # l
      BY <1>1, <1>4, <1>6, <2>0, <2>1 DEF SetAt
    <3>2. u[q].member[f] = w /\ <<q, f>> = l
      BY <1>1, <1>4, <1>6, <2>1 DEF SetAt
    <3>3. \A g \in DOMAIN obj[q].member :
            u[q].member[g] = IF <<q, g>> \in F \cup {l} THEN FixedWeak(obj[q].member[g])
                             ELSE obj[q].member[g]
      BY <2>0, <2>1, <3>1, <3>2 DEF w, v
    <3>4. QED BY <1>6, <1>8, <2>0, <2>1, <3>3
  <2>2. CASE q # p
    <3>1. \A g : <<q, g>> # l
      BY <1>1, <2>2
    <3>2. u[q] = o[q]
      BY <1>4, <1>6, <2>2
    <3>3. QED BY <1>8, <2>0, <3>1, <3>2
  <2>3. QED BY <2>1, <2>2
<1>11. Weakened(u, F \cup {l})
  BY <1>4, <1>6, <1>10 DEF Weakened
<1>12. QED BY <1>5, <1>9, <1>11

LEMMA AllWeakened ==
  ASSUME HeapInv, phase = "move"
  PROVE  Weakened(FoldLeft(FixedAt, obj, weak), Range(weak))
<1> DEFINE n == Len(weak)
           Prefix(i) == {weak[j] : j \in 1 .. i}
           All == {obj} \cup [DOMAIN obj -> AllocationRecord]
           J == [i \in 0 .. n |-> {x \in All : Weakened(x, Prefix(i))}]
<1>1. /\ n \in Nat /\ DOMAIN weak = 1 .. n
      /\ \A i \in 1 .. n : weak[i] \in Range(weak)
      /\ \A i, j \in 1 .. n : weak[i] = weak[j] => i = j
      /\ Prefix(n) = Range(weak)
  <2>1. weak \in Seq(Location) /\ IsInjective(weak)
    BY InvFacts DEF RegistersOK
  <2>2. n \in Nat /\ DOMAIN weak = 1 .. n
    BY <2>1, LenProperties
  <2>3. QED BY <2>1, <2>2 DEF IsInjective, Range
<1>2. obj \in J[0]
  <2>1. Prefix(0) = {}
    OBVIOUS
  <2>2. 0 \in 0 .. n
    BY <1>1
  <2>3. \A p \in DOMAIN obj : obj[p] \in AllocationRecord
    BY InvFacts, ObjFacts
  <2>4. Weakened(obj, {})
    BY <2>3 DEF Weakened
  <2>5. QED BY <2>1, <2>2, <2>4
<1>3. ASSUME NEW i \in 1 .. n, NEW x \in J[i - 1]
      PROVE  FixedAt(x, weak[i]) \in J[i]
  <2> DEFINE l == weak[i]
  <2>1. /\ i \in 0 .. n /\ i - 1 \in 0 .. n /\ i \in Nat
        /\ Weakened(x, Prefix(i - 1))
    BY <1>1, <1>3
  <2>2. Prefix(i) = Prefix(i - 1) \cup {l}
    <3>1. \A j : j \in 1 .. i <=> j \in 1 .. i - 1 \/ j = i
      BY <2>1, <1>3
    <3>2. QED BY <3>1
  <2>3. l \notin Prefix(i - 1)
    <3>1. \A j \in 1 .. i - 1 : j \in 1 .. n /\ j # i
      BY <2>1, <1>1
    <3>2. QED BY <1>1, <1>3, <3>1
  <2>4. WeakPending(l)
    BY <1>1, WeakOK
  <2> HIDE DEF l, Prefix
  <2>5. /\ Weakened(FixedAt(x, l), Prefix(i - 1) \cup {l})
        /\ FixedAt(x, l) \in [DOMAIN obj -> AllocationRecord]
    BY <2>1, <2>3, <2>4, WeakenedStep
  <2>6. J[i] = {y \in All : Weakened(y, Prefix(i))}
    BY <2>1
  <2>7. FixedAt(x, l) \in J[i]
    BY <2>2, <2>5, <2>6
  <2>8. QED BY <2>7 DEF l
<1>4. \A x \in J[n] : Weakened(x, Range(weak))
  <2>1. n \in 0 .. n
    BY <1>1
  <2>2. \A x \in J[n] : Weakened(x, Prefix(n))
    BY <2>1
  <2> HIDE DEF Prefix
  <2>3. QED BY <1>1, <2>2
<1>5. FoldLeft(FixedAt, obj, weak) = WeakFold!Folded(obj, weak)
  BY DEF FoldLeft, MapThenFoldSet, Max, WeakFold!Folded, WeakFold!Greatest
<1>6. \A i \in 1 .. n : \A x \in J[i - 1] : FixedAt(x, weak[i]) \in J[i]
  BY <1>3
<1> HIDE DEF J
<1>7. n \in Nat /\ DOMAIN weak = 1 .. n
  BY <1>1
<1>8. WeakFold!Folded(obj, weak) \in J[n]
  BY <1>2, <1>6, <1>7, WeakFold!FoldInduction
<1>9. QED BY <1>4, <1>5, <1>8

LEMMA FixWeakStep ==
  ASSUME HeapInv, FixWeak
  PROVE  StepOK
<1> USE HeapAssumption
<1>1. /\ phase = "move" /\ pending = <<>> /\ weak' = <<>> /\ phase' = "sweep"
      /\ obj' = FoldLeft(FixedAt, obj, weak)
      /\ UNCHANGED <<start, nextFree, toNext, root, pointers, pending>>
  BY DEF FixWeak
<1> DEFINE u == obj'
           F == Range(weak)
<1>2. Weakened(u, F)
  BY <1>1, AllWeakened
<1>3. \A l \in F : WeakPending(l)
  BY <1>1, WeakOK
<1>4. WeakFixups = F
  BY DEF WeakFixups
<1> HIDE DEF u, F
<1>5. \A p \in DOMAIN obj : p \in Pos /\ p \in Places /\ p # 0 /\ WellMade(obj[p]) /\ obj[p] \in AllocationRecord
  BY InvFacts, ObjFacts
<1>6. LayoutOK'
  <2>1. ASSUME NEW p \in DOMAIN obj
        PROVE  WellMade(u[p]) /\ u[p].size = obj[p].size /\ u[p].type = obj[p].type
    <3>1. /\ u[p] \in AllocationRecord
          /\ u[p].size = obj[p].size /\ u[p].type = obj[p].type
          /\ u[p].new = obj[p].new /\ u[p].id = obj[p].id
          /\ DOMAIN u[p].member = DOMAIN obj[p].member /\ Len(u[p].member) = Len(obj[p].member)
      BY <1>2 DEF Weakened
    <3>2. WellMade(obj[p])
      BY <1>5
    <3>3. u[p].type \notin Types => u[p].member = <<>>
      <4>1. ASSUME u[p].type \notin Types
            PROVE  u[p].member = <<>>
        <5>1. obj[p].member = <<>>
          BY <3>1, <3>2, <4>1 DEF WellMade
        <5>2. u[p].member \in Seq(Ptr) /\ Len(u[p].member) = 0
          BY <3>1, <5>1 DEF AllocationRecord
        <5>3. QED BY <5>2, EmptySeq
      <4>2. QED BY <4>1
    <3>4. WellMade(u[p])
      BY <3>1, <3>2, <3>3 DEF WellMade
    <3>5. QED BY <3>1, <3>4
  <2>2. HalvesOK(start, nextFree, toNext, obj, "move") /\ DOMAIN u = DOMAIN obj
    BY <1>1, <1>2, InvFacts DEF Weakened
  <2>3. HalvesOK(start, nextFree, toNext, u, "sweep")
    BY <2>1, <2>2, HalvesSame
  <2>4. QED BY <1>1, <2>3 DEF LayoutOK, u
<1>7. RegistersOK'
  <2>1. ASSUME NEW p \in DOMAIN obj
        PROVE  HeldBy(u, p) = HeldBy(obj, p)
    <3>1. /\ u[p].type = obj[p].type /\ DOMAIN u[p].member = DOMAIN obj[p].member
          /\ \A f \in DOMAIN obj[p].member :
               u[p].member[f] = IF <<p, f>> \in F THEN FixedWeak(obj[p].member[f]) ELSE obj[p].member[f]
      BY <1>2 DEF Weakened
    <3>2. \A f \in DOMAIN obj[p].member : <<p, f>> \in F => Layout[obj[p].type][f] = "weak"
      BY <1>3 DEF WeakPending
    <3>3. \A f \in DOMAIN obj[p].member :
            Layout[obj[p].type][f] \in {"tracked"} => u[p].member[f] = obj[p].member[f]
      BY <3>1, <3>2
    <3>4. {g \in DOMAIN u[p].member : Layout[u[p].type][g] \in {"tracked"} /\ u[p].member[g] # 0}
            = {g \in DOMAIN obj[p].member : Layout[obj[p].type][g] \in {"tracked"} /\ obj[p].member[g] # 0}
      BY <3>1, <3>3
    <3>5. QED BY <3>4 DEF HeldBy, MembersOf
  <2>2. DOMAIN u = DOMAIN obj
    BY <1>2 DEF Weakened
  <2>3. HeldOf(u, root) = HeldOf(obj, root)
    BY <2>1, <2>2 DEF HeldOf
  <2>4. weak' \in Seq(Location) /\ IsInjective(weak')
    BY <1>1, EmptyLists, SeqMonotonic DEF Lists
  <2>5. QED BY <1>1, <2>3, <2>4, InvFacts DEF RegistersOK, u
<1>8. Collector!FixWeak
  <2>1. Collector!Pos = Places
    BY InvFacts, ViewHalves
  <2>2. \A p \in Places : Present(u, p) <=> Present(obj, p)
    <3>1. DOMAIN u = DOMAIN obj /\ \A p \in DOMAIN obj : u[p].type = obj[p].type
      BY <1>2 DEF Weakened
    <3>2. QED BY <3>1 DEF Present
  <2>3. \A p \in Places : Present(obj, p) =>
          p \in DOMAIN obj /\ u[p].type = obj[p].type /\ u[p].id = obj[p].id /\ u[p].new = obj[p].new
    BY <1>2 DEF Weakened, Present
  <2>4. TypeAt' = TypeAt /\ IdAt' = IdAt /\ NewPosAt' = NewPosAt
    <3>1. TypeView(u) = TypeView(obj)
      BY <2>2, <2>3 DEF TypeView
    <3>2. IdView(u) = IdView(obj)
      BY <2>2, <2>3 DEF IdView
    <3>3. NewView(u) = NewView(obj)
      BY <2>2, <2>3 DEF NewView
    <3>4. QED BY <3>1, <3>2, <3>3, View, ViewNext DEF u
  <2>5. ASSUME NEW p \in Places, NEW f \in Members
        PROVE  FieldsView(u)[p][f]
                 = IF <<p, f>> \in F THEN Collector!FixedWeak(FieldsAt[p][f]) ELSE FieldsAt[p][f]
    <3>1. CASE ~Present(obj, p)
      <4>1. <<p, f>> \notin F
        BY <1>3, <3>1 DEF WeakPending, Present
      <4>2. FieldsView(u)[p][f] = 0
        BY <2>2, <3>1 DEF FieldsView, None
      <4>3. FieldsAt[p][f] = 0
        BY <3>1, InvFacts, ObjFacts DEF None
      <4>4. QED BY <4>1, <4>2, <4>3
    <3>2. CASE Present(obj, p)
      <4>1. /\ FieldsAt[p] = MembersIn(obj[p]) /\ FieldsView(u)[p] = MembersIn(u[p])
            /\ p \in DOMAIN obj
        BY <2>2, <3>2, InvFacts, ObjFacts DEF FieldsView, Present
      <4>2. DOMAIN u[p].member = DOMAIN obj[p].member
        BY <1>2, <4>1 DEF Weakened
      <4>3. CASE f \notin DOMAIN obj[p].member
        <5>1. <<p, f>> \notin F
          BY <1>3, <4>3 DEF WeakPending
        <5>2. QED BY <4>1, <4>2, <4>3, <5>1 DEF MembersIn
      <4>4. CASE f \in DOMAIN obj[p].member
        <5> DEFINE v == obj[p].member[f]
        <5>1. u[p].member[f] = IF <<p, f>> \in F THEN FixedWeak(v) ELSE v
          BY <1>2, <4>1, <4>4 DEF Weakened
        <5>2. FieldsAt[p][f] = v /\ FieldsView(u)[p][f] = u[p].member[f]
          BY <4>1, <4>2, <4>4 DEF MembersIn
        <5>3. <<p, f>> \in F => FixedWeak(v) = Collector!FixedWeak(v)
          <6>1. ASSUME <<p, f>> \in F
                PROVE  FixedWeak(v) = Collector!FixedWeak(v)
            <7>1. v \in OldPlaces /\ v \in DOMAIN obj /\ obj[v].type \in Types \cup {Moved}
              BY <1>3, <6>1 DEF WeakPending
            <7>2. Present(obj, v) /\ v \in Places
              BY <7>1 DEF Present, OldPlaces
            <7> HIDE DEF v
            <7>3. TypeAt[v] = obj[v].type /\ NewPosAt[v] = obj[v].new
              BY <7>2, InvFacts, ObjFacts
            <7>4. QED BY <7>3 DEF FixedWeak, Collector!FixedWeak
          <6>2. QED BY <6>1
        <5> HIDE DEF v
        <5>4. QED BY <5>1, <5>2, <5>3
      <4>5. QED BY <4>3, <4>4
    <3>3. QED BY <3>1, <3>2
  <2>6. FieldsView(u) = [p \in Places |-> [f \in Members |->
          IF <<p, f>> \in F THEN Collector!FixedWeak(FieldsAt[p][f]) ELSE FieldsAt[p][f]]]
    <3>1. \A p \in Places : FieldsView(u)[p] = [f \in Members |-> FieldsView(u)[p][f]]
      BY DEF FieldsView, MembersIn, None
    <3>2. FieldsView(u) = [p \in Places |-> FieldsView(u)[p]]
      BY DEF FieldsView
    <3>3. FieldsView(u) = [p \in Places |-> [f \in Members |-> FieldsView(u)[p][f]]]
      BY <3>1, <3>2
    <3> DEFINE A(p, f) == FieldsView(u)[p][f]
               B(p, f) == IF <<p, f>> \in F THEN Collector!FixedWeak(FieldsAt[p][f]) ELSE FieldsAt[p][f]
    <3>4. \A p \in Places, f \in Members : A(p, f) = B(p, f)
      BY <2>5
    <3>5. FieldsView(u) = [p \in Places |-> [f \in Members |-> A(p, f)]]
      BY <3>3
    <3> HIDE DEF A, B
    <3>6. FieldsView(u) = [p \in Places |-> [f \in Members |-> B(p, f)]]
      BY <3>4, <3>5
    <3>7. QED BY <3>6 DEF B
  <2>7. FieldsAt' = [p \in Collector!Pos |-> [f \in Members |->
          IF <<p, f>> \in WeakFixups THEN Collector!FixedWeak(FieldsAt[p][f]) ELSE FieldsAt[p][f]]]
    BY <1>4, <2>1, <2>6, ViewNext DEF u
  <2>8. /\ PendingHandles = {} /\ PendingFields = {} /\ PendingHandles' = {} /\ PendingFields' = {}
        /\ WeakFixups' = {} /\ ActiveHalf' = ActiveHalf
    BY <1>1 DEF PendingHandles, PendingFields, WeakFixups, ActiveHalf, Range
  <2>9. QED BY <1>1, <2>4, <2>7, <2>8 DEF Collector!FixWeak
<1>9. QED BY <1>6, <1>7, <1>8 DEF StepOK, Collector!Next

-----------------------------------------------------------------------------
(* Every step keeps the layout and the registers, and is a step of the     *)
(* collection algorithm or none.                                           *)

LEMMA StutterStep ==
  ASSUME HeapInv, UNCHANGED vars
  PROVE  StepOK
<1> USE HeapAssumption
<1>1. UNCHANGED <<start, nextFree, toNext, obj, root, pointers, pending, weak, phase>>
  BY DEF vars
<1>2. LayoutOK'
  BY <1>1, InvFacts DEF LayoutOK
<1>3. RegistersOK'
  BY <1>1, InvFacts DEF RegistersOK
<1>4. TypeAt' = TypeAt /\ IdAt' = IdAt /\ FieldsAt' = FieldsAt /\ NewPosAt' = NewPosAt
  BY <1>1, View, ViewNext
<1>5. UNCHANGED Collector!vars
  BY <1>1, <1>4
  DEF Collector!vars, PendingHandles, PendingFields, WeakFixups, ActiveHalf
<1>6. QED BY <1>2, <1>3, <1>5 DEF StepOK

LEMMA HeapStep == HeapInv /\ [Next]_vars => StepOK
<1> SUFFICES ASSUME HeapInv, [Next]_vars PROVE StepOK
  OBVIOUS
<1>1. CASE UNCHANGED vars
  BY <1>1, StutterStep
<1>2. CASE ClientStep
  <2>1. CASE \E h \in Handles, t \in Types, x \in Ids :
               \E members \in [1 .. Len(Layout[t]) -> HandleValues] : Make(h, t, x, members)
    BY <2>1, MakeStep
  <2>2. CASE \E t \in Types : MakeThrows(t)
    BY <2>2, MakeThrowsStep
  <2>3. CASE \E h \in Handles : \E v \in {root[k] : k \in Handles \ {h}} \cup {0} : SetHandle(h, v)
    <3>1. PICK h \in Handles : \E v \in {root[k] : k \in Handles \ {h}} \cup {0} : SetHandle(h, v)
      BY <2>3
    <3>2. {root[k] : k \in Handles \ {h}} \cup {0} \subseteq HandleValues
      BY DEF HandleValues
    <3>3. QED BY <3>1, <3>2, SetHandleStep
  <2>4. CASE \E k \in Handles, v \in HandleValues :
               root[k] # 0 /\ \E f \in DOMAIN obj[root[k]].member : SetMember(root[k], f, v)
    BY <2>4, SetMemberStep
  <2>5. CASE \E h, k \in Handles :
               root[k] # 0 /\ \E f \in DOMAIN obj[root[k]].member : Track(h, root[k], f)
    BY <2>5, TrackStep
  <2>6. QED BY <1>2, <2>1, <2>2, <2>3, <2>4, <2>5 DEF ClientStep
<1>3. CASE GcBegin
  BY <1>3, GcBeginStep
<1>4. CASE GcNoRoots
  BY <1>4, GcNoRootsStep
<1>5. CASE CollectorStep
  BY <1>5, FixupMoveStep, FixupForwardStep, FixWeakStep, SweepStep DEF CollectorStep
<1>6. QED BY <1>1, <1>2, <1>3, <1>4, <1>5 DEF Next

-----------------------------------------------------------------------------
(* The collection algorithm, as CopyCollectorProofs proves it.             *)

Proved == INSTANCE CopyCollectorProofs WITH
  Fields <- Members,
  StrongOf <- OfKind({"tracked", "strong"}),
  WeakOf <- OfKind({"weak"}),
  Half0 <- 1 .. Half - 1,
  Half1 <- Half + 1 .. 2 * Half - 1,
  Null <- 0,
  type <- TypeAt,
  id <- IdAt,
  fld <- FieldsAt,
  newPos <- NewPosAt,
  active <- ActiveHalf,
  pendingHandles <- PendingHandles,
  pendingFields <- PendingFields,
  weakFixups <- WeakFixups

LEMMA SameSets ==
  /\ Collector!Pos = Proved!Pos /\ Collector!Ptr = Proved!Ptr
  /\ Collector!From = Proved!From /\ Collector!To = Proved!To
  /\ \A t : Collector!PointersOf(t) = Proved!PointersOf(t)
  /\ Collector!HandleValues = Proved!HandleValues
  /\ Collector!NoFields = Proved!NoFields
  /\ \A p : Collector!IsObject(p) <=> Proved!IsObject(p)
<1>1. Collector!Pos = Proved!Pos /\ Collector!Ptr = Proved!Ptr
  BY DEF Collector!Pos, Proved!Pos, Collector!Ptr, Proved!Ptr
<1>2. Collector!From = Proved!From /\ Collector!To = Proved!To
  BY DEF Collector!From, Proved!From, Collector!To, Proved!To, Collector!HalfOf, Proved!HalfOf
<1>3. \A t : Collector!PointersOf(t) = Proved!PointersOf(t)
  BY DEF Collector!PointersOf, Proved!PointersOf
<1>4. Collector!HandleValues = Proved!HandleValues /\ Collector!NoFields = Proved!NoFields
  BY DEF Collector!HandleValues, Proved!HandleValues, Collector!NoFields, Proved!NoFields
<1>5. \A p : Collector!IsObject(p) <=> Proved!IsObject(p)
  BY DEF Collector!IsObject, Proved!IsObject
<1>6. QED BY <1>1, <1>2, <1>3, <1>4, <1>5

LEMMA SameInv == Collector!IInv <=> Proved!IInv
<1>1. Collector!TypeOK <=> Proved!TypeOK
  BY SameSets DEF Collector!TypeOK, Proved!TypeOK
<1>2. Collector!OnlyMembers <=> Proved!OnlyMembers
  BY SameSets DEF Collector!OnlyMembers, Proved!OnlyMembers
<1>3. Collector!PendingWellFormed <=> Proved!PendingWellFormed
  BY SameSets DEF Collector!PendingWellFormed, Proved!PendingWellFormed
<1>4. Collector!MutateInv <=> Proved!MutateInv
  BY SameSets DEF Collector!MutateInv, Proved!MutateInv
<1>5. /\ \A v : Collector!OldRef(v) <=> Proved!OldRef(v)
      /\ \A v : Collector!NewRef(v) <=> Proved!NewRef(v)
      /\ \A v : Collector!UsedRef(v) <=> Proved!UsedRef(v)
  BY SameSets DEF Collector!OldRef, Proved!OldRef, Collector!NewRef, Proved!NewRef,
    Collector!UsedRef, Proved!UsedRef
<1>6. Collector!MoveInv <=> Proved!MoveInv
  BY SameSets, <1>5 DEF Collector!MoveInv, Proved!MoveInv
<1>7. Collector!SweepInv <=> Proved!SweepInv
  BY SameSets, <1>5 DEF Collector!SweepInv, Proved!SweepInv
<1>8. Collector!NoDangling <=> Proved!NoDangling
  BY SameSets, <1>5 DEF Collector!NoDangling, Proved!NoDangling
<1>9. QED BY <1>1, <1>2, <1>3, <1>4, <1>6, <1>7, <1>8 DEF Collector!IInv, Proved!IInv

LEMMA SameInvNext == (Collector!IInv)' <=> (Proved!IInv)'
  BY SameInv, PTL

LEMMA ProvedNext == Proved!IInv /\ [Proved!Next]_(Proved!vars) => Proved!IInv'
<1>1. 0 \notin Proved!Pos
  BY ViewConstants DEF Proved!Pos
<1>2. QED BY <1>1, ViewConstants, Proved!NextIInv

LEMMA ProvedInit == Proved!Init => Proved!IInv
<1>1. 0 \notin Proved!Pos
  BY ViewConstants DEF Proved!Pos
<1>2. QED BY <1>1, ViewConstants, Proved!InitIInv

LEMMA SameVars == Collector!vars = Proved!vars /\ Collector!gcVars = Proved!gcVars
  BY DEF Collector!vars, Proved!vars, Collector!gcVars, Proved!gcVars

LEMMA SameInit == Collector!Init <=> Proved!Init
  BY SameSets DEF Collector!Init, Proved!Init

LEMMA SameClientStep == Collector!ClientStep => Proved!ClientStep
<1> HIDE DEF Collector!vars
<1>1. \A h, t, x, p, i : Collector!Make(h, t, x, p, i) => Proved!Make(h, t, x, p, i)
  BY SameSets DEF Collector!Make, Proved!Make, Collector!gcVars, Proved!gcVars
<1>2. \A h, v : Collector!SetHandle(h, v) => Proved!SetHandle(h, v)
  BY DEF Collector!SetHandle, Proved!SetHandle, Collector!gcVars, Proved!gcVars
<1>3. \A p, f, v : Collector!SetField(p, f, v) => Proved!SetField(p, f, v)
  BY SameSets DEF Collector!SetField, Proved!SetField, Collector!gcVars, Proved!gcVars
<1>4. \A h, p, f : Collector!Track(h, p, f) => Proved!Track(h, p, f)
  BY SameSets DEF Collector!Track, Proved!Track, Collector!gcVars, Proved!gcVars
<1>5. QED BY SameSets, <1>1, <1>2, <1>3, <1>4 DEF Collector!ClientStep, Proved!ClientStep

LEMMA SameRelease == Collector!ReleaseFrom => Proved!ReleaseFrom
  BY SameSets DEF Collector!ReleaseFrom, Proved!ReleaseFrom, Collector!Released, Proved!Released

LEMMA SameFixupStep == Collector!FixupStep => Proved!FixupStep
<1>1. /\ \A p, q : Collector!StrongPointers(q, p) = Proved!StrongPointers(q, p)
      /\ \A p, q : Collector!WeakPointers(q, p) = Proved!WeakPointers(q, p)
      /\ \A p, q : Collector!Copied(p, q) = Proved!Copied(p, q)
  BY SameSets DEF Collector!StrongPointers, Proved!StrongPointers, Collector!WeakPointers,
    Proved!WeakPointers, Collector!Copied, Proved!Copied
<1>2. \A p, q : Collector!Relocate(p, q) => Proved!Relocate(p, q)
  BY SameSets, <1>1 DEF Collector!Relocate, Proved!Relocate
<1>3. \A p, q : Collector!Forward(p, q) => Proved!Forward(p, q)
  BY DEF Collector!Forward, Proved!Forward
<1>4. \A h, q : Collector!FixHandle(h, q) => Proved!FixHandle(h, q)
  BY DEF Collector!FixHandle, Proved!FixHandle
<1>5. \A p, f, q : Collector!FixField(p, f, q) => Proved!FixField(p, f, q)
  BY DEF Collector!FixField, Proved!FixField
<1>6. \A h, q : Collector!FixHandleMove(h, q) => Proved!FixHandleMove(h, q)
  BY <1>1, <1>2, <1>4 DEF Collector!FixHandleMove, Proved!FixHandleMove
<1>7. \A h, q : Collector!FixHandleForward(h, q) => Proved!FixHandleForward(h, q)
  BY <1>3, <1>4 DEF Collector!FixHandleForward, Proved!FixHandleForward
<1>8. \A p, f, q : Collector!FixFieldMove(p, f, q) => Proved!FixFieldMove(p, f, q)
  BY <1>1, <1>2, <1>5 DEF Collector!FixFieldMove, Proved!FixFieldMove
<1>9. \A p, f, q : Collector!FixFieldForward(p, f, q) => Proved!FixFieldForward(p, f, q)
  BY <1>3, <1>5 DEF Collector!FixFieldForward, Proved!FixFieldForward
<1>10. QED BY SameSets, <1>6, <1>7, <1>8, <1>9 DEF Collector!FixupStep, Proved!FixupStep

LEMMA SameNext == [Collector!Next]_(Collector!vars) => [Proved!Next]_(Proved!vars)
<1>1. Collector!HandlesInUse = Proved!HandlesInUse
  BY DEF Collector!HandlesInUse, Proved!HandlesInUse
<1>2. Collector!GcBegin => Proved!GcBegin
  BY <1>1 DEF Collector!GcBegin, Proved!GcBegin
<1>3. Collector!GcNoRoots => Proved!GcNoRoots
  BY <1>1, SameRelease DEF Collector!GcNoRoots, Proved!GcNoRoots, Collector!gcVars, Proved!gcVars
<1>4. Collector!FixWeak => Proved!FixWeak
  BY SameSets DEF Collector!FixWeak, Proved!FixWeak, Collector!FixedWeak, Proved!FixedWeak
<1>5. Collector!Sweep => Proved!Sweep
  BY SameRelease DEF Collector!Sweep, Proved!Sweep
<1>6. Collector!Next => Proved!Next
  BY <1>2, <1>3, <1>4, <1>5, SameClientStep, SameFixupStep DEF Collector!Next, Proved!Next
<1>7. UNCHANGED Collector!vars => UNCHANGED Proved!vars
  BY DEF Collector!vars, Proved!vars
<1>8. QED BY <1>6, <1>7

-----------------------------------------------------------------------------

LEMMA InitView == Init => LayoutOK /\ RegistersOK /\ Collector!Init
<1> SUFFICES ASSUME Init PROVE LayoutOK /\ RegistersOK /\ Collector!Init
  OBVIOUS
<1> USE HeapAssumption
<1>1. /\ start = 0 /\ nextFree = 0 /\ toNext = 0 /\ DOMAIN obj = {}
      /\ root = [h \in Handles |-> 0]
      /\ pointers = <<>> /\ pending = <<>> /\ weak = <<>> /\ phase = "mutate"
  BY DEF Init
<1>2. LayoutOK
  <2>1. Here(obj, 0) = {}
    BY <1>1 DEF Here
  <2>2. Laid(obj, 0, 0)
    BY <2>1, LaidNone
  <2>3. HalvesOK(0, 0, 0, obj, "mutate")
    BY <1>1, <2>2 DEF HalvesOK
  <2>4. QED BY <1>1, <2>3 DEF LayoutOK
<1>3. RegistersOK
  <2>1. HeldOf(obj, root) = {}
    BY <1>1 DEF HeldOf, HandlesHeld
  <2>2. <<>> \in Seq(Location) /\ IsInjective(<<>>)
    BY EmptyLists DEF Lists
  <2>3. root \in [Handles -> Ptr]
    BY <1>1 DEF Ptr
  <2>4. QED BY <1>1, <2>1, <2>2, <2>3, EmptyLists DEF RegistersOK
<1>4. Collector!Init
  <2>1. Collector!Pos = Places
    BY <1>1, ViewHalves
  <2>2. \A p : ~Present(obj, p)
    BY <1>1 DEF Present
  <2>3. TypeView(obj) = [p \in Places |-> Free] /\ IdView(obj) = [p \in Places |-> 0]
    BY <2>2 DEF TypeView, IdView
  <2>4. FieldsView(obj) = [p \in Places |-> None] /\ NewView(obj) = [p \in Places |-> 0]
    BY <2>2 DEF FieldsView, NewView
  <2>5. Collector!NoFields = None
    BY DEF Collector!NoFields, None
  <2>6. ActiveHalf = 0 /\ PendingHandles = {} /\ PendingFields = {} /\ WeakFixups = {}
    BY <1>1 DEF ActiveHalf, PendingHandles, PendingFields, WeakFixups, Range
  <2>7. QED BY <1>1, <2>1, <2>3, <2>4, <2>5, <2>6, View DEF Collector!Init
<1>5. QED BY <1>2, <1>3, <1>4

LEMMA InitHeapInv == Init => HeapInv
  BY InitView, SplitInv, SameInit, ProvedInit, SameInv

LEMMA NextHeapInv == HeapInv /\ [Next]_vars => HeapInv'
<1> SUFFICES ASSUME HeapInv, [Next]_vars PROVE HeapInv'
  OBVIOUS
<1>1. LayoutOK' /\ RegistersOK' /\ [Collector!Next]_(Collector!vars)
  BY HeapStep DEF StepOK
<1>2. Proved!IInv
  BY InvFacts, SameInv
<1>3. Proved!IInv'
  BY <1>1, <1>2, SameNext, ProvedNext
<1>4. (Collector!IInv)'
  BY <1>3, SameInvNext
<1>5. QED BY <1>1, <1>4, SplitInvNext

LEMMA LocationCases ==
  ASSUME HeapInv, NEW l \in Locations
  PROVE  \/ \E h \in Handles : l = <<0, h>> /\ Value(l) = root[h] /\ ~IsWeak(l)
         \/ \E p \in Places, f \in Members :
              /\ l = <<p, f>> /\ Value(l) = obj[p].member[f]
              /\ p \in DOMAIN obj /\ IsObject(p) /\ f \in DOMAIN obj[p].member
              /\ FieldsAt[p][f] = obj[p].member[f]
              /\ IsWeak(l) <=> Layout[obj[p].type][f] = "weak"
<1> USE HeapAssumption
<1>1. CASE l \in {0} \X Handles
  <2>1. PICK h \in Handles : l = <<0, h>>
    BY <1>1
  <2>2. Value(l) = root[h] /\ ~IsWeak(l)
    BY <2>1 DEF Value, ValueAt, IsWeak
  <2>3. QED BY <2>1, <2>2
<1>2. CASE l \in UNION {{p} \X DOMAIN obj[p].member : p \in DOMAIN obj}
  <2>1. PICK p \in DOMAIN obj : l \in {p} \X DOMAIN obj[p].member
    BY <1>2
  <2>2. PICK f \in DOMAIN obj[p].member : l = <<p, f>>
    BY <2>1
  <2>3. p \in Places /\ p # 0 /\ WellMade(obj[p])
    BY InvFacts, ObjFacts
  <2>4. obj[p].type \in Types
    <3>1. obj[p].type \notin Types => obj[p].member = <<>>
      BY <2>3 DEF WellMade
    <3>2. QED BY <2>2, <3>1
  <2>5. IsObject(p) /\ Present(obj, p)
    BY <2>4 DEF IsObject, Present
  <2>6. f \in Members /\ FieldsAt[p][f] = obj[p].member[f]
    BY <2>2, <2>3, <2>4, <2>5, InvFacts, ObjFacts, MembersOfObject
  <2>7. Value(l) = obj[p].member[f] /\ (IsWeak(l) <=> Layout[obj[p].type][f] = "weak")
    BY <2>2, <2>3 DEF Value, ValueAt, IsWeak
  <2>8. QED BY <2>2, <2>3, <2>5, <2>6, <2>7
<1>3. QED BY <1>1, <1>2 DEF Locations

LEMMA FixupsOK == HeapInv => FixupsExact
<1> SUFFICES ASSUME HeapInv, phase = "move"
             PROVE  /\ IsInjective(pending \o weak)
                    /\ Range(pending) = {l \in StaleLocations : ~IsWeak(l)}
                    /\ Range(weak) = {l \in StaleLocations : IsWeak(l)}
  BY DEF FixupsExact
<1> USE HeapAssumption
<1>1. /\ Collector!Pos = Places /\ Collector!From = OldPlaces /\ Collector!To = NewPlaces
      /\ \A p \in Places : TypeAt[p] \in Types <=> IsObject(p)
      /\ \A p \in OldPlaces : p \in Places /\ InHalf(p, start)
      /\ \A p \in NewPlaces : p \in Places /\ p # 0 /\ ~InHalf(p, start) /\ InHalf(p, Half - start)
      /\ ~InHalf(0, start) /\ \A v \in NewPlaces : v \notin OldPlaces
  <2>1. start \in {0, Half} /\ Half \in Nat
    BY InvFacts, OtherHalf
  <2>2. ~InHalf(0, start)
    BY <2>1 DEF InHalf
  <2>3. \A p \in Pos : ~(InHalf(p, start) /\ InHalf(p, Half - start))
    BY <2>1, OtherHalf
  <2>4. QED BY <2>2, <2>3, InvFacts, ViewHalves, ObjFacts DEF OldPlaces, NewPlaces, Places
<1>2. ASSUME NEW l \in Range(pending)
      PROVE  l \in StaleLocations /\ ~IsWeak(l)
  <2>1. /\ HandlePending(l) \/ FieldPending(l)
        /\ Value(l) \in OldPlaces /\ Value(l) # 0
    BY PendingOK
  <2>2. CASE HandlePending(l)
    <3>1. PICK h \in Handles : l = <<0, h>>
      BY <2>2 DEF HandlePending
    <3>2. l[1] = 0 /\ l \in Locations
      BY <3>1 DEF Locations
    <3>3. QED BY <1>1, <2>1, <3>2 DEF StaleLocations, IsWeak
  <2>3. CASE FieldPending(l)
    <3>1. PICK p \in NewPlaces, f \in Members :
            /\ l = <<p, f>> /\ p \in DOMAIN obj /\ f \in DOMAIN obj[p].member
            /\ Layout[obj[p].type][f] \in {"tracked", "strong"}
      BY <2>3 DEF FieldPending
    <3>2. l[1] = p /\ l[2] = f /\ l \in Locations
      BY <3>1 DEF Locations
    <3>3. QED BY <1>1, <2>1, <3>1, <3>2 DEF StaleLocations, IsWeak
  <2>4. QED BY <2>1, <2>2, <2>3
<1>3. ASSUME NEW l \in Range(weak)
      PROVE  l \in StaleLocations /\ IsWeak(l)
  <2>1. PICK p \in NewPlaces, f \in Members :
          /\ l = <<p, f>>
          /\ p \in DOMAIN obj /\ f \in DOMAIN obj[p].member
          /\ Layout[obj[p].type][f] = "weak" /\ obj[p].member[f] # 0
          /\ obj[p].member[f] \in OldPlaces
    BY WeakOK DEF WeakPending
  <2>2. l[1] = p /\ l[2] = f /\ l \in Locations /\ p # 0
    BY <1>1, <2>1 DEF Locations
  <2>3. Value(l) = obj[p].member[f]
    BY <2>2 DEF Value, ValueAt
  <2>4. QED BY <1>1, <2>1, <2>2, <2>3 DEF StaleLocations, IsWeak
<1>4. ASSUME NEW l \in StaleLocations
      PROVE  l \in Range(pending) \cup Range(weak)
  <2>1. l \in Locations /\ ~InHalf(l[1], start) /\ Value(l) # 0 /\ InHalf(Value(l), start)
    BY DEF StaleLocations
  <2>2. ~Collector!NewRef(Value(l))
    BY <1>1, <2>1 DEF Collector!NewRef
  <2>3. CASE \E h \in Handles : l = <<0, h>> /\ Value(l) = root[h]
    <3>1. PICK h \in Handles : l = <<0, h>> /\ Value(l) = root[h]
      BY <2>3
    <3>2. h \in PendingHandles
      BY <2>2, <3>1, InvFacts DEF Collector!IInv, Collector!MoveInv
    <3>3. QED BY <3>1, <3>2 DEF PendingHandles
  <2>4. CASE \E p \in Places, f \in Members :
               /\ l = <<p, f>> /\ Value(l) = obj[p].member[f]
               /\ p \in DOMAIN obj /\ IsObject(p)
               /\ FieldsAt[p][f] = obj[p].member[f]
    <3>1. PICK p \in Places, f \in Members :
               /\ l = <<p, f>> /\ Value(l) = obj[p].member[f]
               /\ p \in DOMAIN obj /\ IsObject(p)
               /\ FieldsAt[p][f] = obj[p].member[f]
      BY <2>4
    <3>2. InHalf(p, Half - start)
      BY <2>1, <3>1, InvFacts DEF HalvesOK
    <3>3. p \in NewPlaces /\ TypeAt[p] \in Types
      BY <1>1, <3>1, <3>2 DEF NewPlaces
    <3>4. <<p, f>> \in PendingFields \cup WeakFixups
      BY <1>1, <2>2, <3>1, <3>3, InvFacts DEF Collector!IInv, Collector!MoveInv, Collector!IsObject
    <3>5. QED BY <3>1, <3>4 DEF PendingFields, WeakFixups
  <2>5. QED BY <2>1, <2>3, <2>4, LocationCases
<1>5. Range(pending) = {l \in StaleLocations : ~IsWeak(l)} /\ Range(weak) = {l \in StaleLocations : IsWeak(l)}
  BY <1>2, <1>3, <1>4
<1>6. IsInjective(pending \o weak)
  <2> DEFINE P == Range(pending)
             W == Range(weak)
  <2>1. Lists(pending, P) /\ Lists(weak, W)
    BY InvFacts, ListsItsRange DEF RegistersOK
  <2>2. P \cap W = {}
    BY <1>2, <1>3
  <2> HIDE DEF P, W
  <2>3. Lists(pending \o weak, P \cup W)
    BY <2>1, <2>2, ConcatLists
  <2>4. QED BY <2>3 DEF Lists
<1>7. QED BY <1>5, <1>6

LEMMA MoveFitsOK == HeapInv => MoveFits
<1> SUFFICES ASSUME HeapInv, phase = "move", pending # <<>>, IsObject(Value(Last(pending)))
             PROVE  Fits(toNext, ToStart + Half, obj[Value(Last(pending))].size)
  BY DEF MoveFits
<1> DEFINE p == Value(Last(pending))
           n == obj[p].size
           c == (Half - start) + Half
<1>1. p \in OldPlaces /\ p \in DOMAIN obj
  BY LastPending, PendingOK
<1> HIDE DEF p
<1>2. p \in Here(obj, start) /\ obj[p].type \in Types
  BY <1>1 DEF Here, OldPlaces, IsObject, p
<1>3. HalvesOK(start, nextFree, toNext, obj, "move")
  BY InvFacts
<1>4. toNext + n <= c
  BY <1>2, <1>3, RoomLeft
<1>5. n \in 1 .. Half /\ toNext \in Nat /\ Half \in Nat /\ Half - start \in Nat /\ c \in Nat
  <2>1. Half \in Nat /\ Half - start \in Nat
    BY InvFacts, OtherHalf
  <2>2. n \in 1 .. Half
    BY <1>1, InvFacts, ObjFacts DEF AllocationRecord
  <2>3. toNext \in Nat
    BY <1>3, <2>1 DEF HalvesOK
  <2>4. QED BY <2>1, <2>2, <2>3
<1>6. n <= c /\ toNext <= c - n
  BY <1>4, <1>5
<1> HIDE DEF n
<1>7. Fits(toNext, c, n)
  BY <1>6 DEF Fits
<1>8. QED BY <1>7 DEF n, p, ToStart

LEMMA NoDanglingOK == HeapInv => NoDanglingPointer
<1> SUFFICES ASSUME HeapInv, phase = "mutate", NEW l \in Locations, Value(l) # 0
             PROVE  IsObject(Value(l)) /\ Value(l) \in start + 1 .. nextFree - 1
  BY DEF NoDanglingPointer
<1> USE HeapAssumption
<1> DEFINE v == Value(l)
<1>1. /\ Collector!Pos = Places /\ Collector!Ptr = Places \cup {0}
      /\ \A p \in Places : TypeAt[p] \in Types <=> IsObject(p)
  BY InvFacts, ViewHalves, ObjFacts
<1>2. v \in Places /\ IsObject(v)
  <2>1. CASE \E h \in Handles : l = <<0, h>> /\ Value(l) = root[h]
    BY <2>1, HandleObject
  <2>2. CASE \E p \in Places, f \in Members :
               /\ l = <<p, f>> /\ Value(l) = obj[p].member[f]
               /\ p \in DOMAIN obj /\ IsObject(p)
               /\ FieldsAt[p][f] = obj[p].member[f]
    <3>1. PICK p \in Places, f \in Members :
               /\ l = <<p, f>> /\ Value(l) = obj[p].member[f]
               /\ p \in DOMAIN obj /\ IsObject(p)
               /\ FieldsAt[p][f] = obj[p].member[f]
      BY <2>2
    <3>2. FieldsAt \in [Places -> [Members -> Places \cup {0}]]
      BY <1>1, InvFacts DEF Collector!IInv, Collector!TypeOK
    <3>3. v \in Places
      BY <3>1, <3>2
    <3>4. Collector!UsedRef(FieldsAt[p][f])
      BY <1>1, <3>1, InvFacts DEF Collector!IInv, Collector!NoDangling, Collector!IsObject
    <3>5. QED BY <1>1, <3>1, <3>3, <3>4 DEF Collector!UsedRef, Collector!IsObject
  <2>3. QED BY <2>1, <2>2, LocationCases
<1> HIDE DEF v
<1>3. HalvesOK(start, nextFree, toNext, obj, "mutate")
  BY InvFacts
<1>4. v \in DOMAIN obj /\ obj[v].type \in Types /\ WellMade(obj[v]) /\ v \in Pos
  BY <1>2, InvFacts, ObjFacts DEF IsObject
<1>5. v \in Here(obj, start)
  BY <1>3, <1>4 DEF HalvesOK, Here
<1>6. v - 1 + obj[v].size <= nextFree
  <2>1. Laid(obj, start, nextFree)
    BY <1>3 DEF HalvesOK
  <2>2. QED BY <1>5, <2>1 DEF Laid
<1>7. obj[v].size \in Nat /\ obj[v].size > 1
  BY <1>4, SlotsOfType DEF WellMade
<1>8. start \in Nat /\ nextFree \in Nat /\ start < v
  <2>1. start \in Nat /\ Half \in Nat
    BY InvFacts, OtherHalf
  <2>2. QED BY <1>5, <2>1, InvFacts DEF Here, InHalf
<1>9. v \in start + 1 .. nextFree - 1
  BY <1>4, <1>6, <1>7, <1>8 DEF Pos
<1>10. QED BY <1>2, <1>9 DEF v

(* The inductive invariant of the heap, its layout, registers and          *)
(* collection together, in every state of every run.                       *)
THEOREM HeapInvariant == Spec => []HeapInv
<1>1. Init => HeapInv
  BY InitHeapInv
<1>2. HeapInv /\ [Next]_vars => HeapInv'
  BY NextHeapInv
<1>3. QED BY <1>1, <1>2, PTL DEF Spec

(* Both halves are tiled by their allocations, so that adding up sizes     *)
(* (run_destructors) visits each object and nothing else.                  *)
THEOREM HeapTiledAlways == Spec => []HeapTiled
<1>1. HeapInv => HeapTiled
  BY DEF HeapInv
<1>2. QED BY <1>1, HeapInvariant, PTL

(* pointers_ lists every attached tracked pointer, each of them once,      *)
(* whatever was erased from it by swapping, moved or destroyed.            *)
THEOREM PointersExactAlways == Spec => []PointersExact
<1>1. HeapInv => PointersExact
  BY DEF HeapInv
<1>2. QED BY <1>1, HeapInvariant, PTL

(* While objects move, what still holds an old position is registered for  *)
(* a fixup of its kind, exactly once, and nothing else is.                 *)
THEOREM FixupsExactAlways == Spec => []FixupsExact
  BY HeapInvariant, FixupsOK, PTL

(* The free half has room for whatever is still to be moved: the allocate  *)
(* of gc_move can not throw.                                               *)
THEOREM MoveFitsAlways == Spec => []MoveFits
  BY HeapInvariant, MoveFitsOK, PTL

(* Between collections no pointer dangles, and none refers past            *)
(* next_free_.                                                             *)
THEOREM NoDanglingPointerAlways == Spec => []NoDanglingPointer
  BY HeapInvariant, NoDanglingOK, PTL

(* The heap as laid out implements the collection algorithm: every step of *)
(* allocation, erase-by-swap, fixup stack and sweep is one of its steps.   *)
THEOREM HeapImplementsCollector == Spec => ImplementsCollector
<1>1. Init => Collector!Init
  BY InitView
<1>2. HeapInv /\ [Next]_vars => [Collector!Next]_(Collector!vars)
  BY HeapStep DEF StepOK
<1>3. QED BY <1>1, <1>2, HeapInvariant, PTL DEF Spec, ImplementsCollector, Collector!Spec
=============================================================================
