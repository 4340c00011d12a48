------------------------- MODULE StringCacheProofs -------------------------
(***************************************************************************)
(* The string cache shares recent names, for every capacity, any names and *)
(* any number of strings.                                                  *)
(***************************************************************************)
EXTENDS StringCache, SequenceTheorems, TLAPS

VisitFold == INSTANCE FoldProofs WITH Op <- Visit

USE CacheAssumption

-----------------------------------------------------------------------------
(* Sequences.                                                              *)

LEMMA Removed ==
  ASSUME NEW S, NEW s \in Seq(S), NEW i \in 1 .. Len(s)
  PROVE  /\ RemoveAt(s, i) \in Seq(S) /\ Len(RemoveAt(s, i)) = Len(s) - 1
         /\ DOMAIN RemoveAt(s, i) = 1 .. Len(s) - 1
         /\ \A j \in 1 .. Len(s) - 1 : RemoveAt(s, i)[j] = IF j < i THEN s[j] ELSE s[j + 1]
<1> DEFINE a == SubSeq(s, 1, i - 1)
           b == SubSeq(s, i + 1, Len(s))
<1>1. a \in Seq(S) /\ Len(a) = i - 1 /\ \A j \in 1 .. i - 1 : a[j] = s[j]
  BY SubSeqProperties
<1>2. b \in Seq(S) /\ Len(b) = Len(s) - i /\ \A j \in 1 .. Len(s) - i : b[j] = s[i + j]
  <2>1. CASE i + 1 <= Len(s)
    BY <2>1, SubSeqProperties
  <2>2. CASE i = Len(s)
    BY <2>2
  <2>3. QED BY <2>1, <2>2
<1>3. RemoveAt(s, i) = a \o b
  BY DEF RemoveAt
<1> HIDE DEF a, b
<1>4. /\ a \o b \in Seq(S) /\ Len(a \o b) = Len(a) + Len(b)
      /\ \A j \in 1 .. Len(a) + Len(b) : (a \o b)[j] = IF j <= Len(a) THEN a[j] ELSE b[j - Len(a)]
  BY <1>1, <1>2, ConcatProperties
<1>5. Len(s) \in Nat /\ Len(a) + Len(b) = Len(s) - 1
  BY <1>1, <1>2
<1>6. ASSUME NEW j \in 1 .. Len(s) - 1
      PROVE  (a \o b)[j] = IF j < i THEN s[j] ELSE s[j + 1]
  <2>1. CASE j < i
    <3>1. j <= Len(a) /\ j \in 1 .. i - 1
      BY <1>1, <2>1
    <3>2. (a \o b)[j] = a[j]
      BY <1>4, <1>5, <3>1
    <3>3. a[j] = s[j]
      BY <1>1, <3>1
    <3>4. (IF j < i THEN s[j] ELSE s[j + 1]) = s[j]
      BY <2>1
    <3>5. QED BY <3>2, <3>3, <3>4
  <2>2. CASE ~ (j < i)
    <3>1. ~ (j <= Len(a)) /\ j - Len(a) \in 1 .. Len(s) - i /\ i + (j - Len(a)) = j + 1
      BY <1>1, <2>2
    <3>2. (a \o b)[j] = b[j - Len(a)]
      BY <1>4, <1>5, <3>1
    <3>3. b[j - Len(a)] = s[j + 1]
      BY <1>2, <3>1
    <3>4. QED BY <2>2, <3>2, <3>3
  <2>3. QED BY <2>1, <2>2
<1>7. QED BY <1>3, <1>4, <1>5, <1>6

LEMMA InFront ==
  ASSUME NEW S, NEW s \in Seq(S), NEW x \in S
  PROVE  /\ <<x>> \o s \in Seq(S) /\ Len(<<x>> \o s) = Len(s) + 1
         /\ DOMAIN (<<x>> \o s) = 1 .. Len(s) + 1
         /\ (<<x>> \o s)[1] = x
         /\ \A j \in 1 .. Len(s) : (<<x>> \o s)[j + 1] = s[j]
<1>1. <<x>> \in Seq(S) /\ Len(<<x>>) = 1 /\ <<x>>[1] = x
  OBVIOUS
<1>2. /\ <<x>> \o s \in Seq(S) /\ Len(<<x>> \o s) = Len(s) + 1
      /\ \A j \in 1 .. Len(s) + 1 : (<<x>> \o s)[j] = IF j <= 1 THEN <<x>>[j] ELSE s[j - 1]
  BY <1>1, ConcatProperties
<1>3. QED BY <1>1, <1>2

(* Positive numbers in strictly increasing order leave none out below.     *)
LEMMA RanksGrow ==
  ASSUME NEW n \in Nat, NEW f \in [1 .. n -> Nat \ {0}],
         \A i, j \in 1 .. n : i < j => f[i] < f[j]
  PROVE  \A k \in 1 .. n : k <= f[k]
<1> DEFINE T == {k \in 0 .. n : k = 0 \/ k <= f[k]}
<1>1. 0 \in T
  OBVIOUS
<1>2. \A k \in 0 .. n - 1 : k \in T => k + 1 \in T
  <2> SUFFICES ASSUME NEW k \in 0 .. n - 1, k \in T PROVE k + 1 \in T
    OBVIOUS
  <2>1. f[k + 1] \in Nat \ {0}
    OBVIOUS
  <2>2. CASE k = 0
    BY <2>1, <2>2
  <2>3. CASE k # 0
    <3>1. f[k] \in Nat /\ k <= f[k] /\ f[k] < f[k + 1]
      BY <2>3
    <3>2. QED BY <2>1, <3>1
  <2>4. QED BY <2>2, <2>3
<1> HIDE DEF T
<1>3. \A k \in 0 .. n : k \in T
  BY <1>1, <1>2, VisitFold!UpTo
<1>4. QED BY <1>3 DEF T

-----------------------------------------------------------------------------
(* The parts of the property, of any entries and any history.              *)

Live(es) == {i \in DOMAIN es : es[i].s # Null}

FromHistory(es, rc) == \A j \in Live(es) : \E i \in DOMAIN rc : es[j] = rc[i]

InOrder(es, rc) ==
  \A j, k \in Live(es), i, l \in DOMAIN rc : es[j] = rc[i] /\ es[k] = rc[l] => (j < k <=> i < l)

Shared(es, rc) ==
  \A i \in DOMAIN rc : i <= Capacity /\ rc[i].s # Null => \E j \in Live(es) : es[j] = rc[i]

NamesOnce(rc) == \A i, j \in DOMAIN rc : rc[i].name = rc[j].name => i = j

LEMMA Parts ==
  CacheInv <=> /\ entries \in Seq(Entries) /\ Len(entries) <= Capacity
               /\ held \in SUBSET Strings
               /\ recent \in Seq(Entries) /\ NamesOnce(recent)
               /\ Shared(entries, recent) /\ FromHistory(entries, recent)
               /\ InOrder(entries, recent)
  BY DEF CacheInv, TypeOK, RecentNamesShared, NamesOnce, Shared, FromHistory, InOrder, Live

-----------------------------------------------------------------------------
(* The loop of get keeps the live entries and their order; what it has     *)
(* passed are entries that live and have other names.                      *)

Visited(es, rc, name, n) ==
  {found \in [name : {name}, entries : Seq(Entries), at : Nat] :
     /\ Len(found.entries) <= n
     /\ \A j \in DOMAIN found.entries : \E k \in 1 .. n : found.entries[j] = es[k]
     /\ \A k \in 1 .. n : es[k].s # Null => \E j \in DOMAIN found.entries : found.entries[j] = es[k]
     /\ InOrder(found.entries, rc)
     /\ found.at = 0 => \A j \in DOMAIN found.entries :
          found.entries[j].s # Null /\ found.entries[j].name # name
     /\ found.at # 0 => /\ found.at \in DOMAIN found.entries
                        /\ found.entries[found.at].s # Null
                        /\ found.entries[found.at].name = name}

FoundWith(found, es) == [found EXCEPT !.entries = es]
FoundAt(found, es, at) == [found EXCEPT !.entries = es, !.at = at]

(* An entry that comes later in es comes later in what the loop keeps.     *)
LEMMA AppendInOrder ==
  ASSUME NEW es \in Seq(Entries), NEW rc, NEW n \in 1 .. Len(es), InOrder(es, rc),
         NEW kept \in Seq(Entries), InOrder(kept, rc),
         DOMAIN rc \subseteq Nat,
         \A j \in DOMAIN kept : \E k \in 1 .. n - 1 : kept[j] = es[k]
  PROVE  InOrder(Append(kept, es[n]), rc)
<1> DEFINE new == Append(kept, es[n])
           m == Len(kept) + 1
<1>1. /\ DOMAIN new = 1 .. m /\ new[m] = es[n] /\ m \in Nat
      /\ \A j \in 1 .. m - 1 : new[j] = kept[j] /\ j \in DOMAIN kept
      /\ DOMAIN es = 1 .. Len(es) /\ Len(es) \in Nat
  OBVIOUS
<1> HIDE DEF new, m
<1> SUFFICES ASSUME NEW j \in Live(new), NEW k \in Live(new), NEW i \in DOMAIN rc, NEW l \in DOMAIN rc,
                    new[j] = rc[i], new[k] = rc[l]
             PROVE  j < k <=> i < l
  BY DEF InOrder, new
<1>2. j \in 1 .. m /\ new[j].s # Null /\ k \in 1 .. m /\ new[k].s # Null
  BY <1>1 DEF Live
<1>3. CASE j # m /\ k # m
  <2>1. j \in 1 .. m - 1 /\ k \in 1 .. m - 1
    BY <1>1, <1>2, <1>3
  <2>2. j \in Live(kept) /\ k \in Live(kept) /\ kept[j] = rc[i] /\ kept[k] = rc[l]
    BY <1>1, <1>2, <2>1 DEF Live
  <2>3. QED BY <2>2 DEF InOrder
<1>4. CASE j # m /\ k = m
  <2>1. j \in 1 .. m - 1
    BY <1>1, <1>2, <1>4
  <2>2. PICK x \in 1 .. n - 1 : kept[j] = es[x]
    BY <1>1, <2>1
  <2>3. x \in Live(es) /\ n \in Live(es) /\ es[x] = rc[i] /\ es[n] = rc[l]
    BY <1>1, <1>2, <1>4, <2>1, <2>2 DEF Live
  <2>4. x < n <=> i < l
    BY <2>3 DEF InOrder
  <2>5. QED BY <1>1, <1>4, <2>1, <2>2, <2>4
<1>5. CASE j = m /\ k # m
  <2>1. k \in 1 .. m - 1
    BY <1>1, <1>2, <1>5
  <2>2. PICK x \in 1 .. n - 1 : kept[k] = es[x]
    BY <1>1, <2>1
  <2>3. x \in Live(es) /\ n \in Live(es) /\ es[x] = rc[l] /\ es[n] = rc[i]
    BY <1>1, <1>2, <1>5, <2>1, <2>2 DEF Live
  <2>4. n < x <=> i < l
    BY <2>3 DEF InOrder
  <2>5. QED BY <1>1, <1>5, <2>1, <2>2, <2>4
<1>6. CASE j = m /\ k = m
  <2>1. n \in Live(es) /\ es[n] = rc[i] /\ es[n] = rc[l]
    BY <1>1, <1>2, <1>6 DEF Live
  <2>2. n < n <=> i < l
    BY <2>1 DEF InOrder
  <2>3. QED BY <1>1, <1>6, <2>2
<1>7. QED BY <1>3, <1>4, <1>5, <1>6

LEMMA VisitStep ==
  ASSUME NEW es \in Seq(Entries), NEW rc, DOMAIN rc \subseteq Nat, InOrder(es, rc),
         NEW name, NEW n \in 1 .. Len(es), NEW found \in Visited(es, rc, name, n - 1)
  PROVE  Visit(found, es[n]) \in Visited(es, rc, name, n)
<1> DEFINE kept == found.entries
           new == Append(kept, es[n])
<1>1. found \in [name : {name}, entries : Seq(Entries), at : Nat] /\ kept \in Seq(Entries)
      /\ found.at \in Nat /\ found.name = name /\ es[n] \in Entries
  BY DEF Visited
<1>2. /\ Len(kept) <= n - 1
      /\ \A j \in DOMAIN kept : \E k \in 1 .. n - 1 : kept[j] = es[k]
      /\ \A k \in 1 .. n - 1 : es[k].s # Null => \E j \in DOMAIN kept : kept[j] = es[k]
      /\ InOrder(kept, rc)
      /\ found.at = 0 => \A j \in DOMAIN kept : kept[j].s # Null /\ kept[j].name # name
      /\ found.at # 0 => /\ found.at \in DOMAIN kept /\ kept[found.at].s # Null
                         /\ kept[found.at].name = name
  BY DEF Visited
<1>3. n \in Nat /\ n - 1 \in Nat /\ Len(es) \in Nat /\ DOMAIN es = 1 .. Len(es)
  OBVIOUS
<1> HIDE DEF kept
<1>4. CASE found.at = 0 /\ es[n].s = Null
  <2>1. Visit(found, es[n]) = found
    BY <1>4 DEF Visit
  <2>2. \A k \in 1 .. n : es[k].s # Null => \E j \in DOMAIN kept : kept[j] = es[k]
    BY <1>2, <1>3, <1>4
  <2>3. \A j \in DOMAIN kept : \E k \in 1 .. n : kept[j] = es[k]
    BY <1>2, <1>3
  <2>4. Len(kept) <= n
    BY <1>1, <1>2, <1>3
  <2>5. QED BY <1>1, <1>2, <1>4, <2>1, <2>2, <2>3, <2>4 DEF Visited, kept
<1>5. /\ new \in Seq(Entries) /\ Len(new) = Len(kept) + 1 /\ DOMAIN new = 1 .. Len(kept) + 1
      /\ new[Len(kept) + 1] = es[n] /\ Len(kept) \in Nat /\ DOMAIN kept = 1 .. Len(kept)
      /\ \A j \in DOMAIN kept : new[j] = kept[j]
  BY <1>1
<1>6. InOrder(new, rc)
  BY <1>1, <1>2, AppendInOrder
<1> HIDE DEF new
<1>7. \A j \in DOMAIN new : \E k \in 1 .. n : new[j] = es[k]
  <2> SUFFICES ASSUME NEW j \in DOMAIN new PROVE \E k \in 1 .. n : new[j] = es[k]
    OBVIOUS
  <2>1. CASE j = Len(kept) + 1
    BY <1>3, <1>5, <2>1
  <2>2. CASE j \in DOMAIN kept
    BY <1>2, <1>3, <1>5, <2>2
  <2>3. QED BY <1>5, <2>1, <2>2
<1>8. \A k \in 1 .. n : es[k].s # Null => \E j \in DOMAIN new : new[j] = es[k]
  <2> SUFFICES ASSUME NEW k \in 1 .. n, es[k].s # Null PROVE \E j \in DOMAIN new : new[j] = es[k]
    OBVIOUS
  <2>1. CASE k = n
    <3>1. Len(kept) + 1 \in DOMAIN new
      BY <1>5
    <3>2. QED BY <1>5, <2>1, <3>1
  <2>2. CASE k # n
    <3>1. PICK j \in DOMAIN kept : kept[j] = es[k]
      BY <1>2, <1>3, <2>2
    <3>2. QED BY <1>5, <3>1
  <2>3. QED BY <2>1, <2>2
<1>9. Len(new) <= n
  BY <1>2, <1>3, <1>5
<1>10. ASSUME NEW res \in [name : {name}, entries : Seq(Entries), at : Nat], res.entries = new,
              res.at = 0 => \A j \in DOMAIN new : new[j].s # Null /\ new[j].name # name,
              res.at # 0 => res.at \in DOMAIN new /\ new[res.at].s # Null /\ new[res.at].name = name
       PROVE  res \in Visited(es, rc, name, n)
  BY <1>6, <1>7, <1>8, <1>9, <1>10 DEF Visited
<1>11. CASE found.at # 0
  <2>1. Visit(found, es[n]) = FoundWith(found, new)
    BY <1>11 DEF Visit, FoundWith, new, kept
  <2>2. /\ FoundWith(found, new) \in [name : {name}, entries : Seq(Entries), at : Nat]
        /\ FoundWith(found, new).entries = new /\ FoundWith(found, new).at = found.at
    BY <1>1, <1>5 DEF FoundWith
  <2>3. found.at \in DOMAIN new /\ new[found.at].s # Null /\ new[found.at].name = name
    BY <1>2, <1>5, <1>11
  <2> DEFINE res == FoundWith(found, new)
  <2>4. /\ res.at = 0 => \A j \in DOMAIN new : new[j].s # Null /\ new[j].name # name
        /\ res.at # 0 => res.at \in DOMAIN new /\ new[res.at].s # Null /\ new[res.at].name = name
    BY <1>11, <2>2, <2>3
  <2> HIDE DEF res
  <2>5. QED BY <1>10, <2>1, <2>2, <2>4 DEF res
<1>12. CASE found.at = 0 /\ es[n].s # Null
  <2> DEFINE at == IF es[n].name = name THEN Len(kept) + 1 ELSE 0
  <2>1. Visit(found, es[n]) = FoundAt(found, new, at)
    BY <1>1, <1>12 DEF Visit, FoundAt, new, kept
  <2>2. at \in Nat
    BY <1>5
  <2>3. /\ FoundAt(found, new, at) \in [name : {name}, entries : Seq(Entries), at : Nat]
        /\ FoundAt(found, new, at).entries = new /\ FoundAt(found, new, at).at = at
    BY <1>1, <1>5, <2>2 DEF FoundAt
  <2>4. at # 0 => at \in DOMAIN new /\ new[at].s # Null /\ new[at].name = name
    BY <1>5, <1>12
  <2>5. at = 0 => \A j \in DOMAIN new : new[j].s # Null /\ new[j].name # name
    <3> SUFFICES ASSUME at = 0, NEW j \in DOMAIN new PROVE new[j].s # Null /\ new[j].name # name
      OBVIOUS
    <3>1. es[n].name # name
      BY <1>5
    <3>2. CASE j = Len(kept) + 1
      BY <1>5, <1>12, <3>1, <3>2
    <3>3. CASE j \in DOMAIN kept
      BY <1>2, <1>5, <1>12, <3>3
    <3>4. QED BY <1>5, <3>2, <3>3
  <2> HIDE DEF at
  <2> DEFINE res == FoundAt(found, new, at)
  <2>6. /\ res.at = 0 => \A j \in DOMAIN new : new[j].s # Null /\ new[j].name # name
        /\ res.at # 0 => res.at \in DOMAIN new /\ new[res.at].s # Null /\ new[res.at].name = name
    BY <2>3, <2>4, <2>5
  <2> HIDE DEF res
  <2>7. QED BY <1>10, <2>1, <2>3, <2>6 DEF res
<1>13. QED BY <1>4, <1>11, <1>12

LEMMA SearchFinds ==
  ASSUME NEW es \in Seq(Entries), NEW rc, DOMAIN rc \subseteq Nat, InOrder(es, rc), NEW name
  PROVE  Search(es, name) \in Visited(es, rc, name, Len(es))
<1> DEFINE base == [name |-> name, entries |-> <<>>, at |-> 0]
           J == [n \in 0 .. Len(es) |-> Visited(es, rc, name, n)]
<1>1. Len(es) \in Nat /\ DOMAIN es = 1 .. Len(es)
  OBVIOUS
<1>2. base \in Visited(es, rc, name, 0)
  <2>1. base \in [name : {name}, entries : Seq(Entries), at : Nat] /\ base.at = 0
        /\ base.entries = <<>>
    OBVIOUS
  <2>2. InOrder(<<>>, rc)
    BY DEF InOrder, Live
  <2> HIDE DEF base
  <2>3. QED BY <2>1, <2>2 DEF Visited
<1>3. base \in J[0]
  BY <1>1, <1>2
<1>4. \A n \in 1 .. Len(es) : \A found \in J[n - 1] : Visit(found, es[n]) \in J[n]
  <2> SUFFICES ASSUME NEW n \in 1 .. Len(es), NEW found \in J[n - 1]
               PROVE  Visit(found, es[n]) \in J[n]
    OBVIOUS
  <2>1. J[n - 1] = Visited(es, rc, name, n - 1) /\ J[n] = Visited(es, rc, name, n)
    BY <1>1
  <2> HIDE DEF J
  <2>2. QED BY <2>1, VisitStep
<1>5. J[Len(es)] = Visited(es, rc, name, Len(es))
  BY <1>1
<1> HIDE DEF J
<1>6. VisitFold!Folded(base, es) \in J[Len(es)]
  BY <1>1, <1>3, <1>4, VisitFold!FoldInduction
<1>7. Search(es, name) = VisitFold!Folded(base, es)
  BY DEF Search, FoldLeft, MapThenFoldSet, Max, VisitFold!Folded, VisitFold!Greatest
<1>8. QED BY <1>5, <1>6, <1>7

-----------------------------------------------------------------------------
(* What comes to the front, in the entries and in the history: new is old  *)
(* without the element at r, if there is one, and x before the others.     *)

Fronted(new, old, r, x) ==
  /\ DOMAIN new = 1 .. IF r <= Len(old) THEN Len(old) ELSE Len(old) + 1
  /\ new[1] = x
  /\ \A i \in DOMAIN new \ {1} : new[i] = old[IF i - 1 < r THEN i - 1 ELSE i]

Origin(r, i) == IF i - 1 < r THEN i - 1 ELSE i

LEMMA FrontedFacts ==
  ASSUME NEW old \in Seq(Entries), NEW r \in 1 .. Len(old) + 1, NEW x, NEW new,
         Fronted(new, old, r, x)
  PROVE  /\ 1 \in DOMAIN new /\ new[1] = x /\ DOMAIN new \subseteq Nat
         /\ \A i \in DOMAIN new \ {1} :
              /\ Origin(r, i) \in DOMAIN old \ {r} /\ Origin(r, i) <= i
              /\ new[i] = old[Origin(r, i)]
         /\ \A i, l \in DOMAIN new \ {1} : i < l <=> Origin(r, i) < Origin(r, l)
         /\ \A k \in DOMAIN old \ {r} : \E i \in DOMAIN new \ {1} : new[i] = old[k]
<1>1. Len(old) \in Nat /\ r \in Nat \ {0} /\ r <= Len(old) + 1 /\ DOMAIN old = 1 .. Len(old)
  OBVIOUS
<1>2. 1 \in DOMAIN new /\ new[1] = x /\ DOMAIN new \subseteq Nat
  BY <1>1 DEF Fronted
<1>3. ASSUME NEW i \in DOMAIN new \ {1}
      PROVE  /\ Origin(r, i) \in DOMAIN old \ {r} /\ Origin(r, i) <= i
             /\ new[i] = old[Origin(r, i)]
  <2>1. new[i] = old[Origin(r, i)]
    BY DEF Fronted, Origin
  <2>2. i \in Nat /\ i > 1 /\ i <= IF r <= Len(old) THEN Len(old) ELSE Len(old) + 1
    BY <1>1 DEF Fronted
  <2>3. Origin(r, i) \in 1 .. Len(old) /\ Origin(r, i) # r /\ Origin(r, i) <= i
    BY <1>1, <2>2 DEF Origin
  <2>4. QED BY <1>1, <2>1, <2>3
<1>4. ASSUME NEW i \in DOMAIN new \ {1}, NEW l \in DOMAIN new \ {1}
      PROVE  i < l <=> Origin(r, i) < Origin(r, l)
  <2>1. i \in Nat /\ l \in Nat
    BY <1>2
  <2>2. Origin(r, i) # r /\ Origin(r, l) # r
    BY <1>3
  <2>3. QED BY <1>1, <2>1, <2>2 DEF Origin
<1>5. ASSUME NEW k \in DOMAIN old \ {r}
      PROVE  \E i \in DOMAIN new \ {1} : new[i] = old[k]
  <2> DEFINE i == IF k < r THEN k + 1 ELSE k
  <2>1. k \in 1 .. Len(old) /\ k # r
    BY <1>1
  <2>2. i \in DOMAIN new \ {1} /\ Origin(r, i) = k
    BY <1>1, <2>1 DEF Fronted, Origin
  <2>3. QED BY <1>3, <2>2
<1>6. QED BY <1>2, <1>3, <1>4, <1>5

(* An entry x with a string comes to the front of both, and none of the    *)
(* other live entries has its name.                                        *)
BothFronted(es, rc, x, re, rr, new, newer) ==
  /\ es \in Seq(Entries) /\ rc \in Seq(Entries) /\ x \in Entries /\ x.s # Null
  /\ re \in 1 .. Len(es) + 1 /\ rr \in 1 .. Len(rc) + 1
  /\ Fronted(new, es, re, x) /\ Fronted(newer, rc, rr, x)
  /\ NamesOnce(rc) /\ Shared(es, rc) /\ FromHistory(es, rc) /\ InOrder(es, rc)
  /\ \A i \in DOMAIN rc : i # rr <=> rc[i].name # x.name
  /\ re \in DOMAIN es => es[re].name = x.name
  /\ \A j \in Live(es) \ {re} : es[j].name # x.name

LEMMA FrontedHolds ==
  ASSUME NEW es, NEW rc, NEW x, NEW re, NEW rr, NEW new, NEW newer,
         BothFronted(es, rc, x, re, rr, new, newer)
  PROVE  NamesOnce(newer) /\ Shared(new, newer) /\ FromHistory(new, newer) /\ InOrder(new, newer)
<1> USE DEF BothFronted
<1>1. /\ 1 \in DOMAIN newer /\ newer[1] = x /\ DOMAIN newer \subseteq Nat
      /\ \A i \in DOMAIN newer \ {1} :
           /\ Origin(rr, i) \in DOMAIN rc \ {rr} /\ Origin(rr, i) <= i
           /\ newer[i] = rc[Origin(rr, i)]
      /\ \A i, l \in DOMAIN newer \ {1} : i < l <=> Origin(rr, i) < Origin(rr, l)
      /\ \A k \in DOMAIN rc \ {rr} : \E i \in DOMAIN newer \ {1} : newer[i] = rc[k]
  BY FrontedFacts
<1>2. /\ 1 \in DOMAIN new /\ new[1] = x /\ DOMAIN new \subseteq Nat
      /\ \A i \in DOMAIN new \ {1} :
           /\ Origin(re, i) \in DOMAIN es \ {re}
           /\ new[i] = es[Origin(re, i)]
      /\ \A i, l \in DOMAIN new \ {1} : i < l <=> Origin(re, i) < Origin(re, l)
      /\ \A k \in DOMAIN es \ {re} : \E i \in DOMAIN new \ {1} : new[i] = es[k]
  BY FrontedFacts
<1>3. \A i \in DOMAIN newer \ {1} : newer[i].name # x.name
  BY <1>1
<1>4. \A j \in Live(new) \ {1} : Origin(re, j) \in Live(es) \ {re} /\ new[j].name # x.name
  BY <1>2 DEF Live
<1>5. NamesOnce(newer)
  <2> SUFFICES ASSUME NEW i \in DOMAIN newer, NEW l \in DOMAIN newer, newer[i].name = newer[l].name
               PROVE  i = l
    BY DEF NamesOnce
  <2>1. CASE i = 1 \/ l = 1
    BY <1>1, <1>3, <2>1
  <2>2. CASE i # 1 /\ l # 1
    <3>1. /\ Origin(rr, i) \in DOMAIN rc /\ Origin(rr, l) \in DOMAIN rc
          /\ rc[Origin(rr, i)].name = rc[Origin(rr, l)].name
      BY <1>1, <2>2
    <3>2. Origin(rr, i) = Origin(rr, l) /\ Origin(rr, i) \in Nat
      BY <3>1 DEF NamesOnce
    <3>3. ~ (i < l) /\ ~ (l < i)
      BY <1>1, <2>2, <3>2
    <3>4. QED BY <1>1, <3>3
  <2>3. QED BY <2>1, <2>2
<1>6. Shared(new, newer)
  <2> SUFFICES ASSUME NEW i \in DOMAIN newer, i <= Capacity, newer[i].s # Null
               PROVE  \E j \in Live(new) : new[j] = newer[i]
    BY DEF Shared
  <2>1. CASE i = 1
    BY <1>1, <1>2, <2>1 DEF Live
  <2>2. CASE i # 1
    <3> DEFINE k == Origin(rr, i)
    <3>1. k \in DOMAIN rc \ {rr} /\ k <= i /\ newer[i] = rc[k] /\ i \in Nat
      BY <1>1, <2>2
    <3>2. k \in Nat /\ k <= Capacity
      BY <3>1
    <3> HIDE DEF k
    <3>3. PICK m \in Live(es) : es[m] = rc[k]
      BY <3>1, <3>2 DEF Shared
    <3>4. m \in DOMAIN es /\ es[m].s # Null
      BY DEF Live
    <3>5. m # re
      BY <3>1, <3>3, <3>4
    <3>6. PICK j \in DOMAIN new \ {1} : new[j] = es[m]
      BY <1>2, <3>4, <3>5
    <3>7. QED BY <3>1, <3>3, <3>4, <3>6 DEF Live
  <2>3. QED BY <2>1, <2>2
<1>7. FromHistory(new, newer)
  <2> SUFFICES ASSUME NEW j \in Live(new) PROVE \E i \in DOMAIN newer : new[j] = newer[i]
    BY DEF FromHistory
  <2>1. CASE j = 1
    BY <1>1, <1>2, <2>1
  <2>2. CASE j # 1
    <3>1. Origin(re, j) \in Live(es) /\ new[j].name # x.name /\ new[j] = es[Origin(re, j)]
      BY <1>2, <1>4, <2>2 DEF Live
    <3>2. PICK k \in DOMAIN rc : new[j] = rc[k]
      BY <3>1 DEF FromHistory
    <3>3. k \in DOMAIN rc \ {rr}
      BY <3>1, <3>2
    <3>4. QED BY <1>1, <3>2, <3>3
  <2>3. QED BY <2>1, <2>2
<1>8. InOrder(new, newer)
  <2> SUFFICES ASSUME NEW j \in Live(new), NEW k \in Live(new),
                      NEW i \in DOMAIN newer, NEW l \in DOMAIN newer,
                      new[j] = newer[i], new[k] = newer[l]
               PROVE  j < k <=> i < l
    BY DEF InOrder
  <2>1. j \in DOMAIN new /\ k \in DOMAIN new
    BY DEF Live
  <2>2. (j = 1 <=> i = 1) /\ (k = 1 <=> l = 1)
    <3>1. ASSUME NEW a \in Live(new), NEW b \in DOMAIN newer, new[a] = newer[b]
          PROVE  a = 1 <=> b = 1
      <4>1. CASE a = 1
        BY <1>2, <1>3, <3>1, <4>1
      <4>2. CASE a # 1
        <5>1. new[a].name # x.name
          BY <1>4, <4>2
        <5>2. QED BY <1>1, <3>1, <4>2, <5>1
      <4>3. QED BY <4>1, <4>2
    <3>2. QED BY <3>1
  <2>3. /\ j \in Nat \ {0} /\ k \in Nat \ {0} /\ i \in Nat \ {0} /\ l \in Nat \ {0}
    BY <2>1 DEF Fronted
  <2>4. CASE j = 1 \/ k = 1
    BY <2>2, <2>3, <2>4
  <2>5. CASE j # 1 /\ k # 1
    <3>1. Origin(re, j) \in Live(es) /\ Origin(re, k) \in Live(es)
          /\ Origin(rr, i) \in DOMAIN rc /\ Origin(rr, l) \in DOMAIN rc
      BY <1>1, <1>4, <2>2, <2>5
    <3>2. es[Origin(re, j)] = rc[Origin(rr, i)] /\ es[Origin(re, k)] = rc[Origin(rr, l)]
      BY <1>1, <1>2, <2>1, <2>2, <2>5
    <3>3. Origin(re, j) < Origin(re, k) <=> Origin(rr, i) < Origin(rr, l)
      BY <3>1, <3>2 DEF InOrder
    <3>4. (j < k <=> Origin(re, j) < Origin(re, k)) /\ (i < l <=> Origin(rr, i) < Origin(rr, l))
      BY <1>1, <1>2, <2>1, <2>2, <2>5
    <3>5. QED BY <3>3, <3>4
  <2>6. QED BY <2>4, <2>5
<1>9. QED BY <1>5, <1>6, <1>7, <1>8

-----------------------------------------------------------------------------
(* What goes to the front of a sequence.                                   *)

LEMMA MovedFronted ==
  ASSUME NEW s \in Seq(Entries), NEW r \in 1 .. Len(s), NEW x \in Entries
  PROVE  /\ <<x>> \o RemoveAt(s, r) \in Seq(Entries) /\ Len(<<x>> \o RemoveAt(s, r)) = Len(s)
         /\ Fronted(<<x>> \o RemoveAt(s, r), s, r, x)
<1> DEFINE rest == RemoveAt(s, r)
           new == <<x>> \o rest
<1>1. /\ rest \in Seq(Entries) /\ Len(rest) = Len(s) - 1
      /\ \A j \in 1 .. Len(s) - 1 : rest[j] = IF j < r THEN s[j] ELSE s[j + 1]
  BY Removed
<1> HIDE DEF rest
<1>2. /\ new \in Seq(Entries) /\ Len(new) = Len(s) /\ DOMAIN new = 1 .. Len(s)
      /\ new[1] = x /\ \A j \in 1 .. Len(s) - 1 : new[j + 1] = rest[j]
  BY <1>1, InFront
<1> HIDE DEF new
<1>3. ASSUME NEW i \in DOMAIN new \ {1}
      PROVE  new[i] = s[IF i - 1 < r THEN i - 1 ELSE i]
  <2>1. i - 1 \in 1 .. Len(s) - 1 /\ (i - 1) + 1 = i
    BY <1>2
  <2>2. new[i] = rest[i - 1]
    BY <1>2, <2>1
  <2>3. rest[i - 1] = IF i - 1 < r THEN s[i - 1] ELSE s[(i - 1) + 1]
    BY <1>1, <2>1
  <2>4. QED BY <2>1, <2>2, <2>3
<1>4. Fronted(new, s, r, x)
  BY <1>2, <1>3 DEF Fronted
<1>5. QED BY <1>2, <1>4 DEF new, rest

LEMMA AddedFronted ==
  ASSUME NEW s \in Seq(Entries), NEW x \in Entries
  PROVE  /\ <<x>> \o s \in Seq(Entries) /\ Len(<<x>> \o s) = Len(s) + 1
         /\ Fronted(<<x>> \o s, s, Len(s) + 1, x)
<1> DEFINE new == <<x>> \o s
<1>1. /\ new \in Seq(Entries) /\ Len(new) = Len(s) + 1 /\ DOMAIN new = 1 .. Len(s) + 1
      /\ new[1] = x /\ \A j \in 1 .. Len(s) : new[j + 1] = s[j]
  BY InFront
<1> HIDE DEF new
<1>2. Len(s) \in Nat
  OBVIOUS
<1>3. ASSUME NEW i \in DOMAIN new \ {1}
      PROVE  new[i] = s[IF i - 1 < Len(s) + 1 THEN i - 1 ELSE i]
  <2>1. i - 1 \in 1 .. Len(s) /\ (i - 1) + 1 = i /\ i - 1 < Len(s) + 1
    BY <1>1, <1>2
  <2>2. QED BY <1>1, <2>1
<1>4. Fronted(new, s, Len(s) + 1, x)
  BY <1>1, <1>2, <1>3 DEF Fronted
<1>5. QED BY <1>1, <1>4 DEF new

(* The history after a lookup: the name first, and not twice.              *)
Refreshed(new, old, x) ==
  \E r \in 1 .. Len(old) + 1 :
    /\ \A i \in DOMAIN old : i # r <=> old[i].name # x.name
    /\ Fronted(new, old, r, x)

LEMMA HistoryFronted ==
  ASSUME recent \in Seq(Entries), NamesOnce(recent), NEW name, NEW x \in Entries, x.name = name
  PROVE  /\ <<x>> \o Without(name) \in Seq(Entries)
         /\ Refreshed(<<x>> \o Without(name), recent, x)
<1>1. DOMAIN recent = 1 .. Len(recent) /\ Len(recent) \in Nat
  OBVIOUS
<1>2. CASE \E i \in DOMAIN recent : recent[i].name = name
  <2> DEFINE r == CHOOSE i \in DOMAIN recent : recent[i].name = name
  <2>1. r \in DOMAIN recent /\ recent[r].name = name
    BY <1>2
  <2>2. Without(name) = RemoveAt(recent, r)
    BY <1>2 DEF Without
  <2> HIDE DEF r
  <2>3. r \in 1 .. Len(recent) /\ r \in 1 .. Len(recent) + 1
    BY <1>1, <2>1
  <2>4. \A i \in DOMAIN recent : i # r <=> recent[i].name # name
    BY <2>1 DEF NamesOnce
  <2>5. QED BY <2>2, <2>3, <2>4, MovedFronted DEF Refreshed
<1>3. CASE ~ \E i \in DOMAIN recent : recent[i].name = name
  <2>1. Without(name) = recent
    BY <1>3 DEF Without
  <2>2. Len(recent) + 1 \in 1 .. Len(recent) + 1
    BY <1>1
  <2>3. \A i \in DOMAIN recent : i # Len(recent) + 1 <=> recent[i].name # name
    BY <1>1, <1>3
  <2>4. QED BY <2>1, <2>2, <2>3, AddedFronted DEF Refreshed
<1>4. QED BY <1>2, <1>3

-----------------------------------------------------------------------------
(* The steps.                                                              *)

(* What get finds, in the terms of the invariant.                          *)
LEMMA SearchHolds ==
  ASSUME CacheInv, NEW name
  PROVE  LET found == Search(entries, name)
             es == found.entries
         IN  /\ es \in Seq(Entries) /\ Len(es) <= Capacity
             /\ Shared(es, recent) /\ FromHistory(es, recent) /\ InOrder(es, recent)
             /\ found.at = 0 => \A j \in DOMAIN es : es[j].s # Null /\ es[j].name # name
             /\ found.at # 0 => /\ found.at \in DOMAIN es /\ es[found.at].s # Null
                                /\ es[found.at].name = name
<1> DEFINE found == Search(entries, name)
           es == found.entries
<1>1. /\ entries \in Seq(Entries) /\ Len(entries) <= Capacity /\ recent \in Seq(Entries)
      /\ Shared(entries, recent) /\ FromHistory(entries, recent) /\ InOrder(entries, recent)
  BY Parts
<1>2. DOMAIN recent \subseteq Nat /\ DOMAIN entries = 1 .. Len(entries) /\ Len(entries) \in Nat
  BY <1>1
<1>3. found \in Visited(entries, recent, name, Len(entries))
  BY <1>1, <1>2, SearchFinds
<1> HIDE DEF found
<1>4. /\ es \in Seq(Entries) /\ Len(es) <= Len(entries)
      /\ \A j \in DOMAIN es : \E k \in 1 .. Len(entries) : es[j] = entries[k]
      /\ \A k \in 1 .. Len(entries) : entries[k].s # Null => \E j \in DOMAIN es : es[j] = entries[k]
      /\ InOrder(es, recent)
      /\ found.at = 0 => \A j \in DOMAIN es : es[j].s # Null /\ es[j].name # name
      /\ found.at # 0 => /\ found.at \in DOMAIN es /\ es[found.at].s # Null
                         /\ es[found.at].name = name
  BY <1>3 DEF Visited
<1>5. Shared(es, recent)
  <2> SUFFICES ASSUME NEW i \in DOMAIN recent, i <= Capacity, recent[i].s # Null
               PROVE  \E j \in Live(es) : es[j] = recent[i]
    BY DEF Shared
  <2>1. PICK k \in Live(entries) : entries[k] = recent[i]
    BY <1>1 DEF Shared
  <2>2. k \in 1 .. Len(entries) /\ entries[k].s # Null
    BY <1>2 DEF Live
  <2>3. QED BY <1>4, <2>1, <2>2 DEF Live
<1>6. FromHistory(es, recent)
  <2> SUFFICES ASSUME NEW j \in Live(es) PROVE \E i \in DOMAIN recent : es[j] = recent[i]
    BY DEF FromHistory
  <2>1. j \in DOMAIN es /\ es[j].s # Null
    BY DEF Live
  <2>2. PICK k \in 1 .. Len(entries) : es[j] = entries[k]
    BY <1>4, <2>1
  <2>3. k \in Live(entries)
    BY <1>2, <2>1, <2>2 DEF Live
  <2>4. QED BY <1>1, <2>2, <2>3 DEF FromHistory
<1>7. Len(es) <= Capacity
  BY <1>1, <1>2, <1>4
<1>8. QED BY <1>4, <1>5, <1>6, <1>7 DEF found

LEMMA PartsNext ==
  CacheInv' <=> /\ entries' \in Seq(Entries) /\ Len(entries') <= Capacity
                /\ held' \in SUBSET Strings
                /\ recent' \in Seq(Entries) /\ NamesOnce(recent')
                /\ Shared(entries', recent') /\ FromHistory(entries', recent')
                /\ InOrder(entries', recent')
  BY DEF CacheInv, TypeOK, RecentNamesShared, NamesOnce, Shared, FromHistory, InOrder, Live

LEMMA HitStep == ASSUME CacheInv, NEW name \in Names, Hit(name) PROVE CacheInv'
<1> DEFINE found == Search(entries, name)
           es == found.entries
           x == Entry(name, es[found.at].s)
<1>1. /\ entries \in Seq(Entries) /\ held \in SUBSET Strings
      /\ recent \in Seq(Entries) /\ NamesOnce(recent)
  BY Parts
<1>2. /\ found.at # 0
      /\ entries' = MovedFirst(es, found.at)
      /\ held' = held \cup {es[found.at].s}
      /\ recent' = <<x>> \o Without(name)
  BY DEF Hit, Returned
<1>3. /\ es \in Seq(Entries) /\ Len(es) <= Capacity
      /\ Shared(es, recent) /\ FromHistory(es, recent) /\ InOrder(es, recent)
      /\ found.at \in DOMAIN es /\ es[found.at].s # Null /\ es[found.at].name = name
  BY <1>2, SearchHolds
<1> DEFINE at == found.at
<1> HIDE DEF found
<1>4. at \in 1 .. Len(es) /\ es[at] \in Entries
  BY <1>3
<1>5. x = es[at] /\ x.name = name /\ x.s # Null /\ x \in Entries /\ x.s \in Strings
  BY <1>3, <1>4 DEF Entry, Entries
<1> HIDE DEF es, x
<1>6. /\ entries' \in Seq(Entries) /\ Len(entries') = Len(es)
      /\ Fronted(entries', es, at, x)
  BY <1>2, <1>3, <1>4, <1>5, MovedFronted DEF MovedFirst
<1>7. recent' \in Seq(Entries)
  BY <1>1, <1>2, <1>5, HistoryFronted
<1>8. PICK r \in 1 .. Len(recent) + 1 :
        /\ \A i \in DOMAIN recent : i # r <=> recent[i].name # x.name
        /\ Fronted(<<x>> \o Without(name), recent, r, x)
  <2>1. Refreshed(<<x>> \o Without(name), recent, x)
    BY <1>1, <1>5, HistoryFronted
  <2>2. QED BY <2>1 DEF Refreshed
<1>9. ASSUME NEW j \in Live(es) \ {at}
      PROVE  es[j].name # x.name
  <2> SUFFICES ASSUME es[j].name = x.name PROVE FALSE
    OBVIOUS
  <2>1. at \in Live(es) /\ at \in Nat /\ j \in Nat
    BY <1>3, <1>4 DEF Live
  <2>2. PICK i \in DOMAIN recent : es[j] = recent[i]
    BY <1>3 DEF FromHistory
  <2>3. PICK l \in DOMAIN recent : es[at] = recent[l]
    BY <1>3, <2>1 DEF FromHistory
  <2>4. i = r /\ l = r
    BY <1>5, <1>8, <2>2, <2>3
  <2>5. (j < at <=> i < l) /\ (at < j <=> l < i)
    BY <1>3, <2>1, <2>2, <2>3 DEF InOrder
  <2>6. i \in Nat
    BY <1>1
  <2>7. QED BY <2>1, <2>4, <2>5, <2>6
<1>10. at \in 1 .. Len(es) + 1 /\ (at \in DOMAIN es => es[at].name = x.name)
  BY <1>4, <1>5
<1>11. /\ NamesOnce(recent') /\ Shared(entries', recent') /\ FromHistory(entries', recent')
       /\ InOrder(entries', recent')
  <2>1. Fronted(recent', recent, r, x)
    BY <1>2, <1>8
  <2>2. BothFronted(es, recent, x, at, r, entries', recent')
    BY <1>1, <1>3, <1>5, <1>6, <1>8, <1>9, <1>10, <2>1 DEF BothFronted
  <2>3. QED BY <2>2, FrontedHolds
<1>12. held' \in SUBSET Strings /\ Len(entries') <= Capacity
  <2>1. es[at].s \in Strings
    BY <1>5
  <2>2. QED BY <1>1, <1>2, <1>3, <1>6, <2>1
<1>13. QED BY <1>6, <1>7, <1>11, <1>12, PartsNext

(* What is evicted from a full cache was not among the recent names.       *)
LEMMA EvictionHolds ==
  ASSUME NEW es \in Seq(Entries), NEW rc \in Seq(Entries), NEW new \in Seq(Entries),
         Len(es) = Capacity + 1, Len(new) = Capacity, \A j \in 1 .. Capacity : new[j] = es[j],
         \A j \in DOMAIN es : es[j].s # Null,
         NamesOnce(rc), Shared(es, rc), FromHistory(es, rc), InOrder(es, rc)
  PROVE  Shared(new, rc) /\ FromHistory(new, rc) /\ InOrder(new, rc)
<1>1. /\ DOMAIN es = 1 .. Capacity + 1 /\ DOMAIN new = 1 .. Capacity /\ DOMAIN rc \subseteq Nat \ {0}
      /\ Capacity \in Nat /\ Capacity # 0
  OBVIOUS
<1>2. Live(es) = DOMAIN es
  BY DEF Live
<1>3. \A j \in Live(new) : j \in Live(es) /\ new[j] = es[j] /\ j \in 1 .. Capacity
  BY <1>1, <1>2 DEF Live
<1>4. FromHistory(new, rc)
  BY <1>3 DEF FromHistory
<1>5. InOrder(new, rc)
  BY <1>3 DEF InOrder
<1>6. ASSUME NEW i \in DOMAIN rc, i <= Capacity, rc[i].s # Null
      PROVE  \E j \in Live(new) : new[j] = rc[i]
  <2>1. PICK j \in Live(es) : es[j] = rc[i]
    BY <1>6 DEF Shared
  <2>2. CASE j \in 1 .. Capacity
    BY <1>1, <1>6, <2>1, <2>2 DEF Live
  <2>3. CASE j = Capacity + 1
    <3> DEFINE f == [k \in 1 .. Capacity + 1 |-> CHOOSE l \in DOMAIN rc : es[k] = rc[l]]
    <3>1. ASSUME NEW k \in 1 .. Capacity + 1
          PROVE  f[k] \in DOMAIN rc /\ es[k] = rc[f[k]]
      <4>1. \E l \in DOMAIN rc : es[k] = rc[l]
        BY <1>1, <1>2 DEF FromHistory
      <4>2. QED BY <4>1
    <3>2. f \in [1 .. Capacity + 1 -> Nat \ {0}]
      BY <1>1, <3>1
    <3> HIDE DEF f
    <3>3. ASSUME NEW k \in 1 .. Capacity + 1, NEW m \in 1 .. Capacity + 1, k < m
          PROVE  f[k] < f[m]
      BY <1>1, <1>2, <3>1, <3>3 DEF InOrder
    <3>4. Capacity + 1 \in Nat /\ Capacity + 1 \in 1 .. Capacity + 1
      BY <1>1
    <3>5. Capacity + 1 <= f[Capacity + 1]
      BY <3>2, <3>3, <3>4, RanksGrow
    <3>6. f[Capacity + 1] \in DOMAIN rc /\ rc[f[Capacity + 1]] = rc[i]
      BY <2>1, <2>3, <3>1, <3>4
    <3>7. f[Capacity + 1] = i
      BY <3>6 DEF NamesOnce
    <3>8. i \in Nat
      BY <1>1
    <3>9. QED BY <1>1, <1>6, <3>5, <3>7, <3>8
  <2>4. QED BY <1>1, <1>2, <2>2, <2>3
<1>7. Shared(new, rc)
  BY <1>6 DEF Shared
<1>8. QED BY <1>4, <1>5, <1>7

LEMMA MissStep == ASSUME CacheInv, NEW name \in Names, Miss(name) PROVE CacheInv'
<1> DEFINE found == Search(entries, name)
           es == found.entries
<1>1. /\ entries \in Seq(Entries) /\ held \in SUBSET Strings
      /\ recent \in Seq(Entries) /\ NamesOnce(recent)
  BY Parts
<1>2. PICK s \in Strings :
        /\ found.at = 0
        /\ entries' = <<Entry(name, s)>> \o Room(es)
        /\ held' = held \cup {s}
        /\ recent' = <<Entry(name, s)>> \o Without(name)
  BY DEF Miss, Returned, Unused
<1> DEFINE x == Entry(name, s)
           full == <<x>> \o es
<1>3. /\ es \in Seq(Entries) /\ Len(es) <= Capacity
      /\ Shared(es, recent) /\ FromHistory(es, recent) /\ InOrder(es, recent)
      /\ \A j \in DOMAIN es : es[j].s # Null /\ es[j].name # name
  BY <1>2, SearchHolds
<1> HIDE DEF found
<1>4. x.name = name /\ x.s # Null /\ x \in Entries
  BY DEF Entry, Entries
<1> HIDE DEF es, x
<1>5. full \in Seq(Entries) /\ Len(full) = Len(es) + 1 /\ Fronted(full, es, Len(es) + 1, x)
  BY <1>3, <1>4, AddedFronted
<1>6. recent' \in Seq(Entries)
  BY <1>1, <1>2, <1>4, HistoryFronted DEF x
<1>7. PICK r \in 1 .. Len(recent) + 1 :
        /\ \A i \in DOMAIN recent : i # r <=> recent[i].name # x.name
        /\ Fronted(recent', recent, r, x)
  <2>1. Refreshed(recent', recent, x)
    BY <1>1, <1>2, <1>4, HistoryFronted DEF x
  <2>2. QED BY <2>1 DEF Refreshed
<1>8. /\ Len(es) + 1 \in 1 .. Len(es) + 1 /\ Len(es) + 1 \notin DOMAIN es
      /\ \A j \in Live(es) \ {Len(es) + 1} : es[j].name # x.name
  BY <1>3, <1>4 DEF Live
<1>9. /\ NamesOnce(recent') /\ Shared(full, recent') /\ FromHistory(full, recent')
      /\ InOrder(full, recent')
  <2>1. BothFronted(es, recent, x, Len(es) + 1, r, full, recent')
    BY <1>1, <1>3, <1>4, <1>5, <1>7, <1>8 DEF BothFronted
  <2>2. QED BY <2>1, FrontedHolds
<1>10. held' \in SUBSET Strings
  BY <1>1, <1>2
<1>11. CASE Len(es) < Capacity
  <2>1. entries' = full
    BY <1>2, <1>11 DEF Room, x
  <2>2. Len(full) <= Capacity
    BY <1>3, <1>5, <1>11
  <2>3. QED BY <1>5, <1>6, <1>9, <1>10, <2>1, <2>2, PartsNext
<1>12. CASE Len(es) = Capacity
  <2>1. Room(es) = SubSeq(es, 1, Capacity - 1)
    BY <1>12 DEF Room, Front
  <2>2. /\ Room(es) \in Seq(Entries) /\ Len(Room(es)) = Capacity - 1
        /\ \A j \in 1 .. Capacity - 1 : Room(es)[j] = es[j]
    BY <1>3, <1>12, <2>1, SubSeqProperties
  <2>3. /\ entries' \in Seq(Entries) /\ Len(entries') = Capacity /\ entries'[1] = x
        /\ \A j \in 1 .. Capacity - 1 : entries'[j + 1] = es[j]
    BY <1>2, <1>4, <2>2, InFront DEF x
  <2>4. full[1] = x /\ \A j \in 1 .. Capacity - 1 : full[j + 1] = es[j]
    BY <1>3, <1>4, <1>12, InFront
  <2>5. ASSUME NEW j \in 1 .. Capacity
        PROVE  entries'[j] = full[j]
    <3>1. CASE j = 1
      BY <2>3, <2>4, <3>1
    <3>2. CASE j # 1
      <4>1. j - 1 \in 1 .. Capacity - 1 /\ (j - 1) + 1 = j
        BY <3>2
      <4>2. QED BY <2>3, <2>4, <4>1
    <3>3. QED BY <3>1, <3>2
  <2>6. ASSUME NEW j \in DOMAIN full
        PROVE  full[j].s # Null
    <3>1. CASE j = 1
      BY <1>4, <2>4, <3>1
    <3>2. CASE j # 1
      <4>1. j - 1 \in DOMAIN es /\ (j - 1) + 1 = j
        BY <1>3, <1>5, <3>2
      <4>2. full[j] = es[j - 1]
        BY <1>3, <1>4, <4>1, InFront
      <4>3. QED BY <1>3, <4>1, <4>2
    <3>3. QED BY <3>1, <3>2
  <2> HIDE DEF full
  <2>7. Shared(entries', recent') /\ FromHistory(entries', recent') /\ InOrder(entries', recent')
    BY <1>5, <1>6, <1>9, <1>12, <2>3, <2>5, <2>6, EvictionHolds
  <2>8. QED BY <1>6, <1>9, <1>10, <2>3, <2>7, PartsNext
<1>13. QED BY <1>3, <1>11, <1>12

LEMMA ReleaseStep == ASSUME CacheInv, NEW s \in held, Release(s) PROVE CacheInv'
  BY Parts, PartsNext DEF Release

LEMMA CollectStep == ASSUME CacheInv, Collect PROVE CacheInv'
<1>1. /\ entries \in Seq(Entries) /\ Len(entries) <= Capacity /\ held \in SUBSET Strings
      /\ recent \in Seq(Entries) /\ NamesOnce(recent)
      /\ Shared(entries, recent) /\ FromHistory(entries, recent) /\ InOrder(entries, recent)
  BY Parts
<1>2. /\ entries' = [i \in DOMAIN entries |-> Cleared(entries[i])]
      /\ recent' = [i \in DOMAIN recent |-> Cleared(recent[i])]
      /\ held' = held
  BY DEF Collect
<1>3. ASSUME NEW e \in Entries
      PROVE  /\ Cleared(e) \in Entries /\ Cleared(e).name = e.name
             /\ Cleared(e).s # Null => Cleared(e) = e /\ e.s # Null
  BY <1>1 DEF Cleared, Entries
<1>4. ASSUME NEW q \in Seq(Entries)
      PROVE  /\ [i \in DOMAIN q |-> Cleared(q[i])] \in Seq(Entries)
             /\ Len([i \in DOMAIN q |-> Cleared(q[i])]) = Len(q)
  <2>1. DOMAIN q = 1 .. Len(q) /\ Len(q) \in Nat /\ \A i \in DOMAIN q : q[i] \in Entries
    OBVIOUS
  <2>2. \A i \in 1 .. Len(q) : Cleared(q[i]) \in Entries
    BY <1>3, <2>1
  <2>3. QED BY <2>1, <2>2
<1>5. /\ entries' \in Seq(Entries) /\ Len(entries') = Len(entries)
      /\ recent' \in Seq(Entries)
      /\ DOMAIN entries' = DOMAIN entries /\ DOMAIN recent' = DOMAIN recent
  BY <1>1, <1>2, <1>4
<1>6. /\ \A i \in DOMAIN recent : recent[i] \in Entries /\ recent'[i] = Cleared(recent[i])
      /\ \A j \in DOMAIN entries : entries[j] \in Entries /\ entries'[j] = Cleared(entries[j])
  BY <1>1, <1>2
<1>7. \A i \in DOMAIN recent : recent'[i].name = recent[i].name
                              /\ (recent'[i].s # Null => recent'[i] = recent[i] /\ recent[i].s # Null)
  BY <1>3, <1>6
<1>8. \A j \in Live(entries') : j \in Live(entries) /\ entries'[j] = entries[j]
  BY <1>3, <1>5, <1>6 DEF Live
<1>9. NamesOnce(recent')
  BY <1>1, <1>5, <1>7 DEF NamesOnce
<1>10. Shared(entries', recent')
  <2> SUFFICES ASSUME NEW i \in DOMAIN recent', i <= Capacity, recent'[i].s # Null
               PROVE  \E j \in Live(entries') : entries'[j] = recent'[i]
    BY DEF Shared
  <2>1. i \in DOMAIN recent /\ recent'[i] = recent[i] /\ recent[i].s # Null
    BY <1>5, <1>7
  <2>2. PICK j \in Live(entries) : entries[j] = recent[i]
    BY <1>1, <2>1 DEF Shared
  <2>3. j \in DOMAIN entries'
    BY <1>5 DEF Live
  <2>4. entries'[j] = recent'[i]
    BY <1>5, <1>6, <2>1, <2>2, <2>3
  <2>5. QED BY <2>1, <2>3, <2>4 DEF Live
<1>11. FromHistory(entries', recent')
  <2> SUFFICES ASSUME NEW j \in Live(entries') PROVE \E i \in DOMAIN recent' : entries'[j] = recent'[i]
    BY DEF FromHistory
  <2>1. j \in Live(entries) /\ entries'[j] = entries[j] /\ j \in DOMAIN entries
    BY <1>8 DEF Live
  <2>2. PICK i \in DOMAIN recent : entries[j] = recent[i]
    BY <1>1, <2>1 DEF FromHistory
  <2>3. recent'[i] = entries'[j]
    BY <1>6, <2>1, <2>2
  <2>4. QED BY <1>5, <2>3
<1>12. InOrder(entries', recent')
  <2> SUFFICES ASSUME NEW j \in Live(entries'), NEW k \in Live(entries'),
                      NEW i \in DOMAIN recent', NEW l \in DOMAIN recent',
                      entries'[j] = recent'[i], entries'[k] = recent'[l]
               PROVE  j < k <=> i < l
    BY DEF InOrder
  <2>1. j \in Live(entries) /\ k \in Live(entries) /\ entries'[j] = entries[j] /\ entries'[k] = entries[k]
    BY <1>8
  <2>2. i \in DOMAIN recent /\ l \in DOMAIN recent /\ recent'[i] = recent[i] /\ recent'[l] = recent[l]
    BY <1>5, <1>7 DEF Live
  <2>3. QED BY <1>1, <2>1, <2>2 DEF InOrder
<1>13. QED BY <1>1, <1>2, <1>5, <1>9, <1>10, <1>11, <1>12, PartsNext

LEMMA InitHolds == Init => CacheInv
<1> SUFFICES ASSUME Init PROVE CacheInv
  OBVIOUS
<1>1. entries = <<>> /\ held = {} /\ recent = <<>>
  BY DEF Init
<1>2. <<>> \in Seq(Entries) /\ Len(<<>>) = 0 /\ DOMAIN <<>> = {}
  OBVIOUS
<1>3. QED BY <1>1, <1>2, Parts DEF NamesOnce, Shared, FromHistory, InOrder, Live

LEMMA NextHolds == CacheInv /\ [Next]_vars => CacheInv'
<1> SUFFICES ASSUME CacheInv, [Next]_vars PROVE CacheInv'
  OBVIOUS
<1>1. CASE Next
  BY <1>1, HitStep, MissStep, ReleaseStep, CollectStep DEF Next
<1>2. CASE UNCHANGED vars
  BY <1>2, Parts, PartsNext DEF vars
<1>3. QED BY <1>1, <1>2

(* In every state the entries with a string are those of names looked up,  *)
(* in the order of the last use, and the Capacity names used last are all  *)
(* among them while their strings live (string_cache::get).                *)
THEOREM CacheInvariant == Spec => []CacheInv
<1>1. QED BY InitHolds, NextHolds, PTL DEF Spec

(* A name that was looked up with fewer than Capacity others since is      *)
(* answered with the same string as long as that lives.                    *)
THEOREM RecentNames == Spec => []RecentNamesShared
<1>1. CacheInv => RecentNamesShared
  BY DEF CacheInv
<1>2. QED BY <1>1, CacheInvariant, PTL
============================================================================
