----------------------------- MODULE FoldProofs -----------------------------
(***************************************************************************)
(* Induction along a sequence: what holds of each intermediate result of   *)
(* FoldLeft(Op, base, seq) holds of its value.                             *)
(***************************************************************************)
EXTENDS Integers, Sequences, WellFoundedInduction, TLAPS

CONSTANT Op(_, _)

(* A set of naturals that is not empty has a least element.                *)
LEMMA LeastNatural ==
  ASSUME NEW T \in SUBSET Nat, T # {}
  PROVE  \E m \in T : \A n \in T : m <= n
<1> DEFINE R == {ss \in Nat \X Nat : ss[1] < ss[2]}
<1>1. IsWellFoundedOn(R, Nat)
  BY NatLessThanWellFounded DEF OpToRel
<1>2. \A n, m \in Nat : ~ (<<n, m>> \in R) => m <= n
  OBVIOUS
<1> HIDE DEF R
<1>3. \E m \in T : \A n \in T : ~ (<<n, m>> \in R)
  BY <1>1, WFMin
<1>4. QED BY <1>2, <1>3

(* A set of naturals with 0 and the successor of each member below n has   *)
(* all naturals up to n.                                                   *)
LEMMA UpTo ==
  ASSUME NEW n \in Nat, NEW T, 0 \in T, \A k \in 0 .. n - 1 : k \in T => k + 1 \in T
  PROVE  \A k \in 0 .. n : k \in T
<1> DEFINE U == {k \in 0 .. n : k \notin T}
<1> SUFFICES ASSUME U # {} PROVE FALSE
  OBVIOUS
<1>1. U \in SUBSET Nat
  OBVIOUS
<1> HIDE DEF U
<1>2. PICK m \in U : \A k \in U : m <= k
  BY <1>1, LeastNatural
<1> USE DEF U
<1>3. m # 0 /\ m - 1 \in 0 .. n - 1 /\ m - 1 \notin U
  BY <1>2
<1>4. m - 1 \in T
  BY <1>3
<1>5. QED BY <1>2, <1>3, <1>4

Greatest(s) == CHOOSE x \in s : \A y \in s : x >= y

LEMMA GreatestOfTop ==
  ASSUME NEW k \in Nat, NEW s, s \subseteq 1 .. k, k \in s
  PROVE  Greatest(s) = k
<1>1. k \in s /\ \A y \in s : k >= y
  OBVIOUS
<1>2. Greatest(s) \in s /\ \A y \in s : Greatest(s) >= y
  BY <1>1 DEF Greatest
<1>3. Greatest(s) >= k /\ k >= Greatest(s) /\ Greatest(s) \in 1 .. k
  BY <1>1, <1>2
<1>4. QED BY <1>3

IsFold(f, base, seq, n) ==
  f = [s \in SUBSET (1 .. n) |->
         IF s = {} THEN base ELSE Op(f[s \ {Greatest(s)}], seq[Greatest(s)])]

LEMMA FoldExists ==
  ASSUME NEW n \in Nat, NEW base, NEW seq
  PROVE  \E f : IsFold(f, base, seq, n)
<1> DEFINE T == {k \in 0 .. n : \E f : IsFold(f, base, seq, k)}
<1>1. 0 \in T
  <2> DEFINE f == [s \in SUBSET (1 .. 0) |-> base]
  <2>1. IsFold(f, base, seq, 0)
    BY DEF IsFold
  <2> HIDE DEF f
  <2>2. QED BY <2>1
<1>2. ASSUME NEW k \in 0 .. n - 1, k \in T
      PROVE  k + 1 \in T
  <2>1. PICK f : IsFold(f, base, seq, k)
    BY <1>2
  <2> DEFINE g == [s \in SUBSET (1 .. k + 1) |->
                     IF k + 1 \in s THEN Op(f[s \ {k + 1}], seq[k + 1]) ELSE f[s]]
  <2>2. ASSUME NEW s \in SUBSET (1 .. k + 1)
        PROVE  g[s] = IF s = {} THEN base ELSE Op(g[s \ {Greatest(s)}], seq[Greatest(s)])
    <3>1. CASE k + 1 \in s
      <4>1. Greatest(s) = k + 1
        <5>1. k + 1 \in Nat /\ s \subseteq 1 .. k + 1
          OBVIOUS
        <5>2. QED BY <3>1, <5>1, GreatestOfTop
      <4>2. s \ {k + 1} \in SUBSET (1 .. k + 1) /\ g[s \ {k + 1}] = f[s \ {k + 1}]
        OBVIOUS
      <4>3. QED BY <3>1, <4>1, <4>2
    <3>2. CASE k + 1 \notin s
      <4>1. \A x \in s : x \in 1 .. k
        BY <3>2
      <4>2. s \in SUBSET (1 .. k) /\ s \ {Greatest(s)} \in SUBSET (1 .. k)
        BY <4>1
      <4>3. f[s] = IF s = {} THEN base ELSE Op(f[s \ {Greatest(s)}], seq[Greatest(s)])
        BY <2>1, <4>2 DEF IsFold
      <4>4. g[s \ {Greatest(s)}] = f[s \ {Greatest(s)}] /\ g[s] = f[s]
        BY <3>2, <4>2
      <4>5. QED BY <4>3, <4>4
    <3>3. QED BY <3>1, <3>2
  <2>3. g = [s \in SUBSET (1 .. k + 1) |-> g[s]]
    OBVIOUS
  <2> HIDE DEF g
  <2>4. IsFold(g, base, seq, k + 1)
    BY <2>2, <2>3 DEF IsFold
  <2>5. QED BY <2>4
<1>3. \A k \in 0 .. n - 1 : k \in T => k + 1 \in T
  BY <1>2
<1> HIDE DEF T
<1>4. n \in T
  BY <1>1, <1>3, UpTo
<1>5. QED BY <1>4 DEF T

(* FoldLeft, as the library defines it.                                    *)
Folded(base, seq) ==
  (CHOOSE it : it = [s \in SUBSET DOMAIN seq |->
                       IF s = {} THEN base ELSE Op(it[s \ {Greatest(s)}], seq[Greatest(s)])])[DOMAIN seq]

(* The i-th intermediate result is in J[i], so the fold is in the last.    *)
LEMMA FoldInduction ==
  ASSUME NEW n \in Nat, NEW base, NEW seq, DOMAIN seq = 1 .. n, NEW J,
         base \in J[0],
         \A i \in 1 .. n : \A x \in J[i - 1] : Op(x, seq[i]) \in J[i]
  PROVE  Folded(base, seq) \in J[n]
<1> DEFINE it == CHOOSE it : IsFold(it, base, seq, n)
<1>1. IsFold(it, base, seq, n)
  BY FoldExists
<1>2. Folded(base, seq) = it[1 .. n]
  BY DEF Folded, IsFold
<1> HIDE DEF it
<1> DEFINE T == {i \in 0 .. n : it[1 .. i] \in J[i]}
<1>3. 0 \in T
  <2>1. 1 .. 0 = {} /\ {} \in SUBSET (1 .. n)
    OBVIOUS
  <2>2. it[{}] = base
    BY <1>1, <2>1 DEF IsFold
  <2>3. QED BY <2>1, <2>2
<1>4. ASSUME NEW i \in 0 .. n - 1, i \in T
      PROVE  i + 1 \in T
  <2>1. 1 .. i + 1 \in SUBSET (1 .. n)
    OBVIOUS
  <2>2. i + 1 \in 1 .. i + 1
    OBVIOUS
  <2>3. (1 .. i + 1) \ {i + 1} = 1 .. i
    <3>1. \A x : x \in (1 .. i + 1) \ {i + 1} <=> x \in 1 .. i
      OBVIOUS
    <3>2. QED BY <3>1
  <2>4. Greatest(1 .. i + 1) = i + 1
    BY <2>2, GreatestOfTop
  <2>5. it[1 .. i + 1] = Op(it[1 .. i], seq[i + 1])
    BY <1>1, <2>1, <2>2, <2>3, <2>4 DEF IsFold
  <2>6. QED BY <1>4, <2>5
<1>5. \A i \in 0 .. n - 1 : i \in T => i + 1 \in T
  BY <1>4
<1> HIDE DEF T
<1>6. \A i \in 0 .. n : i \in T
  BY <1>3, <1>5, UpTo
<1>7. n \in T
  BY <1>6
<1>8. QED BY <1>2, <1>7 DEF T

(* What each step keeps holds of the fold.                                 *)
LEMMA FoldKeeps ==
  ASSUME NEW n \in Nat, NEW base, NEW seq, DOMAIN seq = 1 .. n, NEW S,
         base \in S,
         \A i \in 1 .. n : \A x \in S : Op(x, seq[i]) \in S
  PROVE  Folded(base, seq) \in S
<1> DEFINE J == [i \in 0 .. n |-> S]
<1>1. base \in J[0] /\ \A i \in 1 .. n : J[i - 1] = S /\ J[i] = S
  OBVIOUS
<1>2. J[n] = S
  OBVIOUS
<1> HIDE DEF J
<1>3. \A i \in 1 .. n : \A x \in J[i - 1] : Op(x, seq[i]) \in J[i]
  BY <1>1
<1>4. Folded(base, seq) \in J[n]
  BY <1>1, <1>3, FoldInduction
<1>5. QED BY <1>2, <1>4
=============================================================================
