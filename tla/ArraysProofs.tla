---------------------------- MODULE ArraysProofs ----------------------------
(***************************************************************************)
(* Arrays, for every modulus, prototype, receiver and set of calls, and    *)
(* native functions suspended at any depth: elements stay below length, no *)
(* function but put_length goes on with a stale reference, those that call *)
(* the user's function for each element do so, the methods do what the     *)
(* standard says, and sort keeps what it sorts.                            *)
(***************************************************************************)
EXTENDS Arrays, SequenceTheorems, FiniteSetTheorems, TLAPS

(* What an operation that leaves array and level alone may make of x0;     *)
(* with b also that elements are below length.                             *)
Kin(x0, b) ==
  {y \in Objects : y.array = x0.array /\ y.level = x0.level /\ (b => IndicesBelow(y))}

WithProps(x, p) == [x EXCEPT !.props = p]
WithLength(x, n) == [x EXCEPT !.length = n]

LEMMA ObjectFields ==
  ASSUME NEW x \in Objects
  PROVE  /\ x.array \in BOOLEAN /\ x.level \in Extensible .. Frozen /\ x.length \in Indices
         /\ DOMAIN x.props \subseteq Indices
         /\ x.props \in [DOMAIN x.props -> Elements]
<1>1. x.array \in BOOLEAN /\ x.level \in Extensible .. Frozen /\ x.length \in Indices
  BY DEF Objects
<1>2. x.props \in UNION {[D -> Elements] : D \in SUBSET Indices}
  BY DEF Objects
<1>3. PICK D \in SUBSET Indices : x.props \in [D -> Elements]
  BY <1>2
<1>4. QED BY <1>1, <1>3

LEMMA WithPropsObject ==
  ASSUME NEW x \in Objects, NEW D \in SUBSET Indices, NEW p \in [D -> Elements]
  PROVE  /\ WithProps(x, p) \in Objects
         /\ WithProps(x, p).props = p /\ WithProps(x, p).length = x.length
         /\ WithProps(x, p).array = x.array /\ WithProps(x, p).level = x.level
<1>1. p \in UNION {[E -> Elements] : E \in SUBSET Indices}
  OBVIOUS
<1>2. QED BY <1>1 DEF WithProps, Objects

LEMMA WithLengthObject ==
  ASSUME NEW x \in Objects, NEW n \in Indices
  PROVE  /\ WithLength(x, n) \in Objects
         /\ WithLength(x, n).props = x.props /\ WithLength(x, n).length = n
         /\ WithLength(x, n).array = x.array /\ WithLength(x, n).level = x.level
  BY DEF WithLength, Objects

LEMMA IndexFacts ==
  /\ Modulus \in Nat /\ Modulus > 1 /\ invalid_index_value \in Nat
  /\ \A i : i \in Indices <=> i \in Nat /\ i < Modulus
  /\ \A n \in Int : Wrap(n) \in Indices
  BY ArraysAssumption DEF Indices, Wrap, invalid_index_value

-----------------------------------------------------------------------------
(* Single elements and the length.                                         *)

LEMMA StoreKin ==
  ASSUME NEW x \in Objects, NEW i \in Indices, NEW v \in Elements
  PROVE  /\ Store(x, i, v) \in Objects
         /\ Store(x, i, v).length = x.length
         /\ Store(x, i, v).array = x.array /\ Store(x, i, v).level = x.level
         /\ DOMAIN Store(x, i, v).props = DOMAIN x.props \cup {i}
<1> DEFINE D == DOMAIN x.props \cup {i}
           p == [j \in D |-> IF j = i THEN v ELSE x.props[j]]
<1>1. D \in SUBSET Indices /\ p \in [D -> Elements] /\ DOMAIN p = D
  BY ObjectFields
<1>2. Store(x, i, v) = WithProps(x, p)
  BY DEF Store, WithProps
<1> HIDE DEF p
<1>3. QED BY <1>1, <1>2, WithPropsObject

LEMMA GetElement ==
  ASSUME NEW x \in Objects, NEW i
  PROVE  Get(x, i) \in Elements
<1>1. x.props \in [DOMAIN x.props -> Elements]
  BY ObjectFields
<1>2. QED BY <1>1, ArraysAssumption DEF Get, Own, Elements

LEMMA PutKin ==
  ASSUME NEW x0, NEW b \in BOOLEAN, NEW x \in Kin(x0, b), NEW i \in Indices, NEW v \in Elements
  PROVE  /\ Put(x, i, v) \in Kin(x0, b)
         /\ i < x.length => Put(x, i, v).length = x.length
<1>0. x \in Objects /\ x.array = x0.array /\ x.level = x0.level /\ (b => IndicesBelow(x))
  BY DEF Kin
<1>1. ObjectPut(x, i, v) \in Objects /\ ObjectPut(x, i, v).length = x.length
      /\ ObjectPut(x, i, v).array = x.array /\ ObjectPut(x, i, v).level = x.level
      /\ DOMAIN ObjectPut(x, i, v).props \subseteq DOMAIN x.props \cup {i}
  BY <1>0, StoreKin DEF ObjectPut
<1>2. CASE ~x.array
  BY <1>0, <1>1, <1>2 DEF Put, Kin, IndicesBelow
<1>3. CASE x.array
  <2>1. Put(x, i, v) = ArrayPut(x, i, v)
    BY <1>3 DEF Put
  <2>2. CASE ArrayPut(x, i, v) = x
    BY <2>1, <2>2
  <2>3. CASE ArrayPut(x, i, v) = ObjectPut(Grown(x, i), i, v)
    <3> DEFINE y == Grown(x, i)
               z == ObjectPut(y, i, v)
    <3>1. x.length \in Nat /\ i \in Nat /\ i < Modulus /\ Modulus \in Nat /\ invalid_index_value = Modulus - 1
      BY <1>0, ObjectFields, IndexFacts DEF invalid_index_value
    <3>2. /\ y \in Objects /\ y.array = x.array /\ y.level = x.level /\ y.props = x.props
          /\ y.length \in Nat /\ x.length <= y.length
          /\ i < y.length \/ i = invalid_index_value
          /\ i < x.length => y.length = x.length
      <4>1. CASE i # invalid_index_value /\ i >= x.length
        <5>1. i + 1 \in Indices
          BY <3>1, <4>1, IndexFacts
        <5>2. y = WithLength(x, i + 1)
          BY <4>1 DEF Grown, WithLength
        <5> HIDE DEF y
        <5>3. y \in Objects /\ y.array = x.array /\ y.level = x.level /\ y.props = x.props
              /\ y.length = i + 1
          BY <1>0, <5>1, <5>2, WithLengthObject
        <5>4. QED BY <3>1, <4>1, <5>3
      <4>2. CASE ~(i # invalid_index_value /\ i >= x.length)
        <5>1. y = x
          BY <4>2 DEF Grown
        <5> HIDE DEF y
        <5>2. QED BY <1>0, <3>1, <4>2, <5>1
      <4>3. QED BY <4>1, <4>2
    <3> HIDE DEF y
    <3>3. /\ z \in Objects /\ z.length = y.length /\ z.array = y.array /\ z.level = y.level
          /\ DOMAIN z.props \subseteq DOMAIN y.props \cup {i}
      BY <3>2, StoreKin DEF ObjectPut
    <3> HIDE DEF z
    <3>4. ASSUME b PROVE IndicesBelow(z)
      <4> SUFFICES ASSUME z.level \in {Extensible, NotExtensible}, NEW j \in DOMAIN z.props
                   PROVE  j < z.length \/ j = invalid_index_value
        BY DEF IndicesBelow
      <4>1. CASE j = i
        BY <3>2, <3>3, <4>1
      <4>2. CASE j \in DOMAIN x.props
        <5>1. j < x.length \/ j = invalid_index_value
          BY <1>0, <1>3, <3>2, <3>3, <3>4, <4>2 DEF IndicesBelow
        <5>2. j \in Nat
          BY <1>0, <4>2, ObjectFields, IndexFacts
        <5>3. QED BY <3>1, <3>2, <3>3, <5>1, <5>2
      <4>3. QED BY <3>2, <3>3, <4>1, <4>2
    <3>5. z \in Kin(x0, b) /\ (i < x.length => z.length = x.length)
      BY <1>0, <3>2, <3>3, <3>4 DEF Kin
    <3>6. QED BY <2>1, <2>3, <3>5 DEF y, z
  <2>4. QED BY <2>2, <2>3 DEF ArrayPut
<1>4. QED BY <1>2, <1>3

LEMMA DeleteKin ==
  ASSUME NEW x \in Objects, NEW i
  PROVE  /\ Delete(x, i) \in Objects
         /\ Delete(x, i).length = x.length
         /\ Delete(x, i).array = x.array /\ Delete(x, i).level = x.level
         /\ DOMAIN Delete(x, i).props = IF x.level >= Sealed THEN DOMAIN x.props ELSE DOMAIN x.props \ {i}
<1>1. CASE x.level >= Sealed
  BY <1>1 DEF Delete
<1>2. CASE ~(x.level >= Sealed)
  <2> DEFINE D == DOMAIN x.props \ {i}
             p == [j \in D |-> x.props[j]]
  <2>1. D \in SUBSET Indices /\ p \in [D -> Elements] /\ DOMAIN p = D
    BY ObjectFields
  <2>2. Delete(x, i) = WithProps(x, p)
    BY <1>2 DEF Delete, WithProps
  <2> HIDE DEF p
  <2>3. QED BY <1>2, <2>1, <2>2, WithPropsObject
<1>3. QED BY <1>1, <1>2

LEMMA DeleteStays ==
  ASSUME NEW x0, NEW b \in BOOLEAN, NEW x \in Kin(x0, b), NEW i
  PROVE  Delete(x, i) \in Kin(x0, b)
<1>1. x \in Objects
  BY DEF Kin
<1>2. QED BY <1>1, DeleteKin DEF Kin, IndicesBelow

LEMMA MoveStays ==
  ASSUME NEW x0, NEW b \in BOOLEAN, NEW x \in Kin(x0, b), NEW i, NEW j \in Indices
  PROVE  Move(x, i, j) \in Kin(x0, b)
<1>1. x \in Objects
  BY DEF Kin
<1>2. QED BY <1>1, GetElement, PutKin, DeleteStays DEF Move

-----------------------------------------------------------------------------
(* Ranges of indices, and what is done for each of them.                   *)

(* A sequence of n numbers from a to c - 1.                                *)
Numbers(s, n, a, c) == n \in Nat /\ DOMAIN s = 1 .. n /\ \A k \in 1 .. n : s[k] \in a .. c - 1

LEMMA UpNumbers ==
  ASSUME NEW a \in Int, NEW c \in Int
  PROVE  /\ Numbers(Up(a, c), Greater(c - a, 0), a, c)
         /\ \A k \in 1 .. Greater(c - a, 0) : Up(a, c)[k] = a + k - 1
         /\ Len(Up(a, c)) = Greater(c - a, 0)
<1> DEFINE n == Greater(c - a, 0)
           s == Up(a, c)
<1>1. n \in Nat /\ (n > 0 => n = c - a)
  BY DEF Greater
<1> HIDE DEF n
<1>2. s = [k \in 1 .. n |-> a + k - 1]
  BY DEF Up, n
<1>3. \A k \in 1 .. n : a + k - 1 \in a .. c - 1
  BY <1>1
<1>4. Len(s) = n
  BY <1>1, <1>2
<1>5. QED BY <1>1, <1>2, <1>3, <1>4 DEF Numbers, n

LEMMA DownNumbers ==
  ASSUME NEW a \in Int, NEW c \in Int
  PROVE  Numbers(Down(a, c), Greater(c - a, 0), a, c)
<1> DEFINE n == Greater(c - a, 0)
           u == Up(a, c)
           s == Down(a, c)
<1>1. Numbers(u, n, a, c) /\ Len(u) = n
  BY UpNumbers
<1> HIDE DEF n, u
<1>2. s = [k \in 1 .. n |-> u[(n - k) + 1]]
  BY <1>1 DEF Down, Reverse, u
<1>3. n \in Nat /\ \A k \in 1 .. n : (n - k) + 1 \in 1 .. n
  BY <1>1 DEF Numbers
<1>4. QED BY <1>1, <1>2, <1>3 DEF Numbers, n

DeleteFold == INSTANCE FoldProofs WITH Op <- Delete
MoveFold == INSTANCE FoldProofs WITH Op <- MoveTo
PutFold == INSTANCE FoldProofs WITH Op <- PutAt
ExchangeFold == INSTANCE FoldProofs WITH Op <- Exchange

LEMMA DeletesStay ==
  ASSUME NEW x0, NEW b \in BOOLEAN, NEW x \in Kin(x0, b), NEW n, NEW a, NEW c, NEW ks, Numbers(ks, n, a, c)
  PROVE  FoldLeft(Delete, x, ks) \in Kin(x0, b)
<1> DEFINE S == Kin(x0, b)
<1>1. n \in Nat /\ DOMAIN ks = 1 .. n /\ x \in S
  BY DEF Numbers
<1>2. \A i \in 1 .. n : \A y \in S : Delete(y, ks[i]) \in S
  BY DeleteStays
<1> HIDE DEF S
<1>3. DeleteFold!Folded(x, ks) \in S
  BY <1>1, <1>2, DeleteFold!FoldKeeps
<1>4. FoldLeft(Delete, x, ks) = DeleteFold!Folded(x, ks)
  BY DEF FoldLeft, MapThenFoldSet, Max, DeleteFold!Folded, DeleteFold!Greatest
<1>5. QED BY <1>3, <1>4 DEF S

LEMMA MoveAllStays ==
  ASSUME NEW x0, NEW b \in BOOLEAN, NEW x \in Kin(x0, b), NEW n, NEW a \in Int, NEW c \in Int, NEW ks,
         Numbers(ks, n, a, c), NEW d \in Int
  PROVE  MoveAll(x, ks, d) \in Kin(x0, b)
<1> DEFINE S == Kin(x0, b)
           es == [j \in DOMAIN ks |-> <<ks[j], Wrap(ks[j] + d)>>]
<1>1. n \in Nat /\ DOMAIN es = 1 .. n /\ x \in S
  BY DEF Numbers
<1>2. ASSUME NEW i \in 1 .. n, NEW y \in S
      PROVE  MoveTo(y, es[i]) \in S
  <2>1. ks[i] + d \in Int /\ es[i] = <<ks[i], Wrap(ks[i] + d)>>
    BY DEF Numbers
  <2>2. Wrap(ks[i] + d) \in Indices
    BY <2>1, IndexFacts
  <2> DEFINE e == es[i]
  <2>3. e[2] \in Indices
    BY <2>1, <2>2
  <2> HIDE DEF e
  <2>4. MoveTo(y, e) \in S
    BY <2>3, MoveStays DEF MoveTo
  <2>5. QED BY <2>4 DEF e
<1>3. \A i \in 1 .. n : \A y \in S : MoveTo(y, es[i]) \in S
  BY <1>2
<1>4. MoveAll(x, ks, d) = MoveFold!Folded(x, es)
  BY DEF MoveAll, FoldLeft, MapThenFoldSet, Max, MoveFold!Folded, MoveFold!Greatest
<1> HIDE DEF S, es
<1>5. MoveFold!Folded(x, es) \in S
  BY <1>1, <1>3, MoveFold!FoldKeeps
<1>6. QED BY <1>4, <1>5 DEF S

LEMMA PutAllStays ==
  ASSUME NEW x0, NEW b \in BOOLEAN, NEW x \in Kin(x0, b), NEW n \in Int, NEW items \in Seq(Elements)
  PROVE  PutAll(x, n, items) \in Kin(x0, b)
<1> DEFINE S == Kin(x0, b)
           l == Len(items)
           es == [k \in DOMAIN items |-> <<Wrap(n + k - 1), items[k]>>]
<1>1. l \in Nat /\ DOMAIN es = 1 .. l /\ x \in S /\ \A k \in 1 .. l : items[k] \in Elements
  BY LenProperties
<1>2. ASSUME NEW i \in 1 .. l, NEW y \in S
      PROVE  PutAt(y, es[i]) \in S
  <2>1. n + i - 1 \in Int /\ es[i] = <<Wrap(n + i - 1), items[i]>>
    BY <1>1
  <2>2. Wrap(n + i - 1) \in Indices
    BY <2>1, IndexFacts
  <2> DEFINE e == es[i]
  <2>3. e[1] \in Indices /\ e[2] \in Elements
    BY <1>1, <2>1, <2>2
  <2> HIDE DEF e
  <2>4. PutAt(y, e) \in S
    BY <2>3, PutKin DEF PutAt
  <2>5. QED BY <2>4 DEF e
<1>3. \A i \in 1 .. l : \A y \in S : PutAt(y, es[i]) \in S
  BY <1>2
<1>4. PutAll(x, n, items) = PutFold!Folded(x, es)
  BY DEF PutAll, FoldLeft, MapThenFoldSet, Max, PutFold!Folded, PutFold!Greatest
<1> HIDE DEF S, es, l
<1>5. PutFold!Folded(x, es) \in S
  BY <1>1, <1>3, PutFold!FoldKeeps
<1>6. QED BY <1>4, <1>5 DEF S

(* The two elements that reverse exchanges lie below length, which stays.  *)
LEMMA ReversedStays ==
  ASSUME NEW x0, NEW b \in BOOLEAN, NEW x \in Kin(x0, b)
  PROVE  Reversed(x).o \in Kin(x0, b)
<1> DEFINE l == x.length
           n == Greater(l \div 2 - 0, 0)
           ks == Up(0, l \div 2)
           S == {y \in Kin(x0, b) : y.length = l}
<1>1. x \in Objects /\ l \in Indices
  BY ObjectFields DEF Kin
<1>2. l \in Nat /\ l \div 2 \in Int /\ l \div 2 <= l
  BY <1>1, IndexFacts
<1>3. n \in Nat /\ DOMAIN ks = 1 .. n /\ \A i \in 1 .. n : ks[i] \in 0 .. l - 1
  <2>1. Numbers(ks, n, 0, l \div 2)
    BY <1>2, UpNumbers
  <2> HIDE DEF n, ks, l
  <2>2. QED BY <1>2, <2>1 DEF Numbers
<1>4. ASSUME NEW y \in S, NEW k \in 0 .. l - 1
      PROVE  Exchange(y, k) \in S
  <2> DEFINE j == y.length - k - 1
             z == Put(y, k, Get(y, j))
  <2>1. y \in Kin(x0, b) /\ y \in Objects /\ y.length = l
    BY DEF Kin
  <2>2. k \in Indices /\ j \in Indices /\ k < l /\ j < l
    BY <1>1, <2>1, IndexFacts
  <2>3. Get(y, j) \in Elements /\ Get(y, k) \in Elements
    BY <2>1, GetElement
  <2>4. z \in Kin(x0, b) /\ z.length = l
    BY <2>1, <2>2, <2>3, PutKin
  <2>5. Exchange(y, k) = Put(z, j, Get(y, k))
    BY DEF Exchange
  <2> HIDE DEF j, z, l
  <2>6. Put(z, j, Get(y, k)) \in Kin(x0, b) /\ Put(z, j, Get(y, k)).length = l
    BY <2>2, <2>3, <2>4, PutKin
  <2>7. QED BY <2>5, <2>6
<1>5. \A i \in 1 .. n : \A y \in S : Exchange(y, ks[i]) \in S
  BY <1>3, <1>4
<1>6. Reversed(x).o = ExchangeFold!Folded(x, ks)
  BY DEF Reversed, Answer, FoldLeft, MapThenFoldSet, Max, ExchangeFold!Folded, ExchangeFold!Greatest
<1>7. x \in S
  OBVIOUS
<1> HIDE DEF S, ks, n
<1>8. ExchangeFold!Folded(x, ks) \in S
  BY <1>3, <1>5, <1>7, ExchangeFold!FoldKeeps
<1>9. QED BY <1>6, <1>8 DEF S

(* put_length: what is left of the elements.                               *)
LEMMA CutObject ==
  ASSUME NEW x \in Objects, NEW old \in Indices, NEW n \in Indices
  PROVE  LET y == Cut(x, old, n)
         IN  /\ y \in Objects /\ y.array = x.array /\ y.level = x.level /\ y.length = n
             /\ x.level < Sealed =>
                  \A j \in DOMAIN y.props : j \in DOMAIN x.props /\ ~(n <= j /\ j < old)
<1> DEFINE ks == Up(n, old)
           l == Greater(old - n, 0)
           w == WithLength(x, n)
           Left(i) == {y \in Objects :
                         /\ y.array = x.array /\ y.level = x.level /\ y.length = n
                         /\ x.level < Sealed =>
                              \A j \in DOMAIN y.props : j \in DOMAIN x.props /\ ~(n <= j /\ j < n + i)}
           J == [i \in 0 .. l |-> Left(i)]
<1>1. n \in Nat /\ old \in Nat /\ l \in Nat /\ (n < old => n + l = old)
  BY IndexFacts DEF Greater
<1>2. DOMAIN ks = 1 .. l /\ \A i \in 1 .. l : ks[i] = n + i - 1
  BY <1>1, UpNumbers DEF Numbers
<1>3. w \in J[0]
  <2>1. /\ w \in Objects /\ w.props = x.props /\ w.length = n
        /\ w.array = x.array /\ w.level = x.level
    BY WithLengthObject
  <2> HIDE DEF w
  <2>2. \A j \in DOMAIN x.props : j \in Nat
    BY ObjectFields, IndexFacts
  <2>3. w \in Left(0)
    BY <1>1, <2>1, <2>2
  <2>4. QED BY <1>1, <2>3
<1>4. ASSUME NEW i \in 1 .. l, NEW y \in J[i - 1]
      PROVE  Delete(y, ks[i]) \in J[i]
  <2>1. i \in Nat /\ i - 1 \in 0 .. l /\ i \in 0 .. l
    BY <1>1
  <2>2. y \in Left(i - 1)
    BY <2>1
  <2>3. ks[i] = n + i - 1
    BY <1>2
  <2> DEFINE k == n + i - 1
             z == Delete(y, k)
  <2>4. y \in Objects
    BY <2>2
  <2>5. /\ z \in Objects /\ z.length = y.length /\ z.array = y.array /\ z.level = y.level
        /\ DOMAIN z.props = IF y.level >= Sealed THEN DOMAIN y.props ELSE DOMAIN y.props \ {k}
    BY <2>4, DeleteKin
  <2> HIDE DEF z
  <2>6. ASSUME x.level < Sealed, NEW j \in DOMAIN z.props
        PROVE  j \in DOMAIN x.props /\ ~(n <= j /\ j < n + i)
    <3>1. x.level \in Int /\ y.level = x.level
      BY <2>2, ObjectFields DEF Extensible, Frozen
    <3>2. j \in DOMAIN y.props /\ j # k
      BY <2>5, <2>6, <3>1 DEF Sealed
    <3>3. j \in DOMAIN x.props /\ ~(n <= j /\ j < n + (i - 1))
      BY <2>2, <2>6, <3>2
    <3>4. j \in Nat
      BY <3>3, ObjectFields, IndexFacts
    <3>5. QED BY <1>1, <2>1, <3>2, <3>3, <3>4
  <2>7. z \in Left(i)
    BY <2>2, <2>5, <2>6
  <2> HIDE DEF Left
  <2>8. z \in J[i]
    BY <2>1, <2>7
  <2>9. QED BY <2>3, <2>8 DEF z
<1>5. Cut(x, old, n) = DeleteFold!Folded(w, ks)
  BY DEF Cut, WithLength, FoldLeft, MapThenFoldSet, Max, DeleteFold!Folded, DeleteFold!Greatest
<1>6. J[l] = Left(l)
  BY <1>1
<1>7. \A i \in 1 .. l : \A y \in J[i - 1] : Delete(y, ks[i]) \in J[i]
  BY <1>4
<1> HIDE DEF J, ks, w
<1>8. DeleteFold!Folded(w, ks) \in J[l]
  BY <1>1, <1>2, <1>3, <1>7, DeleteFold!FoldInduction
<1>9. Cut(x, old, n) \in Left(l)
  BY <1>5, <1>6, <1>8
<1> HIDE DEF l
<1>10. \A j \in DOMAIN x.props : j \in Nat
  BY ObjectFields, IndexFacts
<1>11. \A j \in Nat : (n <= j /\ j < old) => (n <= j /\ j < n + l)
  BY <1>1
<1>12. QED BY <1>9, <1>10, <1>11

LEMMA CutStays ==
  ASSUME NEW x0, NEW b \in BOOLEAN, NEW x \in Kin(x0, b), NEW n \in Indices
  PROVE  Cut(x, x.length, n) \in Kin(x0, b)
<1> DEFINE y == Cut(x, x.length, n)
<1>1. x \in Objects /\ x.array = x0.array /\ x.level = x0.level /\ (b => IndicesBelow(x))
  BY DEF Kin
<1>2. /\ x.length \in Indices /\ x.level \in Int
      /\ \A j \in DOMAIN x.props : j \in Nat
  BY <1>1, ObjectFields, IndexFacts DEF Extensible, Frozen
<1>3. /\ y \in Objects /\ y.array = x.array /\ y.level = x.level /\ y.length = n
      /\ x.level < Sealed =>
            \A j \in DOMAIN y.props : j \in DOMAIN x.props /\ ~(n <= j /\ j < x.length)
  BY <1>1, <1>2, CutObject
<1> HIDE DEF y
<1>4. ASSUME b PROVE IndicesBelow(y)
  <2> SUFFICES ASSUME y.array, y.level \in {Extensible, NotExtensible}, NEW j \in DOMAIN y.props
               PROVE  j < y.length \/ j = invalid_index_value
    BY DEF IndicesBelow
  <2>1. x.level < Sealed
    BY <1>3 DEF Extensible, NotExtensible, Sealed
  <2>2. j \in DOMAIN x.props /\ ~(n <= j /\ j < x.length)
    BY <1>3, <2>1
  <2>3. j < x.length \/ j = invalid_index_value
    BY <1>1, <1>3, <1>4, <2>2 DEF IndicesBelow
  <2>4. j \in Nat /\ n \in Nat /\ x.length \in Nat
    BY <1>2, <2>2, IndexFacts
  <2>5. QED BY <1>3, <2>2, <2>3, <2>4
<1>5. QED BY <1>1, <1>3, <1>4 DEF Kin, y

LEMMA PutLengthStays ==
  ASSUME NEW x0, NEW b \in BOOLEAN, NEW x \in Kin(x0, b), NEW n \in Indices
  PROVE  PutLength(x, n) \in Kin(x0, b)
<1>1. x \in Objects /\ x.array = x0.array /\ x.level = x0.level
  BY DEF Kin
<1>2. CASE x.level = Frozen
  BY <1>2 DEF PutLength
<1>3. CASE x.level # Frozen /\ x.array
  BY <1>3, CutStays DEF PutLength
<1>4. CASE x.level # Frozen /\ ~x.array
  <2>1. PutLength(x, n) = WithLength(x, n)
    BY <1>4 DEF PutLength, WithLength
  <2>2. QED BY <1>1, <1>4, <2>1, WithLengthObject DEF Kin, IndicesBelow
<1>5. QED BY <1>2, <1>3, <1>4

-----------------------------------------------------------------------------
(* The functions that run no user code.                                    *)

LEMMA LengthFacts ==
  ASSUME NEW x \in Objects
  PROVE  x.length \in Nat /\ x.length \in Int /\ x.length < Modulus
  BY ObjectFields, IndexFacts

LEMMA PopStays ==
  ASSUME NEW x0, NEW b \in BOOLEAN, NEW x \in Kin(x0, b)
  PROVE  Pop(x).o \in Kin(x0, b)
<1> DEFINE l == x.length
<1>1. l \in Nat /\ l < Modulus
  BY LengthFacts DEF Kin
<1>2. CASE l = 0
  <2>1. 0 \in Indices
    BY IndexFacts
  <2>2. QED BY <1>2, <2>1, PutLengthStays DEF Pop, Answer
<1>3. CASE l # 0
  <2>1. l - 1 \in Indices
    BY <1>1, <1>3, IndexFacts
  <2>2. Pop(x).o = PutLength(Delete(x, l - 1), l - 1)
    BY <1>3 DEF Pop, Answer
  <2>3. Delete(x, l - 1) \in Kin(x0, b)
    BY DeleteStays
  <2> HIDE DEF l
  <2>4. QED BY <2>1, <2>2, <2>3, PutLengthStays
<1>4. QED BY <1>2, <1>3

LEMMA PushStays ==
  ASSUME NEW x0, NEW b \in BOOLEAN, NEW x \in Kin(x0, b), NEW items \in Seq(Elements)
  PROVE  Push(x, items).o \in Kin(x0, b)
<1> DEFINE l == x.length
           n == Wrap(l + Len(items))
           y == PutAll(x, l, items)
<1>1. l \in Nat /\ Len(items) \in Nat
  BY LengthFacts, LenProperties DEF Kin
<1>2. n \in Indices
  BY <1>1, IndexFacts
<1>3. y \in Kin(x0, b)
  BY <1>1, PutAllStays
<1>4. Push(x, items).o = PutLength(y, n)
  BY DEF Push, Answer
<1> HIDE DEF n, y
<1>5. QED BY <1>2, <1>3, <1>4, PutLengthStays

LEMMA ShiftStays ==
  ASSUME NEW x0, NEW b \in BOOLEAN, NEW x \in Kin(x0, b)
  PROVE  Shift(x).o \in Kin(x0, b)
<1> DEFINE l == x.length
           ks == Up(1, l)
           n == Greater(l - 1, 0)
           y == MoveAll(x, ks, -1)
<1>1. l \in Nat /\ l < Modulus /\ 1 \in Int /\ l \in Int /\ -1 \in Int
  BY LengthFacts DEF Kin
<1>2. CASE l = 0
  <2>1. 0 \in Indices
    BY IndexFacts
  <2>2. QED BY <1>2, <2>1, PutLengthStays DEF Shift, Answer
<1>3. CASE l # 0
  <2>1. l - 1 \in Indices
    BY <1>1, <1>3, IndexFacts
  <2>2. Shift(x).o = PutLength(y, l - 1)
    BY <1>3 DEF Shift, Answer
  <2>3. Numbers(ks, n, 1, l)
    BY <1>1, UpNumbers
  <2> HIDE DEF ks, n, l
  <2>4. y \in Kin(x0, b)
    BY <1>1, <2>3, MoveAllStays
  <2> HIDE DEF y
  <2>5. QED BY <2>1, <2>2, <2>4, PutLengthStays
<1>4. QED BY <1>2, <1>3

LEMMA UnshiftStays ==
  ASSUME NEW x0, NEW b \in BOOLEAN, NEW x \in Kin(x0, b), NEW items \in Seq(Elements)
  PROVE  Unshift(x, items).o \in Kin(x0, b)
<1> DEFINE l == x.length
           ks == Down(0, l)
           n == Greater(l - 0, 0)
           m == Wrap(l + Len(items))
           y == MoveAll(x, ks, Len(items))
           z == PutAll(y, 0, items)
<1>1. l \in Nat /\ Len(items) \in Nat /\ 0 \in Int
  BY LengthFacts, LenProperties DEF Kin
<1>2. m \in Indices
  BY <1>1, IndexFacts
<1>3. Unshift(x, items).o = PutLength(z, m)
  BY DEF Unshift, Answer
<1>4. Numbers(ks, n, 0, l)
  <2>1. l \in Int
    BY <1>1
  <2> HIDE DEF l
  <2>2. QED BY ONLY <1>1, <2>1, DownNumbers
<1> HIDE DEF ks, n, l, m
<1>5. y \in Kin(x0, b)
  BY <1>1, <1>4, MoveAllStays
<1> HIDE DEF y
<1>6. z \in Kin(x0, b)
  BY <1>1, <1>5, PutAllStays
<1> HIDE DEF z
<1>7. QED BY <1>2, <1>3, <1>6, PutLengthStays

LEMMA SpliceStays ==
  ASSUME NEW x0, NEW b \in BOOLEAN, NEW x \in Kin(x0, b), NEW s \in Int, NEW count \in Int,
         NEW items \in Seq(Elements)
  PROVE  Splice(x, s, count, items).o \in Kin(x0, b)
<1> DEFINE l == x.length
           start == calc_start_index(s, l)
           deleted == Smaller(Greater(count, 0), l - start)
           added == Len(items)
           less == MoveAll(x, Up(start + deleted, l), added - deleted)
           rest == FoldLeft(Delete, less, Down(l - deleted + added, l))
           more == MoveAll(x, Down(start + deleted, l), added - deleted)
           moved == CASE added < deleted -> rest
                      [] added > deleted -> more
                      [] OTHER -> x
           z == PutAll(moved, start, items)
           n == Wrap(l - deleted + added)
<1>1. l \in Nat /\ added \in Nat
  BY LengthFacts, LenProperties DEF Kin
<1>2. start \in Int /\ deleted \in Int
  BY <1>1 DEF calc_start_index, Smaller, Greater
<1>3. Splice(x, s, count, items).o = PutLength(z, n)
  BY DEF Splice, Answer
<1> HIDE DEF l, start, deleted, added
<1>4. /\ start + deleted \in Int /\ added - deleted \in Int /\ l - deleted + added \in Int /\ l \in Int
      /\ n \in Indices
  BY <1>1, <1>2, IndexFacts
<1>5. less \in Kin(x0, b)
  <2>1. Numbers(Up(start + deleted, l), Greater(l - (start + deleted), 0), start + deleted, l)
    BY <1>4, UpNumbers
  <2>2. QED BY <1>4, <2>1, MoveAllStays
<1>6. more \in Kin(x0, b)
  <2>1. Numbers(Down(start + deleted, l), Greater(l - (start + deleted), 0), start + deleted, l)
    BY <1>4, DownNumbers
  <2>2. QED BY <1>4, <2>1, MoveAllStays
<1> HIDE DEF less
<1>7. rest \in Kin(x0, b)
  <2>1. Numbers(Down(l - deleted + added, l), Greater(l - (l - deleted + added), 0), l - deleted + added, l)
    BY <1>4, DownNumbers
  <2>2. QED BY <1>5, <2>1, DeletesStay
<1> HIDE DEF rest, more
<1>8. moved \in Kin(x0, b)
  BY <1>6, <1>7
<1> HIDE DEF moved
<1>9. z \in Kin(x0, b)
  BY <1>2, <1>8, PutAllStays
<1> HIDE DEF z, n
<1>10. QED BY <1>3, <1>4, <1>9, PutLengthStays

(* Every function that runs no user code keeps the receiver well formed,   *)
(* and elements of arrays below length.                                    *)
LEMMA ApplyKeeps ==
  ASSUME NEW x \in Objects, NEW c \in Calls
  PROVE  /\ Apply(c, x).o \in Objects
         /\ Apply(c, x).o.array = x.array
         /\ IndicesBelow(x) => IndicesBelow(Apply(c, x).o)
<1>1. CallOK(c) /\ c.items \in Seq(Elements)
  <2>1. CallOK(c)
    BY ArraysAssumption
  <2>2. c.items \in Seq(Values) /\ Values \subseteq Elements
    BY <2>1 DEF CallOK, Elements
  <2>3. QED BY <2>1, <2>2, SeqMonotonic
<1> DEFINE y == Apply(c, x).o
<1>2. SUFFICES ASSUME NEW b \in BOOLEAN, b => IndicesBelow(x)
               PROVE  y \in Objects /\ y.array = x.array /\ (b => IndicesBelow(y))
  <2>1. y \in Objects /\ y.array = x.array
    BY <1>2
  <2>2. IndicesBelow(x) => IndicesBelow(y)
    BY <1>2
  <2>3. QED BY <2>1, <2>2
<1>3. x \in Kin(x, b)
  BY <1>2 DEF Kin
<1>4. c.m # "restrict" => y \in Kin(x, b)
  <2>1. c.a \in Int /\ c.b \in Int
    BY <1>1 DEF CallOK
  <2>2. CASE c.m = "put"
    <3>1. c.a \in Indices /\ c.items[1] \in Elements
      <4>1. Len(c.items) = 1
        BY <1>1, <2>2 DEF CallOK
      <4>2. QED BY <1>1, <2>2, <4>1, LenProperties DEF CallOK
    <3>2. y = Put(x, c.a, c.items[1])
      BY <2>2 DEF Apply, Answer
    <3>3. QED BY <1>3, <3>1, <3>2, PutKin
  <2>3. CASE c.m = "delete"
    BY <1>3, <2>3, DeleteStays DEF Apply, Answer
  <2>4. CASE c.m = "length"
    <3>1. c.a \in Indices
      BY <1>1, <2>4 DEF CallOK
    <3>2. y = PutLength(x, c.a)
      BY <2>4 DEF Apply, Answer
    <3>3. QED BY <1>3, <3>1, <3>2, PutLengthStays
  <2>5. CASE c.m = "pop"
    BY <1>3, <2>5, PopStays DEF Apply
  <2>6. CASE c.m = "push"
    BY <1>1, <1>3, <2>6, PushStays DEF Apply
  <2>7. CASE c.m = "shift"
    BY <1>3, <2>7, ShiftStays DEF Apply
  <2>8. CASE c.m = "unshift"
    BY <1>1, <1>3, <2>8, UnshiftStays DEF Apply
  <2>9. CASE c.m = "splice"
    <3>1. y = Splice(x, c.a, c.b, c.items).o
      BY <2>9 DEF Apply
    <3>2. QED BY <1>1, <1>3, <2>1, <3>1, SpliceStays
  <2>10. CASE c.m = "reverse"
    BY <1>3, <2>10, ReversedStays DEF Apply
  <2>11. CASE c.m \in {"slice", "concat", "indexOf", "lastIndexOf"}
    <3>1. y = x
      BY <2>11 DEF Apply, Slice, Concat, IndexOf, LastIndexOf, Answer
    <3>2. QED BY <1>3, <3>1
  <2>12. c.m \in Methods
    BY <1>1 DEF CallOK
  <2> HIDE DEF y
  <2>13. QED BY <2>2, <2>3, <2>4, <2>5, <2>6, <2>7, <2>8, <2>9, <2>10, <2>11, <2>12 DEF Methods
<1>5. CASE c.m = "restrict"
  <2>1. c.a \in Extensible .. Frozen /\ x.level \in Extensible .. Frozen
    BY <1>1, <1>5, ObjectFields DEF CallOK
  <2> DEFINE level == Greater(x.level, c.a)
  <2>2. level \in Extensible .. Frozen /\ (level \in {Extensible, NotExtensible} => x.level \in {Extensible, NotExtensible})
    BY <2>1 DEF Greater, Extensible, NotExtensible, Frozen
  <2>3. y = [x EXCEPT !.level = level]
    BY <1>5 DEF Apply, Answer, Restrict_
  <2> HIDE DEF level, y
  <2>4. /\ y \in Objects /\ y.array = x.array /\ y.level = level
        /\ y.props = x.props /\ y.length = x.length
    BY <2>2, <2>3 DEF Objects
  <2>5. QED BY <1>2, <2>2, <2>4 DEF IndicesBelow
<1>6. QED BY <1>3, <1>4, <1>5 DEF Kin

-----------------------------------------------------------------------------
(* Functions that wait for user code.                                      *)

EachFrames ==
  [m : Each, k : Indices, len : Indices, visited : SUBSET Indices, kept : SUBSET Indices,
   raw : {"none"}, ptr : {"receiver"}]

SortFrames ==
  [m : {"sort"}, values : {s \in Seq(Elements) : Len(s) < Modulus}, kept : SUBSET Indices,
   raw : References, ptr : {"receiver"}]

LengthFrames ==
  [m : {"length"}, n : Indices, old : Indices, kept : SUBSET Indices,
   raw : References, ptr : {"none"}]

(* g is f, but for kept and raw.                                           *)
SameFrame(f, g) ==
  /\ g.m = f.m
  /\ f.m \in Each => g.k = f.k /\ g.len = f.len /\ g.visited = f.visited
  /\ f.m = "length" => g.n = f.n /\ g.old = f.old
  /\ f.m = "sort" => g.values = f.values

LEMMA FrameFacts ==
  ASSUME NEW f \in Frames
  PROVE  /\ f.kept \in SUBSET Indices /\ f.raw \in References
         /\ f.m \in Each <=> f \in EachFrames
         /\ f.m \in Each \cup {"sort", "length"}
         /\ f.m # "length" => f.ptr = "receiver"
         /\ f.m = "sort" => f.values \in Seq(Elements) /\ Len(f.values) < Modulus
         /\ f.m = "length" => f.n \in Indices /\ f.old \in Indices
  BY DEF Frames, EachFrames, Each, References

WithKept(f, S) == [f EXCEPT !.kept = S]

LEMMA FrameKept ==
  ASSUME NEW f \in Frames, NEW S \in SUBSET Indices
  PROVE  LET g == WithKept(f, S)
         IN  g \in Frames /\ SameFrame(f, g) /\ g.kept = S
<1>1. CASE f \in EachFrames
  BY <1>1 DEF EachFrames, Frames, SameFrame, Each, WithKept
<1>2. CASE f \in SortFrames
  BY <1>2 DEF SortFrames, Frames, SameFrame, Each, WithKept
<1>3. CASE f \in LengthFrames
  BY <1>3 DEF LengthFrames, Frames, SameFrame, Each, WithKept
<1>4. QED BY <1>1, <1>2, <1>3 DEF Frames, EachFrames, SortFrames, LengthFrames

(* A collection leaves a pointer at the receiver.                          *)
LEMMA FrameMoved ==
  ASSUME NEW f \in Frames
  PROVE  LET g == Moved(f)
         IN  g \in Frames /\ SameFrame(f, g) /\ g.kept = f.kept
<1>1. CASE f \in EachFrames
  BY <1>1 DEF EachFrames, Frames, SameFrame, Each, Moved, LeftBehind, FixedUp
<1>2. CASE f \in SortFrames
  BY <1>2 DEF SortFrames, Frames, SameFrame, Each, Moved, LeftBehind, FixedUp, References
<1>3. CASE f \in LengthFrames
  BY <1>3 DEF LengthFrames, Frames, SameFrame, Each, Moved, LeftBehind, FixedUp, References
<1>4. QED BY <1>1, <1>2, <1>3 DEF Frames, EachFrames, SortFrames, LengthFrames

LEMMA KeepFrames ==
  ASSUME NEW fs \in Seq(Frames), NEW x
  PROVE  /\ Keep(fs, x) \in Seq(Frames) /\ Len(Keep(fs, x)) = Len(fs)
         /\ \A i \in 1 .. Len(fs) :
              /\ SameFrame(fs[i], Keep(fs, x)[i])
              /\ Keep(fs, x)[i].kept = {k \in fs[i].kept : Has(x, k)}
<1> DEFINE n == Len(fs)
           u == Keep(fs, x)
           S(i) == {k \in fs[i].kept : Has(x, k)}
<1>1. n \in Nat /\ DOMAIN fs = 1 .. n /\ \A i \in 1 .. n : fs[i] \in Frames
  BY LenProperties, ElementOfSeq
<1>2. DOMAIN u = 1 .. n /\ \A i \in 1 .. n : u[i] = WithKept(fs[i], S(i))
  BY <1>1 DEF Keep, WithKept
<1> HIDE DEF u
<1>3. ASSUME NEW i \in 1 .. n
      PROVE  u[i] \in Frames /\ SameFrame(fs[i], u[i]) /\ u[i].kept = S(i)
  <2> DEFINE f == fs[i]
             T == S(i)
  <2>1. f \in Frames /\ u[i] = WithKept(f, T)
    BY <1>1, <1>2
  <2>2. T \in SUBSET Indices
    BY <2>1, FrameFacts
  <2> HIDE DEF f, T
  <2>3. u[i] \in Frames /\ SameFrame(f, u[i]) /\ u[i].kept = T
    BY <2>1, <2>2, FrameKept
  <2>4. QED BY <2>3 DEF f, T
<1>4. u = [i \in 1 .. n |-> u[i]]
  BY <1>2 DEF u, Keep
<1>5. u \in Seq(Frames) /\ Len(u) = n
  <2>1. u \in [1 .. n -> Frames]
    BY <1>3, <1>4
  <2>2. QED BY <1>1, <1>2, <2>1, SeqDef, LenProperties
<1>6. QED BY <1>3, <1>5 DEF u

LEMMA MovedFrames ==
  ASSUME NEW fs \in Seq(Frames)
  PROVE  LET u == [i \in DOMAIN fs |-> Moved(fs[i])]
         IN  /\ u \in Seq(Frames) /\ Len(u) = Len(fs)
             /\ \A i \in 1 .. Len(fs) : SameFrame(fs[i], u[i]) /\ u[i].kept = fs[i].kept
<1> DEFINE n == Len(fs)
           u == [i \in DOMAIN fs |-> Moved(fs[i])]
<1>1. n \in Nat /\ DOMAIN fs = 1 .. n /\ \A i \in 1 .. n : fs[i] \in Frames
  BY LenProperties, ElementOfSeq
<1>2. DOMAIN u = 1 .. n /\ \A i \in 1 .. n : u[i] = Moved(fs[i])
  BY <1>1
<1>3. u = [i \in 1 .. n |-> u[i]]
  BY <1>1
<1> HIDE DEF u
<1>4. ASSUME NEW i \in 1 .. n
      PROVE  u[i] \in Frames /\ SameFrame(fs[i], u[i]) /\ u[i].kept = fs[i].kept
  <2> DEFINE f == fs[i]
  <2>1. f \in Frames /\ u[i] = Moved(f)
    BY <1>1, <1>2
  <2> HIDE DEF f
  <2>2. u[i] \in Frames /\ SameFrame(f, u[i]) /\ u[i].kept = f.kept
    BY <2>1, FrameMoved
  <2>3. QED BY <2>2 DEF f
<1>5. u \in Seq(Frames) /\ Len(u) = n
  <2>1. u \in [1 .. n -> Frames]
    BY <1>3, <1>4
  <2>2. QED BY <1>1, <1>2, <2>1, SeqDef, LenProperties
<1>6. QED BY <1>4, <1>5 DEF u

LEMMA FrontFrames ==
  ASSUME NEW fs \in Seq(Frames), fs # <<>>
  PROVE  /\ Len(fs) \in Nat /\ Len(fs) > 0
         /\ Front(fs) \in Seq(Frames) /\ Len(Front(fs)) = Len(fs) - 1
         /\ \A i \in 1 .. Len(fs) - 1 : Front(fs)[i] = fs[i]
         /\ Last(fs) = fs[Len(fs)] /\ Last(fs) \in Frames
<1>1. Len(fs) \in Nat /\ Len(fs) > 0
  BY LenProperties, EmptySeq
<1> DEFINE n == Len(fs) - 1
           u == SubSeq(fs, 1, n)
<1>2. 1 \in Int /\ n \in Int /\ (1 <= n \/ n = 0) /\ \A i \in 1 .. n : fs[i] \in Frames
  <2>1. \A i \in 1 .. Len(fs) : fs[i] \in Frames
    BY ElementOfSeq
  <2>2. n \in Int /\ n >= 0
    BY <1>1
  <2>3. \A i \in 1 .. n : i \in 1 .. Len(fs)
    BY <1>1
  <2> HIDE DEF n
  <2>4. 1 <= n \/ n = 0
    BY <2>2
  <2>5. QED BY <2>1, <2>2, <2>3, <2>4
<1>3. Last(fs) = fs[Len(fs)] /\ Last(fs) \in Frames
  BY <1>1, ElementOfSeq DEF Last
<1> HIDE DEF n
<1>4. /\ u \in Seq(Frames) /\ Len(u) = IF 1 <= n THEN n - 1 + 1 ELSE 0
      /\ \A i \in 1 .. n - 1 + 1 : u[i] = fs[1 + i - 1]
  BY ONLY <1>2, SubSeqProperties
<1>5. Len(u) = n /\ \A i \in 1 .. n : u[i] = fs[i]
  <2>1. n - 1 + 1 = n /\ \A i \in 1 .. n : 1 + i - 1 = i
    BY <1>2
  <2>2. QED BY <1>2, <1>4, <2>1
<1>6. Front(fs) = u
  BY DEF Front, n
<1>7. QED BY <1>1, <1>3, <1>4, <1>5, <1>6 DEF n

LEMMA AppendFrames ==
  ASSUME NEW fs \in Seq(Frames), NEW f \in Frames
  PROVE  /\ Append(fs, f) \in Seq(Frames) /\ Len(Append(fs, f)) = Len(fs) + 1
         /\ \A i \in 1 .. Len(fs) : Append(fs, f)[i] = fs[i]
         /\ Append(fs, f)[Len(fs) + 1] = f
  BY AppendProperties, LenProperties

-----------------------------------------------------------------------------
(* forEach and its like: the next step, and the frame that waits for it.   *)

LEMMA AtFacts ==
  ASSUME NEW f, f.len \in Indices
  PROVE  /\ \A j \in 0 .. f.len - 1 : At(f, j) \in Indices
         /\ \A i, j \in Int : At(f, i) = At(f, j) => i = j
<1> DEFINE l == f.len
<1>1. l \in Nat /\ l < Modulus /\ Modulus \in Nat
  BY IndexFacts
<1>2. \A j : At(f, j) = IF f.m = "reduceRight" THEN l - 1 - j ELSE j
  BY DEF At
<1> HIDE DEF l
<1>3. ASSUME NEW j \in 0 .. l - 1 PROVE At(f, j) \in Indices
  <2>1. /\ l - 1 - j \in Nat /\ l - 1 - j < Modulus
        /\ j \in Nat /\ j < Modulus
    BY <1>1
  <2>2. l - 1 - j \in Indices /\ j \in Indices
    BY <2>1, IndexFacts
  <2>3. QED BY <1>2, <2>2
<1>4. ASSUME NEW i \in Int, NEW j \in Int, At(f, i) = At(f, j) PROVE i = j
  BY <1>1, <1>2, <1>4
<1>5. QED BY <1>3, <1>4 DEF l

LEMMA NextStepFacts ==
  ASSUME NEW f, f.k \in Nat, f.len \in Nat, f.k <= f.len
  PROVE  LET k == NextStep(f)
         IN  \/ k = f.len /\ \A j \in f.k .. f.len - 1 : ~Has(o, At(f, j))
             \/ /\ k \in f.k .. f.len - 1 /\ Has(o, At(f, k))
                /\ \A j \in f.k .. k - 1 : ~Has(o, At(f, j))
<1> DEFINE there == {k \in f.k .. f.len - 1 : Has(o, At(f, k))}
           k == NextStep(f)
<1>1. CASE there = {}
  BY <1>1 DEF NextStep
<1>2. CASE there # {}
  <2>1. there \in SUBSET Nat
    OBVIOUS
  <2>2. k = CHOOSE i \in there : \A j \in there : i <= j
    BY <1>2 DEF NextStep
  <2> HIDE DEF there, k
  <2>3. \E i \in there : \A j \in there : i <= j
    BY <1>2, <2>1, DeleteFold!LeastNatural
  <2>4. k \in there /\ \A j \in there : k <= j
    BY <2>2, <2>3
  <2>5. k \in f.k .. f.len - 1 /\ Has(o, At(f, k))
    BY <2>4 DEF there
  <2>6. ASSUME NEW j \in f.k .. k - 1 PROVE ~Has(o, At(f, j))
    <3>1. j \in f.k .. f.len - 1 /\ ~(k <= j)
      BY <2>5
    <3>2. QED BY <2>4, <3>1 DEF there
  <2>7. QED BY <2>5, <2>6 DEF k
<1>3. QED BY <1>1, <1>2

(* The steps before k are done: the function goes on.                      *)
Resumable(f) ==
  /\ f \in EachFrames /\ f.k <= f.len
  /\ \A i \in f.visited : \E j \in 0 .. f.k - 1 : i = At(f, j)
  /\ \A i \in f.kept : Has(o, i) /\ (i \in f.visited \/ \E j \in f.k .. f.len - 1 : i = At(f, j))

Resumed(f, k) == [f EXCEPT !.k = k, !.visited = @ \cup {At(f, k)}]

LEMMA ResumedFrame ==
  ASSUME NEW f \in EachFrames, NEW k \in Indices, At(f, k) \in Indices
  PROVE  LET g == Resumed(f, k)
         IN  /\ g \in EachFrames
             /\ g.m = f.m /\ g.len = f.len /\ g.kept = f.kept
             /\ g.k = k /\ g.visited = f.visited \cup {At(f, k)}
  BY DEF Resumed, EachFrames

LEMMA EachFrameFacts ==
  ASSUME NEW f \in EachFrames
  PROVE  /\ f \in Frames /\ f.m \in Each
         /\ f.k \in Indices /\ f.len \in Indices /\ f.k \in Nat /\ f.len \in Nat
         /\ f.visited \in SUBSET Indices /\ f.kept \in SUBSET Indices
<1>1. f \in Frames /\ f.m \in Each /\ f.k \in Indices /\ f.len \in Indices
      /\ f.visited \in SUBSET Indices /\ f.kept \in SUBSET Indices
  BY DEF EachFrames, Frames
<1>2. QED BY <1>1, IndexFacts

(* The next element to call the user's function for was not visited, and   *)
(* if there is none all that stayed were.                                  *)
LEMMA NextCall ==
  ASSUME NEW f, Resumable(f)
  PROVE  LET k == NextStep(f)
             g == Resumed(f, k)
         IN  \/ k = f.len /\ f.kept \subseteq f.visited
             \/ /\ k # f.len /\ g \in EachFrames /\ Progress(o, g)
                /\ g.m = f.m /\ g.k = k /\ At(g, g.k) = At(f, k)
                /\ At(f, k) \notin f.visited /\ Has(o, At(f, k))
<1> DEFINE k == NextStep(f)
           g == Resumed(f, k)
           l == f.len
           a == f.k
<1>1. /\ f \in EachFrames /\ a \in Nat /\ l \in Nat /\ l \in Indices /\ a <= l
      /\ f.visited \in SUBSET Indices /\ f.kept \in SUBSET Indices
  BY EachFrameFacts DEF Resumable
<1>2. /\ \A i \in f.visited : \E j \in 0 .. a - 1 : i = At(f, j)
      /\ \A i \in f.kept : Has(o, i) /\ (i \in f.visited \/ \E j \in a .. l - 1 : i = At(f, j))
  BY DEF Resumable
<1>3. /\ \A j \in 0 .. l - 1 : At(f, j) \in Indices
      /\ \A i, j \in Int : At(f, i) = At(f, j) => i = j
  BY <1>1, AtFacts
<1>4. \/ k = l /\ \A j \in a .. l - 1 : ~Has(o, At(f, j))
      \/ /\ k \in a .. l - 1 /\ Has(o, At(f, k))
         /\ \A j \in a .. k - 1 : ~Has(o, At(f, j))
  BY <1>1, NextStepFacts
<1> HIDE DEF k, l, a
<1>5. CASE k = l /\ \A j \in a .. l - 1 : ~Has(o, At(f, j))
  <2>1. f.kept \subseteq f.visited
    BY <1>2, <1>5
  <2>2. QED BY <1>5, <2>1 DEF k, l
<1>6. CASE /\ k \in a .. l - 1 /\ Has(o, At(f, k))
           /\ \A j \in a .. k - 1 : ~Has(o, At(f, j))
  <2>1. k \in Nat /\ a <= k /\ k < l /\ k # l /\ k \in 0 .. l - 1
    BY <1>1, <1>6
  <2>2. At(f, k) \in Indices /\ k \in Indices
    <3>1. At(f, k) \in Indices
      BY <1>3, <2>1
    <3>2. l < Modulus /\ Modulus \in Nat
      BY <1>1, IndexFacts
    <3>3. k < Modulus
      BY <1>1, <2>1, <3>2
    <3>4. QED BY <2>1, <3>1, <3>3, IndexFacts
  <2>3. /\ g \in EachFrames
        /\ g.m = f.m /\ g.len = l /\ g.kept = f.kept
        /\ g.k = k /\ g.visited = f.visited \cup {At(f, k)}
    BY <1>1, <2>2, ResumedFrame DEF l
  <2> HIDE DEF g
  <2>4. \A j : At(g, j) = At(f, j)
    BY <2>3 DEF At, l
  <2>5. At(f, k) \notin f.visited
    <3> SUFFICES ASSUME At(f, k) \in f.visited PROVE FALSE
      OBVIOUS
    <3>1. PICK j \in 0 .. a - 1 : At(f, k) = At(f, j)
      BY <1>2
    <3>2. j \in Int /\ k \in Int /\ j # k
      BY <1>1, <2>1
    <3>3. QED BY <1>3, <3>1, <3>2
  <2>6. \A i \in g.visited : \E j \in 0 .. k : i = At(g, j)
    <3> SUFFICES ASSUME NEW i \in g.visited
                 PROVE  \E j \in 0 .. k : i = At(g, j)
      OBVIOUS
    <3>1. CASE i = At(f, k)
      <4>1. k \in 0 .. k
        BY <2>1
      <4>2. QED BY <2>4, <3>1, <4>1
    <3>2. CASE i \in f.visited
      <4>1. PICK j \in 0 .. a - 1 : i = At(f, j)
        BY <1>2, <3>2
      <4>2. j \in 0 .. k
        BY <1>1, <2>1
      <4>3. QED BY <2>4, <4>1, <4>2
    <3>3. QED BY <2>3, <3>1, <3>2
  <2>7. \A i \in g.kept : Has(o, i) /\ (i \in g.visited \/ \E j \in k + 1 .. l - 1 : i = At(g, j))
    <3> SUFFICES ASSUME NEW i \in f.kept, i \notin g.visited
                 PROVE  Has(o, i) /\ \E j \in k + 1 .. l - 1 : i = At(g, j)
      BY <1>2, <2>3
    <3>1. Has(o, i) /\ i \notin f.visited /\ i # At(f, k)
      BY <1>2, <2>3
    <3>2. PICK j \in a .. l - 1 : i = At(f, j)
      BY <1>2, <3>1
    <3>3. j # k /\ ~(j \in a .. k - 1)
      BY <1>6, <3>1, <3>2
    <3>4. j \in k + 1 .. l - 1
      BY <1>1, <2>1, <3>3
    <3>5. QED BY <2>4, <3>1, <3>2, <3>4
  <2>8. Progress(o, g)
    BY <2>1, <2>3, <2>6, <2>7 DEF Progress
  <2>9. At(g, g.k) = At(f, k)
    BY <2>3, <2>4
  <2>10. QED BY <1>6, <2>1, <2>3, <2>5, <2>8, <2>9 DEF k, l, g
<1>7. QED BY <1>4, <1>5, <1>6

-----------------------------------------------------------------------------
(* What every step does: the frames up to n go on as they were, at most    *)
(* the last one is new, and the receiver stays well formed.                *)

SameBelow(n) ==
  /\ n \in Nat /\ n <= Len(frames) /\ n <= Len(frames')
  /\ n = Len(frames) => ~Quiet
  /\ \A i \in 1 .. n :
       /\ SameFrame(frames[i], frames'[i])
       /\ frames'[i].kept \subseteq frames[i].kept
       /\ o' = o \/ \A k \in frames'[i].kept : Has(o', k)

NewAbove(x, fs, n) ==
  \A i \in 1 .. Len(fs) : i > n =>
     /\ fs[i].m \in Each => Progress(x, fs[i])
     /\ fs[i].m = "length" => i = Len(fs) /\ x.array /\ fs[i].old = x.length

SoundStep ==
  /\ o' \in Objects /\ undefined' \in Causes
  /\ QuietLengths /\ LengthsInv /\ IndicesBelow(o) => IndicesBelow(o')

StepOK(n) == frames' \in Seq(Frames) /\ SoundStep /\ SameBelow(n) /\ NewAbove(o', frames', n)

LEMMA StackFacts ==
  ASSUME TypeOK
  PROVE  /\ o \in Objects /\ frames \in Seq(Frames) /\ undefined \in Causes
         /\ Len(frames) \in Nat /\ DOMAIN frames = 1 .. Len(frames)
         /\ \A i \in 1 .. Len(frames) : frames[i] \in Frames
<1>1. o \in Objects /\ frames \in Seq(Frames) /\ undefined \in Causes
  BY DEF TypeOK
<1>2. QED BY <1>1, LenProperties, ElementOfSeq

LEMMA WaitingTop ==
  ASSUME TypeOK, frames # <<>>
  PROVE  /\ Len(frames) > 0 /\ Waiting = frames[Len(frames)] /\ Waiting \in Frames
         /\ Front(frames) \in Seq(Frames) /\ Len(Front(frames)) = Len(frames) - 1
         /\ \A i \in 1 .. Len(frames) - 1 : Front(frames)[i] = frames[i]
<1>1. frames \in Seq(Frames)
  BY DEF TypeOK
<1>2. Waiting = Last(frames)
  BY DEF Waiting
<1>3. QED BY <1>1, <1>2, FrontFrames

LEMMA NobodyWaits ==
  ASSUME Waiting.m \in Each \cup {"sort", "length"}
  PROVE  frames # <<>>
  BY DEF Waiting, Each

LEMMA EachInvStep ==
  ASSUME EachInv, NEW n, StepOK(n)
  PROVE  EachInv'
<1>1. /\ o' \in Objects /\ undefined' \in Causes /\ frames' \in Seq(Frames)
      /\ SameBelow(n) /\ NewAbove(o', frames', n)
  BY DEF StepOK, SoundStep
<1>2. TypeOK'
  BY <1>1 DEF TypeOK
<1>3. Len(frames') \in Nat /\ DOMAIN frames' = 1 .. Len(frames')
  BY <1>1, LenProperties
<1>4. TypeOK /\ \A k \in DOMAIN frames : frames[k].m \in Each => Progress(o, frames[k])
  BY DEF EachInv
<1>5. Len(frames) \in Nat /\ DOMAIN frames = 1 .. Len(frames)
  BY <1>4, StackFacts
<1> DEFINE m == Len(frames)
<1>6. n \in Nat /\ n <= m /\ m \in Nat
  BY <1>1, <1>5 DEF SameBelow
<1>7. ASSUME NEW k \in 1 .. Len(frames'), frames'[k].m \in Each
      PROVE  Progress(o', frames'[k])
  <2>1. CASE k > n
    BY <1>1, <1>7, <2>1 DEF NewAbove
  <2>2. CASE ~(k > n)
    <3> DEFINE f == frames[k]
               g == frames'[k]
               x == o
               y == o'
    <3>1. k \in 1 .. n /\ k \in DOMAIN frames
      <4>1. k \in 1 .. n /\ k \in 1 .. m
        BY ONLY <1>6, <1>3, <2>2, k \in 1 .. Len(frames')
      <4>2. QED BY <1>5, <4>1
    <3>2. SameFrame(f, g) /\ g.kept \subseteq f.kept /\ (y = x \/ \A i \in g.kept : Has(y, i))
      BY <1>1, <3>1 DEF SameBelow
    <3>3. g.m \in Each
      BY <1>7
    <3>4. f.m \in Each => Progress(x, f)
      BY <1>4, <3>1
    <3> HIDE DEF f, g, x, y
    <3>5. f.m = g.m /\ g.k = f.k /\ g.len = f.len /\ g.visited = f.visited
      BY <3>2, <3>3 DEF SameFrame
    <3>6. \A j : At(g, j) = At(f, j)
      BY <3>5 DEF At
    <3>7. Progress(x, f)
      BY <3>3, <3>4, <3>5
    <3>8. \A i \in g.kept : Has(y, i)
      BY <3>2, <3>7 DEF Progress
    <3>9. Progress(y, g)
      BY <3>2, <3>5, <3>6, <3>7, <3>8 DEF Progress
    <3>10. QED BY <3>9 DEF g, y
  <2>3. QED BY <2>1, <2>2
<1>8. QED BY <1>2, <1>3, <1>7 DEF EachInv

LEMMA LengthsInvStep ==
  ASSUME TypeOK, QuietLengths, LengthsInv, NEW n, StepOK(n)
  PROVE  LengthsInv'
<1>1. /\ frames' \in Seq(Frames) /\ SameBelow(n) /\ NewAbove(o', frames', n)
  BY DEF StepOK
<1>2. Len(frames') \in Nat /\ DOMAIN frames' = 1 .. Len(frames')
  BY <1>1, LenProperties
<1>3. Len(frames) \in Nat /\ DOMAIN frames = 1 .. Len(frames)
  BY StackFacts
<1> DEFINE m == Len(frames)
<1>4. n \in Nat /\ n <= m /\ m \in Nat /\ (n = m => ~Quiet)
  BY <1>1, <1>3 DEF SameBelow
<1>5. ASSUME NEW k \in 1 .. Len(frames'), frames'[k].m = "length"
      PROVE  k = Len(frames') /\ o'.array /\ frames'[k].old = o'.length
  <2>1. CASE k > n
    BY <1>1, <1>5, <2>1 DEF NewAbove
  <2>2. CASE ~(k > n)
    <3>1. k \in 1 .. n /\ k \in 1 .. Len(frames)
      <4>1. k \in 1 .. n /\ k \in 1 .. m
        BY ONLY <1>2, <1>4, <2>2, k \in 1 .. Len(frames')
      <4>2. QED BY <4>1
    <3>2. frames[k].m = "length"
      BY <1>1, <1>5, <3>1 DEF SameBelow, SameFrame
    <3>3. k = Len(frames)
      BY <1>3, <3>1, <3>2 DEF LengthsInv
    <3>4. n = Len(frames) /\ ~Quiet
      <4>1. n = m
        BY <1>4, <2>2, <3>1, <3>3
      <4>2. QED BY <1>4, <4>1
    <3>5. Waiting = frames[k]
      <4>1. frames # <<>>
        BY <3>1
      <4>2. QED BY <3>3, <4>1, WaitingTop
    <3>6. QED BY <3>2, <3>4, <3>5 DEF Quiet
  <2>3. QED BY <2>1, <2>2
<1>6. QED BY <1>2, <1>5 DEF LengthsInv

LEMMA KeepStep ==
  ASSUME TypeOK, NEW fs \in Seq(Frames), Len(fs) <= Len(frames),
         \A i \in 1 .. Len(fs) : fs[i] = frames[i],
         Len(fs) = Len(frames) => ~Quiet,
         frames' = Keep(fs, o'), SoundStep
  PROVE  StepOK(Len(fs))
<1> DEFINE n == Len(fs)
           y == o'
           u == Keep(fs, y)
<1>1. /\ u \in Seq(Frames) /\ Len(u) = n
      /\ \A i \in 1 .. n :
           SameFrame(fs[i], u[i]) /\ u[i].kept = {k \in fs[i].kept : Has(y, k)}
  BY KeepFrames
<1>2. n \in Nat
  BY LenProperties
<1>3. frames' = u
  OBVIOUS
<1> HIDE DEF u, y, n
<1>4. \A i \in 1 .. n : /\ SameFrame(frames[i], u[i])
                        /\ u[i].kept \subseteq frames[i].kept
                        /\ \A k \in u[i].kept : Has(y, k)
  <2> SUFFICES ASSUME NEW i \in 1 .. n
               PROVE  /\ SameFrame(frames[i], u[i])
                      /\ u[i].kept \subseteq frames[i].kept
                      /\ \A k \in u[i].kept : Has(y, k)
    OBVIOUS
  <2>1. fs[i] = frames[i]
    BY DEF n
  <2>2. QED BY <1>1, <2>1
<1>5. SameBelow(n)
  BY <1>1, <1>2, <1>3, <1>4 DEF SameBelow, y, n
<1>6. NewAbove(y, u, n)
  BY <1>1, <1>2 DEF NewAbove
<1>7. QED BY <1>1, <1>3, <1>5, <1>6 DEF StepOK, y, n

LEMMA SuspendStep ==
  ASSUME TypeOK, NEW n \in Nat, NEW fs \in Seq(Frames), n <= Len(frames), n <= Len(fs),
         n = Len(frames) => ~Quiet, Suspend(fs),
         \A i \in 1 .. n : SameFrame(frames[i], fs[i]) /\ fs[i].kept \subseteq frames[i].kept,
         NewAbove(o, fs, n)
  PROVE  StepOK(n)
<1>1. frames' = fs /\ o' = o /\ undefined' = undefined
  BY DEF Suspend
<1>2. SoundStep
  BY <1>1 DEF SoundStep, TypeOK
<1>3. SameBelow(n)
  BY <1>1 DEF SameBelow
<1>4. QED BY <1>1, <1>2, <1>3 DEF StepOK

(* A function begins to wait, the last one ends, or both.                  *)
LEMMA PushStep ==
  ASSUME TypeOK, NEW fs \in Seq(Frames), NEW f \in Frames, Suspend(Append(fs, f)),
         Len(fs) <= Len(frames), \A i \in 1 .. Len(fs) : fs[i] = frames[i],
         Len(fs) = Len(frames) => ~Quiet,
         f.m \in Each => Progress(o, f),
         f.m = "length" => o.array /\ f.old = o.length
  PROVE  StepOK(Len(fs))
<1> DEFINE n == Len(fs)
           u == Append(fs, f)
<1>1. /\ u \in Seq(Frames) /\ Len(u) = n + 1
      /\ \A i \in 1 .. n : u[i] = fs[i]
      /\ u[n + 1] = f
  BY AppendFrames
<1>2. n \in Nat
  BY LenProperties
<1>3. n <= Len(frames) /\ (n = Len(frames) => ~Quiet) /\ Suspend(u) /\ \A i \in 1 .. n : fs[i] = frames[i]
  OBVIOUS
<1> HIDE DEF n, u
<1>4. NewAbove(o, u, n)
  <2>1. \A i \in 1 .. Len(u) : i > n => i = Len(u) /\ u[i] = f
    BY <1>1, <1>2
  <2>2. QED BY <2>1 DEF NewAbove
<1>5. \A i \in 1 .. n : SameFrame(frames[i], u[i]) /\ u[i].kept \subseteq frames[i].kept
  BY <1>1, <1>3 DEF SameFrame
<1>6. n <= Len(u)
  BY <1>1, <1>2
<1>7. QED BY <1>1, <1>2, <1>3, <1>4, <1>5, <1>6, SuspendStep DEF n

LEMMA PopStep ==
  ASSUME TypeOK, NEW fs \in Seq(Frames), Suspend(fs),
         Len(fs) <= Len(frames), \A i \in 1 .. Len(fs) : fs[i] = frames[i],
         Len(fs) = Len(frames) => ~Quiet
  PROVE  StepOK(Len(fs))
<1> DEFINE n == Len(fs)
<1>1. n \in Nat /\ n <= n
  BY LenProperties
<1>2. \A i \in 1 .. n : SameFrame(frames[i], fs[i]) /\ fs[i].kept \subseteq frames[i].kept
  BY DEF SameFrame
<1>3. NewAbove(o, fs, n)
  BY <1>1 DEF NewAbove
<1>4. QED BY <1>1, <1>2, <1>3, SuspendStep

-----------------------------------------------------------------------------
(* One lemma for each action.                                              *)

LEMMA ThrowStep ==
  ASSUME TypeOK, Throw
  PROVE  \E n \in Nat : StepOK(n)
<1> DEFINE fs == Front(frames)
<1>1. frames # <<>> /\ Suspend(fs)
  BY DEF Throw
<1>2. Len(frames) \in Nat /\ Len(frames) > 0
      /\ fs \in Seq(Frames) /\ Len(fs) = Len(frames) - 1
      /\ \A i \in 1 .. Len(frames) - 1 : fs[i] = frames[i]
  BY <1>1, WaitingTop, StackFacts
<1> HIDE DEF fs
<1>3. Len(fs) \in Nat /\ Len(fs) <= Len(frames) /\ Len(fs) # Len(frames)
  BY <1>2
<1>4. \A i \in 1 .. Len(fs) : fs[i] = frames[i]
  BY <1>2
<1>5. StepOK(Len(fs))
  BY <1>1, <1>2, <1>3, <1>4, PopStep
<1>6. QED BY <1>3, <1>5

LEMMA CollectStep ==
  ASSUME TypeOK, Collect
  PROVE  StepOK(Len(frames))
<1> DEFINE u == [i \in DOMAIN frames |-> Moved(frames[i])]
           n == Len(frames)
<1>1. n \in Nat /\ frames \in Seq(Frames)
  BY StackFacts
<1>2. /\ u \in Seq(Frames) /\ Len(u) = n
      /\ \A i \in 1 .. n : SameFrame(frames[i], u[i]) /\ u[i].kept = frames[i].kept
  BY <1>1, MovedFrames
<1>3. ~Quiet /\ Suspend(u)
  BY DEF Collect
<1> HIDE DEF u
<1>4. NewAbove(o, u, n)
  BY <1>1, <1>2 DEF NewAbove
<1>5. n <= n /\ n <= Len(u)
  BY <1>1, <1>2
<1>6. StepOK(n)
  BY <1>1, <1>2, <1>3, <1>4, <1>5, SuspendStep
<1>7. QED BY <1>6

LEMMA CallStep ==
  ASSUME TypeOK, NEW c \in Calls, Call(c)
  PROVE  StepOK(Len(frames))
<1>1. ~Quiet /\ o' = Apply(c, o).o /\ frames' = Keep(frames, o') /\ undefined' = undefined
  BY DEF Call
<1>2. o \in Objects /\ frames \in Seq(Frames) /\ Len(frames) \in Nat /\ undefined \in Causes
  BY StackFacts
<1>3. SoundStep
  BY <1>1, <1>2, ApplyKeeps DEF SoundStep
<1>4. QED BY <1>1, <1>2, <1>3, KeepStep

(* The two outcomes of going on with the next element.                     *)
LEMMA ProceedCases ==
  ASSUME NEW f, Resumable(f), NEW below, Proceed(f, below)
  PROVE  \/ Suspend(below) /\ f.kept \subseteq f.visited
         \/ \E g \in EachFrames :
              /\ Suspend(Append(below, g)) /\ Progress(o, g) /\ g.m = f.m
              /\ At(g, g.k) \notin f.visited /\ Has(o, At(g, g.k))
<1> DEFINE k == NextStep(f)
           g == Resumed(f, k)
<1>1. \/ k = f.len /\ f.kept \subseteq f.visited
      \/ /\ k # f.len /\ g \in EachFrames /\ Progress(o, g)
         /\ g.m = f.m /\ g.k = k /\ At(g, g.k) = At(f, k)
         /\ At(f, k) \notin f.visited /\ Has(o, At(f, k))
  BY NextCall
<1>2. Suspend(IF k = f.len THEN below ELSE Append(below, g))
  BY DEF Proceed, Resumed
<1> HIDE DEF k, g
<1>3. CASE k = f.len
  BY <1>1, <1>2, <1>3
<1>4. CASE k # f.len
  <2>1. Suspend(Append(below, g))
    BY <1>2, <1>4
  <2>2. QED BY <1>1, <1>4, <2>1
<1>5. QED BY <1>3, <1>4

LEMMA ProceedStep ==
  ASSUME TypeOK, NEW f, Resumable(f), NEW below \in Seq(Frames), Proceed(f, below),
         Len(below) <= Len(frames), \A i \in 1 .. Len(below) : below[i] = frames[i],
         Len(below) = Len(frames) => ~Quiet
  PROVE  StepOK(Len(below))
<1>1. CASE Suspend(below)
  BY <1>1, PopStep
<1>2. CASE \E g \in EachFrames : Suspend(Append(below, g)) /\ Progress(o, g)
  <2>1. PICK g \in EachFrames : Suspend(Append(below, g)) /\ Progress(o, g)
    BY <1>2
  <2>2. g \in Frames /\ g.m # "length"
    BY EachFrameFacts DEF Each
  <2>3. QED BY <2>1, <2>2, PushStep
<1>3. QED BY <1>1, <1>2, ProceedCases

(* What has been there at the beginning lies among the steps to come.      *)
LEMMA EachBeginFrame ==
  ASSUME TypeOK, NEW m \in Each
  PROVE  LET f == [m |-> m, k |-> 0, len |-> o.length, visited |-> {},
                   raw |-> "none", ptr |-> "receiver",
                   kept |-> {k \in 0 .. o.length - 1 : Has(o, k)}]
         IN  Resumable(f)
<1> DEFINE l == o.length
           S == {k \in 0 .. l - 1 : Has(o, k)}
           f == [m |-> m, k |-> 0, len |-> l, visited |-> {},
                 raw |-> "none", ptr |-> "receiver", kept |-> S]
<1>1. l \in Indices /\ 0 \in Indices /\ l \in Nat /\ l < Modulus /\ Modulus \in Nat
  <2>1. l \in Indices
    BY StackFacts, ObjectFields
  <2>2. QED BY <2>1, IndexFacts
<1>2. S \in SUBSET Indices
  <2>1. ASSUME NEW k \in 0 .. l - 1 PROVE k \in Indices
    <3>1. k \in Nat /\ k < Modulus
      BY <1>1
    <3>2. QED BY <3>1, IndexFacts
  <2>2. QED BY <2>1
<1>3. \A k \in S : k \in 0 .. l - 1 /\ Has(o, k)
  OBVIOUS
<1> HIDE DEF S, l
<1>4. /\ f \in EachFrames
      /\ f.m = m /\ f.k = 0 /\ f.len = l /\ f.visited = {} /\ f.kept = S
  BY <1>1, <1>2 DEF EachFrames
<1> HIDE DEF f
<1>5. ASSUME NEW i \in S PROVE \E j \in 0 .. l - 1 : i = At(f, j)
  <2>1. i \in 0 .. l - 1 /\ l - 1 - i \in 0 .. l - 1 /\ l - 1 - (l - 1 - i) = i
    BY <1>1, <1>3
  <2>2. CASE m = "reduceRight"
    <3>1. At(f, l - 1 - i) = i
      BY <1>4, <2>1, <2>2 DEF At
    <3>2. QED BY <2>1, <3>1
  <2>3. CASE m # "reduceRight"
    <3>1. At(f, i) = i
      BY <1>4, <2>3 DEF At
    <3>2. QED BY <2>1, <3>1
  <2>4. QED BY <2>2, <2>3
<1>6. f.k <= f.len
  BY <1>1, <1>4
<1>7. \A i \in f.kept : Has(o, i) /\ (i \in f.visited \/ \E j \in f.k .. f.len - 1 : i = At(f, j))
  BY <1>3, <1>4, <1>5
<1>8. QED BY <1>4, <1>6, <1>7 DEF Resumable, f, S, l

(* A step on, with the element of that step visited.                       *)
Passed(f, k, v) == [f EXCEPT !.k = k, !.visited = v]

LEMMA PassedFrame ==
  ASSUME NEW f \in EachFrames, NEW k \in Indices, NEW v \in SUBSET Indices
  PROVE  LET g == Passed(f, k, v)
         IN  /\ g \in EachFrames
             /\ g.m = f.m /\ g.len = f.len /\ g.kept = f.kept /\ g.k = k /\ g.visited = v
  BY DEF Passed, EachFrames

LEMMA EachBeginStep ==
  ASSUME TypeOK, NEW m \in Each, NEW initial \in BOOLEAN, EachBegin(m, initial)
  PROVE  StepOK(Len(frames))
<1> DEFINE f == [m |-> m, k |-> 0, len |-> o.length, visited |-> {},
                 raw |-> "none", ptr |-> "receiver",
                 kept |-> {i \in 0 .. o.length - 1 : Has(o, i)}]
           k == NextStep(f)
           g == Passed(f, k + 1, {At(f, k)})
           l == Len(frames)
<1>1. Resumable(f) /\ f.k = 0 /\ f.len = o.length /\ f.visited = {}
  BY EachBeginFrame
<1>2. ~Quiet /\ (Proceed(f, frames) \/ (k < f.len /\ Proceed(g, frames)))
  BY DEF EachBegin, MayCall, Passed
<1>3. frames \in Seq(Frames) /\ l \in Nat /\ l <= l
  BY StackFacts
<1>4. ASSUME NEW h, Resumable(h), Proceed(h, frames)
      PROVE  StepOK(l)
  BY <1>2, <1>3, <1>4, ProceedStep
<1> DEFINE len == f.len
<1>5. ASSUME k < len PROVE Resumable(g)
  <2>1. f \in EachFrames /\ len \in Nat /\ len \in Indices /\ f.k \in Nat /\ f.k <= len
    BY <1>1, EachFrameFacts DEF Resumable
  <2> HIDE DEF f
  <2>2. \/ k = len
        \/ /\ k \in f.k .. len - 1 /\ \A j \in f.k .. k - 1 : ~Has(o, At(f, j))
    BY <2>1, NextStepFacts
  <2>3. \A i \in f.kept : Has(o, i) /\ \E j \in 0 .. len - 1 : i = At(f, j)
    BY <1>1 DEF Resumable
  <2>4. \A j \in 0 .. len - 1 : At(f, j) \in Indices
    BY <2>1, AtFacts
  <2> HIDE DEF k, len
  <2>5. k \in 0 .. len - 1 /\ \A j \in 0 .. k - 1 : ~Has(o, At(f, j))
    BY <1>1, <1>5, <2>1, <2>2
  <2>6. k + 1 \in Indices /\ {At(f, k)} \in SUBSET Indices
    <3>1. At(f, k) \in Indices
      BY <2>4, <2>5
    <3>2. len < Modulus /\ Modulus \in Nat
      BY <2>1, IndexFacts
    <3>3. k + 1 \in Nat /\ k + 1 < Modulus
      BY <2>1, <2>5, <3>2
    <3>4. QED BY <3>1, <3>3, IndexFacts
  <2>7. /\ g \in EachFrames /\ g.m = f.m /\ g.len = len /\ g.kept = f.kept
        /\ g.k = k + 1 /\ g.visited = {At(f, k)}
    BY <2>1, <2>6, PassedFrame DEF len
  <2> HIDE DEF g
  <2>8. \A j : At(g, j) = At(f, j)
    BY <2>7 DEF At, len
  <2>9. \A i \in g.visited : \E j \in 0 .. g.k - 1 : i = At(g, j)
    <3>1. k \in 0 .. (k + 1) - 1
      BY <2>1, <2>5
    <3>2. QED BY <2>7, <2>8, <3>1
  <2>10. \A i \in g.kept : Has(o, i) /\ (i \in g.visited \/ \E j \in g.k .. g.len - 1 : i = At(g, j))
    <3> SUFFICES ASSUME NEW i \in f.kept, i # At(f, k)
                 PROVE  \E j \in k + 1 .. len - 1 : i = At(g, j)
      BY <2>3, <2>7
    <3>1. PICK j \in 0 .. len - 1 : i = At(f, j)
      BY <2>3
    <3>2. j # k /\ ~(j \in 0 .. k - 1)
      BY <2>3, <2>5, <3>1
    <3>3. j \in k + 1 .. len - 1
      BY <2>1, <2>5, <3>2
    <3>4. QED BY <2>8, <3>1, <3>3
  <2>11. g.k <= g.len
    BY <2>1, <2>5, <2>7
  <2>12. QED BY <2>7, <2>9, <2>10, <2>11 DEF Resumable
<1> HIDE DEF f, k, g, len
<1>6. QED BY <1>1, <1>2, <1>4, <1>5 DEF len

WithStep(f, k) == [f EXCEPT !.k = k]

LEMMA StepFrame ==
  ASSUME NEW f \in EachFrames, NEW k \in Indices
  PROVE  LET g == WithStep(f, k)
         IN  /\ g \in EachFrames
             /\ g.m = f.m /\ g.len = f.len /\ g.kept = f.kept /\ g.k = k /\ g.visited = f.visited
  BY DEF WithStep, EachFrames

(* When the user's function returns the steps up to its own are done.      *)
LEMMA EachReturnFrame ==
  ASSUME NEW f \in EachFrames, Progress(o, f)
  PROVE  LET g == WithStep(f, f.k + 1)
         IN  Resumable(g) /\ g.m = f.m /\ g.kept = f.kept /\ g.visited = f.visited
<1> DEFINE k == f.k
           len == f.len
           g == WithStep(f, k + 1)
<1>1. k \in Nat /\ len \in Nat /\ len \in Indices
  BY EachFrameFacts
<1>2. /\ k < len
      /\ \A i \in f.visited : \E j \in 0 .. k : i = At(f, j)
      /\ \A i \in f.kept : Has(o, i) /\ (i \in f.visited \/ \E j \in k + 1 .. len - 1 : i = At(f, j))
  BY DEF Progress
<1> HIDE DEF k
<1>3. k + 1 \in Indices
  <2>1. len < Modulus /\ Modulus \in Nat
    BY <1>1, IndexFacts
  <2> HIDE DEF len
  <2>2. k + 1 \in Nat /\ k + 1 < Modulus
    BY <1>1, <1>2, <2>1
  <2>3. QED BY <2>2, IndexFacts
<1>4. /\ g \in EachFrames
      /\ g.m = f.m /\ g.len = len /\ g.kept = f.kept /\ g.k = k + 1 /\ g.visited = f.visited
  BY <1>3, StepFrame
<1> HIDE DEF g, len
<1>5. \A j : At(g, j) = At(f, j)
  BY <1>4 DEF At, len
<1>6. (k + 1) - 1 = k /\ k + 1 <= len
  BY <1>1, <1>2
<1>7. \A i \in g.visited : \E j \in 0 .. g.k - 1 : i = At(g, j)
  BY <1>2, <1>4, <1>5, <1>6
<1>8. \A i \in g.kept : Has(o, i) /\ (i \in g.visited \/ \E j \in g.k .. g.len - 1 : i = At(g, j))
  BY <1>2, <1>4, <1>5
<1>9. g.k <= g.len
  BY <1>4, <1>6
<1>10. Resumable(g)
  BY <1>4, <1>7, <1>8, <1>9 DEF Resumable
<1>11. QED BY <1>4, <1>10 DEF g, k

(* What a return of the user's function leads to.                          *)
LEMMA EachReturnCases ==
  ASSUME EachInv, NEW yes \in BOOLEAN, EachReturn(yes)
  PROVE  LET f == Waiting
             below == Front(frames)
         IN  /\ f.m \in Each /\ frames # <<>>
             /\ \/ Suspend(below) /\ (f.m \notin {"every", "some"} => f.kept \subseteq f.visited)
                \/ \E g \in EachFrames :
                     /\ Suspend(Append(below, g)) /\ Progress(o, g)
                     /\ At(g, g.k) \notin f.visited /\ Has(o, At(g, g.k))
<1> DEFINE f == Waiting
           below == Front(frames)
           h == WithStep(f, f.k + 1)
<1>1. f.m \in Each /\ frames # <<>>
  BY NobodyWaits DEF EachReturn
<1>2. /\ f.m \in {"every", "some"} /\ Suspend(below)
      \/ Proceed(h, below)
  <2>1. f.ptr = "receiver"
    <3>1. f \in Frames
      BY <1>1, WaitingTop DEF EachInv
    <3>2. f.m # "length"
      BY <1>1 DEF Each
    <3>3. QED BY <3>1, <3>2, FrameFacts
  <2>2. QED BY <2>1 DEF EachReturn, WithStep
<1>3. f \in EachFrames /\ Progress(o, f)
  <2>1. TypeOK /\ \A k \in DOMAIN frames : frames[k].m \in Each => Progress(o, frames[k])
    BY DEF EachInv
  <2>2. f = frames[Len(frames)] /\ f \in Frames /\ Len(frames) > 0
    BY <1>1, <2>1, WaitingTop
  <2>3. Len(frames) \in Nat /\ DOMAIN frames = 1 .. Len(frames)
    BY <2>1, StackFacts
  <2>4. Len(frames) \in DOMAIN frames
    BY <2>2, <2>3
  <2> HIDE DEF f
  <2>5. QED BY <1>1, <2>1, <2>2, <2>4, FrameFacts
<1> HIDE DEF f, below
<1>4. Resumable(h) /\ h.m = f.m /\ h.kept = f.kept /\ h.visited = f.visited
  BY <1>3, EachReturnFrame
<1> HIDE DEF h
<1>5. CASE Proceed(h, below)
  <2>1. \/ Suspend(below) /\ h.kept \subseteq h.visited
        \/ \E g \in EachFrames :
             /\ Suspend(Append(below, g)) /\ Progress(o, g) /\ g.m = h.m
             /\ At(g, g.k) \notin h.visited /\ Has(o, At(g, g.k))
    BY <1>4, <1>5, ProceedCases
  <2>2. QED BY <1>1, <1>4, <2>1 DEF f, below
<1>6. CASE f.m \in {"every", "some"} /\ Suspend(below)
  BY <1>1, <1>6 DEF f, below
<1>7. QED BY <1>2, <1>5, <1>6

(* The frames below the top one.                                           *)
LEMMA BelowTop ==
  ASSUME TypeOK, frames # <<>>
  PROVE  LET fs == Front(frames)
         IN  /\ fs \in Seq(Frames) /\ Len(fs) \in Nat
             /\ Len(fs) <= Len(frames) /\ Len(fs) # Len(frames)
             /\ \A i \in 1 .. Len(fs) : fs[i] = frames[i]
<1> DEFINE fs == Front(frames)
           l == Len(frames)
<1>1. l \in Nat /\ l > 0
      /\ fs \in Seq(Frames) /\ Len(fs) = l - 1
      /\ \A i \in 1 .. l - 1 : fs[i] = frames[i]
  BY WaitingTop, StackFacts
<1> HIDE DEF fs, l
<1>2. Len(fs) \in Nat /\ Len(fs) <= l /\ Len(fs) # l
  BY <1>1
<1>3. QED BY <1>1, <1>2 DEF fs, l

LEMMA EachReturnStep ==
  ASSUME EachInv, NEW yes \in BOOLEAN, EachReturn(yes)
  PROVE  \E n \in Nat : StepOK(n)
<1> DEFINE fs == Front(frames)
<1>1. TypeOK /\ frames # <<>>
  BY EachReturnCases DEF EachInv
<1>2. \/ Suspend(fs)
      \/ \E g \in EachFrames : Suspend(Append(fs, g)) /\ Progress(o, g)
  BY EachReturnCases
<1>3. /\ fs \in Seq(Frames) /\ Len(fs) \in Nat
      /\ Len(fs) <= Len(frames) /\ Len(fs) # Len(frames)
      /\ \A i \in 1 .. Len(fs) : fs[i] = frames[i]
  BY <1>1, BelowTop
<1> HIDE DEF fs
<1>4. CASE Suspend(fs)
  <2>1. StepOK(Len(fs))
    BY <1>1, <1>3, <1>4, PopStep
  <2>2. QED BY <1>3, <2>1
<1>5. CASE \E g \in EachFrames : Suspend(Append(fs, g)) /\ Progress(o, g)
  <2>1. PICK g \in EachFrames : Suspend(Append(fs, g)) /\ Progress(o, g)
    BY <1>5
  <2>2. g \in Frames /\ g.m # "length"
    BY EachFrameFacts DEF Each
  <2>3. StepOK(Len(fs))
    BY <1>1, <1>3, <2>1, <2>2, PushStep
  <2>4. QED BY <1>3, <2>3
<1>6. QED BY <1>2, <1>4, <1>5

LEMMA SortBeginStep ==
  ASSUME TypeOK, SortBegin
  PROVE  StepOK(Len(frames))
<1> DEFINE s == Contents(o)
           f == [m |-> "sort", values |-> s, kept |-> {},
                 raw |-> "receiver", ptr |-> "receiver"]
           l == Len(frames)
<1>1. frames \in Seq(Frames) /\ l \in Nat /\ l <= l /\ o \in Objects
  BY StackFacts
<1>2. ~Quiet /\ Suspend(Append(frames, f))
  BY DEF SortBegin, MayCall
<1>3. s \in Seq(Elements) /\ Len(s) < Modulus
  <2> DEFINE n == o.length
  <2>1. n \in Nat /\ n < Modulus
    BY <1>1, LengthFacts
  <2>2. \A k \in 1 .. n : Get(o, k - 1) \in Elements
    BY <1>1, GetElement
  <2>3. s = [k \in 1 .. n |-> Get(o, k - 1)]
    BY DEF Contents
  <2> HIDE DEF n
  <2>4. s \in [1 .. n -> Elements]
    BY <2>2, <2>3
  <2>5. Len(s) = n
    BY <2>1, <2>4, LenProperties, SeqDef
  <2>6. QED BY <2>1, <2>4, <2>5, SeqDef
<1> HIDE DEF s
<1>4. f \in Frames /\ f.m = "sort" /\ "sort" \notin Each
  BY <1>3 DEF Frames, Each, References
<1> HIDE DEF f
<1>5. QED BY <1>1, <1>2, <1>4, PushStep

LEMMA LengthBeginStep ==
  ASSUME TypeOK, NEW n \in Lengths, LengthBegin(n)
  PROVE  StepOK(Len(frames))
<1> DEFINE old == o.length
           f == [m |-> "length", n |-> n, old |-> old, kept |-> {},
                 raw |-> "receiver", ptr |-> "none"]
           l == Len(frames)
<1>1. frames \in Seq(Frames) /\ l \in Nat /\ l <= l /\ o \in Objects
  BY StackFacts
<1>2. ~Quiet /\ Suspend(Append(frames, f)) /\ o.array
  BY DEF LengthBegin, MayCall
<1>3. old \in Indices /\ n \in Indices
  BY <1>1, ObjectFields, ArraysAssumption DEF Indices
<1>4. f \in Frames /\ f.m = "length" /\ "length" \notin Each /\ f.old = old
  BY <1>3 DEF Frames, Each, References
<1> HIDE DEF f
<1>5. QED BY <1>1, <1>2, <1>4, PushStep

LEMMA SortedValues ==
  ASSUME NEW s \in Seq(Elements), NEW l \in Sorted(s)
  PROVE  l \in Seq(Elements)
<1> DEFINE n == Len(s)
<1>1. n \in Nat /\ DOMAIN s = 1 .. n /\ \A k \in 1 .. n : s[k] \in Elements
  BY LenProperties, ElementOfSeq
<1>2. \E p \in [DOMAIN s -> DOMAIN s] : l = [k \in DOMAIN s |-> s[p[k]]]
  BY DEF Sorted
<1>3. PICK p \in [1 .. n -> 1 .. n] : l = [k \in 1 .. n |-> s[p[k]]]
  BY <1>1, <1>2
<1>4. \A k \in 1 .. n : s[p[k]] \in Elements
  BY <1>1
<1> HIDE DEF n
<1>5. l \in [1 .. n -> Elements]
  BY <1>3, <1>4
<1>6. QED BY <1>1, <1>5, SeqDef

(* sort stores by the reference that it took again.                        *)
LEMMA SortEndOutcome ==
  ASSUME TypeOK, NEW l, SortEnd(l)
  PROVE  /\ o' = PutAll(o, 0, l) /\ undefined' = undefined
         /\ frames' = Keep(Front(frames), o')
<1>1. Waiting.m = "sort" /\ StoreAndReturn(Waiting.ptr, PutAll(o, 0, l))
  BY DEF SortEnd, SortStored, SortRecaptured
<1>2. Waiting.ptr = "receiver"
  <2>1. frames # <<>>
    BY <1>1, NobodyWaits
  <2>2. Waiting \in Frames
    BY <2>1, WaitingTop
  <2>3. QED BY <1>1, <2>2, FrameFacts
<1>3. QED BY <1>1, <1>2 DEF StoreAndReturn

LEMMA SortEndStep ==
  ASSUME TypeOK, NEW l \in Sorted(Waiting.values), SortEnd(l)
  PROVE  \E n \in Nat : StepOK(n)
<1> DEFINE f == Waiting
           fs == Front(frames)
           b == IndicesBelow(o)
<1>1. f.m = "sort" /\ frames # <<>>
  BY NobodyWaits DEF SortEnd
<1>2. o' = PutAll(o, 0, l) /\ undefined' = undefined /\ frames' = Keep(fs, o')
  BY SortEndOutcome
<1>4. l \in Seq(Elements)
  <2>1. f \in Frames
    BY <1>1, WaitingTop
  <2>2. f.values \in Seq(Elements)
    BY <1>1, <2>1, FrameFacts
  <2>3. QED BY <2>2, SortedValues
<1>5. o' \in Objects /\ (IndicesBelow(o) => IndicesBelow(o'))
  <2>1. o \in Objects
    BY StackFacts
  <2>2. o \in Kin(o, FALSE) /\ (b => o \in Kin(o, TRUE))
    BY <2>1 DEF Kin
  <2> DEFINE z == 0
             x == o
             y == PutAll(x, z, l)
  <2>3. z \in Int
    OBVIOUS
  <2> HIDE DEF b, z, x
  <2>4. y \in Kin(x, FALSE)
    BY <1>4, <2>2, <2>3, PutAllStays DEF x
  <2>5. ASSUME b PROVE y \in Kin(x, TRUE)
    BY <1>4, <2>2, <2>3, <2>5, PutAllStays DEF x
  <2>6. QED BY <1>2, <2>4, <2>5 DEF Kin, b, x, z
<1>6. SoundStep
  BY <1>2, <1>5, StackFacts DEF SoundStep
<1>7. /\ fs \in Seq(Frames) /\ Len(fs) \in Nat
      /\ Len(fs) <= Len(frames) /\ Len(fs) # Len(frames)
      /\ \A i \in 1 .. Len(fs) : fs[i] = frames[i]
  BY <1>1, BelowTop
<1> HIDE DEF fs
<1>8. StepOK(Len(fs))
  BY <1>2, <1>6, <1>7, KeepStep
<1>9. QED BY <1>7, <1>8

LEMMA SortOverrunStep ==
  ASSUME TypeOK, SortOverrun
  PROVE  \E n \in Nat : StepOK(n)
<1> DEFINE fs == Front(frames)
           n == Len(fs)
<1>1. frames # <<>> /\ o' = o /\ undefined' \in Causes /\ frames' = fs
  BY NobodyWaits DEF SortOverrun, Causes
<1>2. /\ fs \in Seq(Frames) /\ n \in Nat
      /\ n <= Len(frames) /\ n # Len(frames)
      /\ \A i \in 1 .. n : fs[i] = frames[i]
  BY <1>1, BelowTop
<1>3. SoundStep
  BY <1>1, StackFacts DEF SoundStep
<1> HIDE DEF fs
<1>4. SameBelow(n)
  <2>1. n <= n
    BY <1>2
  <2>2. QED BY <1>1, <1>2, <2>1 DEF SameBelow, SameFrame
<1>5. NewAbove(o', frames', n)
  BY <1>1, <1>2 DEF NewAbove
<1>6. QED BY <1>1, <1>2, <1>3, <1>4, <1>5 DEF StepOK

(* The new length has been converted: nothing has happened to the array    *)
(* if user code only converts it.                                          *)
LEMMA LengthEndStep ==
  ASSUME TypeOK, LengthEnd
  PROVE  \E n \in Nat : StepOK(n)
<1> DEFINE f == Waiting
           fs == Front(frames)
           y == Cut(o, f.old, f.n)
<1>1. f.m = "length" /\ StoreAndReturn(f.raw, y)
  BY DEF LengthEnd
<1>2. frames # <<>>
  BY <1>1, NobodyWaits
<1>3. f \in Frames /\ f = frames[Len(frames)] /\ o \in Objects
      /\ Len(frames) \in Nat /\ DOMAIN frames = 1 .. Len(frames) /\ Len(frames) > 0
  BY <1>2, WaitingTop, StackFacts
<1>4. f.n \in Indices /\ f.old \in Indices
  BY <1>1, <1>3, FrameFacts
<1>5. (o' = o \/ o' = y) /\ undefined' \in {undefined, "released"} /\ frames' = Keep(fs, o')
  BY <1>1 DEF StoreAndReturn
<1>6. o' \in Objects /\ undefined' \in Causes
  <2>1. y \in Objects
    BY <1>3, <1>4, CutObject
  <2>2. undefined \in Causes
    BY StackFacts
  <2> HIDE DEF y
  <2>3. QED BY <1>3, <1>5, <2>1, <2>2 DEF Causes
<1>7. ASSUME QuietLengths, LengthsInv
      PROVE  IndicesBelow(o) => IndicesBelow(o')
  <2>1. o.array /\ f.old = o.length
    <3>1. Len(frames) \in DOMAIN frames /\ frames[Len(frames)].m = "length"
      BY <1>1, <1>3
    <3>2. QED BY <1>3, <1>7, <3>1 DEF LengthsInv
  <2>2. o' = o \/ o' = Cut(o, o.length, f.n)
    BY <1>5, <2>1
  <2>3. ASSUME IndicesBelow(o) PROVE IndicesBelow(o')
    <3>1. o \in Kin(o, TRUE)
      BY <1>3, <2>3 DEF Kin
    <3> DEFINE m == f.n
    <3>2. m \in Indices
      BY <1>4
    <3> HIDE DEF m
    <3>3. Cut(o, o.length, m) \in Kin(o, TRUE)
      BY <2>1, <3>1, <3>2, CutStays
    <3>4. QED BY <2>2, <2>3, <3>3 DEF Kin, m
  <2>4. QED BY <2>3
<1>8. SoundStep
  BY <1>6, <1>7 DEF SoundStep
<1>9. /\ fs \in Seq(Frames) /\ Len(fs) \in Nat
      /\ Len(fs) <= Len(frames) /\ Len(fs) # Len(frames)
      /\ \A i \in 1 .. Len(fs) : fs[i] = frames[i]
  BY <1>2, BelowTop
<1> HIDE DEF fs, f, y
<1>10. StepOK(Len(fs))
  BY <1>5, <1>8, <1>9, KeepStep
<1>11. QED BY <1>9, <1>10

LEMMA EveryStep ==
  ASSUME EachInv, Step
  PROVE  \E n \in Nat : StepOK(n)
<1>1. TypeOK /\ Len(frames) \in Nat
  BY StackFacts DEF EachInv
<1>2. ASSUME NEW c \in IF frames = <<>> THEN Calls ELSE UserCalls, Call(c)
      PROVE  StepOK(Len(frames))
  <2>1. c \in Calls
    BY ArraysAssumption
  <2>2. QED BY <1>1, <1>2, <2>1, CallStep
<1>3. ASSUME NEW m \in Each, NEW initial \in BOOLEAN, EachBegin(m, initial)
      PROVE  StepOK(Len(frames))
  BY <1>1, <1>3, EachBeginStep
<1>4. ASSUME NEW yes \in BOOLEAN, EachReturn(yes)
      PROVE  \E n \in Nat : StepOK(n)
  BY <1>4, EachReturnStep
<1>5. ASSUME NEW l \in Sorted(Waiting.values), SortEnd(l)
      PROVE  \E n \in Nat : StepOK(n)
  BY <1>1, <1>5, SortEndStep
<1>6. ASSUME NEW n \in Lengths, LengthBegin(n)
      PROVE  StepOK(Len(frames))
  BY <1>1, <1>6, LengthBeginStep
<1>7. QED BY <1>1, <1>2, <1>3, <1>4, <1>5, <1>6, SortBeginStep, SortOverrunStep, LengthEndStep, ThrowStep,
          CollectStep DEF Step

LEMMA InitHolds ==
  ASSUME Init
  PROVE  EachInv /\ ArrayInv
<1>1. o \in Objects /\ IndicesBelow(o) /\ frames = <<>> /\ undefined \in Causes
  BY ArraysAssumption DEF Init, Causes
<1>2. frames \in Seq(Frames) /\ DOMAIN frames = {}
  BY <1>1, EmptySeq
<1>3. QED BY <1>1, <1>2 DEF EachInv, ArrayInv, TypeOK, LengthsInv, IndicesBelowLength

LEMMA EachInvNext ==
  ASSUME EachInv, [Next]_vars
  PROVE  EachInv'
<1>1. CASE Step
  BY <1>1, EveryStep, EachInvStep
<1>2. CASE UNCHANGED vars
  BY <1>2 DEF vars, EachInv, TypeOK
<1>3. QED BY <1>1, <1>2 DEF Next

LEMMA ArrayInvNext ==
  ASSUME QuietLengths, EachInv, ArrayInv, [Next]_vars
  PROVE  ArrayInv'
<1>1. CASE Step
  <2>1. PICK n \in Nat : StepOK(n)
    BY <1>1, EveryStep
  <2>2. TypeOK /\ LengthsInv /\ IndicesBelow(o)
    BY DEF ArrayInv, IndicesBelowLength
  <2>3. TypeOK'
    BY <2>1, EachInvStep DEF EachInv
  <2>4. LengthsInv'
    BY <2>1, <2>2, LengthsInvStep
  <2>5. IndicesBelow(o')
    BY <2>1, <2>2 DEF StepOK, SoundStep
  <2>6. QED BY <2>3, <2>4, <2>5 DEF ArrayInv, IndicesBelowLength
<1>2. CASE UNCHANGED vars
  BY <1>2 DEF vars, ArrayInv, TypeOK, LengthsInv, IndicesBelowLength
<1>3. QED BY <1>1, <1>2 DEF Next

(* The frames are always well formed, and every call of a user's function  *)
(* for an element has a step that the frame accounts for                   *)
(* (for_each_helper, array_reduce).                                        *)
THEOREM EachFramesWait == Spec => []EachInv
<1>1. Init => EachInv
  BY InitHolds
<1>2. EachInv /\ [Next]_vars => EachInv'
  BY EachInvNext
<1>3. QED BY <1>1, <1>2, PTL DEF Spec

(* Arrays: the receiver and the frames have their types.                   *)
THEOREM ArrayTypes == Spec => []TypeOK
<1>1. EachInv => TypeOK
  BY DEF EachInv
<1>2. QED BY <1>1, EachFramesWait, PTL

LEMMA ArrayInvHolds ==
  ASSUME QuietLengths
  PROVE  Spec => []ArrayInv
<1>1. Init => ArrayInv
  BY InitHolds
<1>2. EachInv /\ ArrayInv /\ [Next]_vars => ArrayInv'
  BY ArrayInvNext
<1>3. QED BY <1>1, <1>2, EachFramesWait, PTL DEF Spec

(* No element of an array is at length or above, after any sequence of the *)
(* functions of Array.prototype and of changes by user code they wait for, *)
(* if user code that converts a new length leaves the array alone          *)
(* (array_object::put, put_length).                                        *)
THEOREM ArrayIndices == QuietLengths /\ Spec => []IndicesBelowLength
<1> SUFFICES ASSUME QuietLengths PROVE Spec => []IndicesBelowLength
  OBVIOUS
<1>1. ArrayInv => IndicesBelowLength
  BY DEF ArrayInv
<1>2. Spec => []ArrayInv
  BY ArrayInvHolds
<1>3. QED BY <1>1, <1>2, PTL

(* A step by which the program goes on with memory that an object has left *)
(* is the end of put_length.                                               *)
LEMMA StaleStep ==
  ASSUME TypeOK, Step, undefined = "none", undefined' = "released"
  PROVE  Waiting.m = "length"
<1>1. undefined' # undefined /\ undefined' # "overrun"
  OBVIOUS
<1>2. \A fs : ~Suspend(fs)
  BY <1>1 DEF Suspend
<1>3. ASSUME NEW c, Call(c) PROVE FALSE
  BY <1>1, <1>3 DEF Call
<1>4. ASSUME NEW m, NEW initial, EachBegin(m, initial) PROVE FALSE
  BY <1>2, <1>4 DEF EachBegin, Proceed
<1>5. ASSUME NEW yes \in BOOLEAN, EachReturn(yes) PROVE FALSE
  <2>1. Waiting.m \in Each /\ frames # <<>>
    BY <1>5, NobodyWaits DEF EachReturn
  <2>2. Waiting \in Frames
    BY <2>1, WaitingTop
  <2>3. Waiting.ptr = "receiver"
    BY <2>1, <2>2, FrameFacts DEF Each
  <2>4. QED BY <1>2, <1>5, <2>3 DEF EachReturn, Proceed
<1>6. ASSUME NEW l, SortEnd(l) PROVE FALSE
  BY <1>1, <1>6, SortEndOutcome
<1>7. ASSUME NEW n, LengthBegin(n) PROVE FALSE
  BY <1>2, <1>7 DEF LengthBegin
<1>8. ~SortBegin /\ ~SortOverrun /\ ~Throw /\ ~Collect
  BY <1>1, <1>2 DEF SortBegin, SortOverrun, Throw, Collect
<1>9. LengthEnd
  BY <1>3, <1>4, <1>5, <1>6, <1>7, <1>8 DEF Step
<1>10. QED BY <1>9 DEF LengthEnd

(* However user code nests, changes the receiver and collects garbage, a   *)
(* function that goes on with a reference to an object that has moved is   *)
(* put_length; sort, forEach and the others never do                       *)
(* (for_each_helper, array_reduce, Array.prototype.sort).                  *)
THEOREM OthersRecapture == Spec => OnlyLengthGoesStale
<1>1. TypeOK /\ [Next]_vars =>
        [undefined' = "released" /\ undefined # "released" => Waiting.m = "length"]_vars
  BY StaleStep DEF Next
<1>2. QED BY <1>1, ArrayTypes, PTL DEF Spec, OnlyLengthGoesStale

(* A step that leaves the number of frames alone lets the top one stay at  *)
(* its element, or the user's function has returned.                       *)
LEMMA TopStays ==
  ASSUME EachInv, Step, Waiting.m \in Each, Len(frames') = Len(frames)
  PROVE  Last(frames').k = Waiting.k \/ \E yes \in BOOLEAN : EachReturn(yes)
<1> DEFINE l == Len(frames)
<1>1. TypeOK /\ frames # <<>>
  BY NobodyWaits DEF EachInv
<1>2. l \in Nat /\ l > 0 /\ Waiting = frames[l] /\ Len(Front(frames)) = l - 1
  BY <1>1, WaitingTop, StackFacts
<1>3. Waiting.m # "sort" /\ Waiting.m # "length"
  BY DEF Each
<1>4. ~Throw
  <2>1. Throw => frames' = Front(frames)
    BY DEF Throw, Suspend
  <2>2. l # l - 1
    BY <1>2
  <2>3. QED BY <1>2, <2>1, <2>2
<1>5. ASSUME StepOK(l) PROVE Last(frames').k = Waiting.k
  <2>1. l \in 1 .. l
    BY <1>2
  <2>2. SameFrame(frames[l], frames'[l])
    BY <1>5, <2>1 DEF StepOK, SameBelow
  <2>3. Last(frames') = frames'[l]
    BY DEF Last
  <2>4. QED BY <1>2, <2>2, <2>3 DEF SameFrame
<1>6. \A c : (c \in IF frames = <<>> THEN Calls ELSE UserCalls) => c \in Calls
  BY ArraysAssumption
<1>7. ~LengthEnd /\ ~SortOverrun /\ ~(Waiting.m = "sort" /\ \E s \in Sorted(Waiting.values) : SortEnd(s))
  BY <1>3 DEF LengthEnd, SortOverrun
<1>8. QED BY <1>1, <1>4, <1>5, <1>6, <1>7, CallStep, EachBeginStep, SortBeginStep, LengthBeginStep,
             CollectStep DEF Step

LEMMA EachCallStep ==
  ASSUME EachInv, Step
  PROVE  EachCall(Waiting, Last(frames'))
<1> DEFINE f == Waiting
           g == Last(frames')
           below == Front(frames)
           l == Len(frames)
<1>1. SUFFICES ASSUME f.m \in Each
               PROVE  /\ Len(frames') = l /\ g.k # f.k =>
                           At(g, g.k) \notin f.visited /\ Has(o, At(g, g.k))
                      /\ Len(frames') < l /\ f.m \notin {"every", "some"}
                           /\ (\E yes \in BOOLEAN : EachReturn(yes)) => f.kept \subseteq f.visited
  BY DEF EachCall
<1>2. TypeOK /\ frames # <<>>
  BY <1>1, NobodyWaits DEF EachInv
<1>3. l \in Nat /\ l > 0 /\ below \in Seq(Frames) /\ Len(below) = l - 1
  BY <1>2, WaitingTop, StackFacts
<1>4. ASSUME NEW yes \in BOOLEAN, EachReturn(yes)
      PROVE  \/ /\ Len(frames') < l /\ Len(frames') # l
                /\ f.m \notin {"every", "some"} => f.kept \subseteq f.visited
             \/ /\ Len(frames') = l /\ ~(Len(frames') < l)
                /\ At(g, g.k) \notin f.visited /\ Has(o, At(g, g.k))
  <2>1. CASE Suspend(below) /\ (f.m \notin {"every", "some"} => f.kept \subseteq f.visited)
    <3>1. Len(frames') = l - 1
      BY <1>3, <2>1 DEF Suspend
    <3>2. Len(frames') < l /\ Len(frames') # l
      BY <1>3, <3>1
    <3>3. QED BY <2>1, <3>2
  <2>2. CASE \E h \in EachFrames :
               /\ Suspend(Append(below, h)) /\ Progress(o, h)
               /\ At(h, h.k) \notin f.visited /\ Has(o, At(h, h.k))
    <3>1. PICK h \in EachFrames :
               /\ Suspend(Append(below, h))
               /\ At(h, h.k) \notin f.visited /\ Has(o, At(h, h.k))
      BY <2>2
    <3>2. h \in Frames
      BY EachFrameFacts
    <3> DEFINE u == Append(below, h)
    <3>3. frames' = u
      BY <3>1 DEF Suspend
    <3>4. Len(u) = Len(below) + 1 /\ u[Len(below) + 1] = h
      BY <1>3, <3>2, AppendFrames
    <3> HIDE DEF u
    <3>5. Len(u) = l /\ ~(Len(u) < l)
      BY <1>3, <3>4
    <3>6. g = h
      BY <3>3, <3>4, <3>5 DEF Last
    <3>7. QED BY <3>1, <3>3, <3>5, <3>6
  <2>3. QED BY <1>4, <2>1, <2>2, EachReturnCases
<1>5. ASSUME Len(frames') = l, g.k # f.k
      PROVE  At(g, g.k) \notin f.visited /\ Has(o, At(g, g.k))
  <2>1. \E yes \in BOOLEAN : EachReturn(yes)
    BY <1>1, <1>5, TopStays
  <2>2. QED BY <1>4, <1>5, <2>1
<1>6. ASSUME Len(frames') < l, f.m \notin {"every", "some"}, \E yes \in BOOLEAN : EachReturn(yes)
      PROVE  f.kept \subseteq f.visited
  BY <1>4, <1>6
<1>7. QED BY <1>5, <1>6

(* forEach and its like call the user's function for each element that is  *)
(* there all the time, once, and for none that is not there at its turn    *)
(* (for_each_helper, array_reduce).                                        *)
THEOREM EachElements == Spec => EachElementOnce
<1>1. EachInv /\ [Next]_vars => [EachCall(Waiting, Last(frames'))]_vars
  BY EachCallStep DEF Next
<1>2. QED BY <1>1, EachFramesWait, PTL DEF Spec, EachElementOnce

-----------------------------------------------------------------------------
(* What the functions of Array.prototype do to an extensible object, place *)
(* by place.                                                               *)

Places == 0 .. Modulus - 2
Open == {x \in Objects : x.level = Extensible}

(* What an object has of its own at a place, and what is seen there: the   *)
(* prototype shows through a hole.                                         *)
Slot(x, i) == IF Own(x, i) THEN x.props[i] ELSE Hole
Thru(e, i) == IF e = Hole /\ i \in DOMAIN Inherited THEN Inherited[i] ELSE e
Seen(x, i) == Thru(Slot(x, i), i)

LEMMA PlaceFacts ==
  /\ Modulus \in Nat /\ Modulus > 1
  /\ \A i : i \in Places <=> i \in Nat /\ i + 1 < Modulus
  /\ \A i \in Places : i \in Indices /\ i # invalid_index_value /\ i + 1 \in Indices /\ Wrap(i) = i
<1>1. Modulus \in Nat /\ Modulus > 1
  BY ArraysAssumption
<1>2. \A i \in 0 .. Modulus - 2 : i % Modulus = i
  BY <1>1
<1>3. QED BY <1>1, <1>2 DEF Places, Indices, Wrap, invalid_index_value

LEMMA HoleFacts ==
  /\ Hole \notin Elements
  /\ \A i \in DOMAIN Inherited : Inherited[i] \in Elements
  BY ArraysAssumption DEF Elements

LEMMA ThruFacts ==
  ASSUME NEW e \in Elements \cup {Hole}, NEW i
  PROVE  /\ Thru(e, i) \in Elements \cup {Hole}
         /\ Thru(Thru(e, i), i) = Thru(e, i)
         /\ e \in Elements => Thru(e, i) = e
  BY HoleFacts DEF Thru

LEMMA SlotFacts ==
  ASSUME NEW x \in Objects, NEW i
  PROVE  /\ Slot(x, i) \in Elements \cup {Hole}
         /\ Own(x, i) => Slot(x, i) = x.props[i] /\ Slot(x, i) # Hole
         /\ ~Own(x, i) => Slot(x, i) = Hole
         /\ Seen(x, i) \in Elements \cup {Hole} /\ Thru(Seen(x, i), i) = Seen(x, i)
         /\ Has(x, i) <=> Seen(x, i) # Hole
         /\ Get(x, i) = IF Seen(x, i) = Hole THEN Undefined ELSE Seen(x, i)
         /\ Get(x, i) \in Elements
<1>1. x.props \in [DOMAIN x.props -> Elements]
  BY ObjectFields
<1>2. Own(x, i) => x.props[i] \in Elements
  BY <1>1 DEF Own
<1>3. Slot(x, i) \in Elements \cup {Hole}
  BY <1>2 DEF Slot
<1>4. Seen(x, i) \in Elements \cup {Hole} /\ Thru(Seen(x, i), i) = Seen(x, i)
  BY <1>3, ThruFacts DEF Seen
<1>5. (Own(x, i) => Slot(x, i) = x.props[i] /\ Slot(x, i) # Hole) /\ (~Own(x, i) => Slot(x, i) = Hole)
  BY <1>2, HoleFacts DEF Slot
<1>6. Has(x, i) <=> Seen(x, i) # Hole
  BY <1>5, HoleFacts DEF Has, Seen, Thru
<1>7. Get(x, i) = IF Seen(x, i) = Hole THEN Undefined ELSE Seen(x, i)
  BY <1>5, HoleFacts DEF Get, Seen, Thru
<1>8. QED BY <1>3, <1>4, <1>5, <1>6, <1>7, GetElement

LEMMA OpenFacts ==
  ASSUME NEW x \in Open
  PROVE  x \in Objects /\ x.level = Extensible /\ x.level # Frozen /\ ~(x.level >= Sealed)
         /\ x.length \in Nat /\ x.length < Modulus
  BY LengthFacts DEF Open, Extensible, Frozen, Sealed

LEMMA StoreSlot ==
  ASSUME NEW x \in Open, NEW i \in Indices, NEW v \in Elements
  PROVE  /\ Store(x, i, v) \in Open
         /\ Store(x, i, v).array = x.array /\ Store(x, i, v).length = x.length
         /\ \A j : Slot(Store(x, i, v), j) = IF j = i THEN v ELSE Slot(x, j)
<1> DEFINE y == Store(x, i, v)
           D == DOMAIN x.props \cup {i}
           p == [j \in D |-> IF j = i THEN v ELSE x.props[j]]
<1>1. x \in Objects
  BY OpenFacts
<1>2. /\ y \in Objects /\ y.length = x.length /\ y.array = x.array /\ y.level = x.level
      /\ DOMAIN y.props = D
  BY <1>1, StoreKin
<1>3. D \in SUBSET Indices /\ p \in [D -> Elements]
  BY <1>1, ObjectFields
<1>4. y = WithProps(x, p)
  BY DEF Store, WithProps
<1> HIDE DEF y, p
<1>5. y.props = p
  BY <1>1, <1>3, <1>4, WithPropsObject
<1>6. \A j : Slot(y, j) = IF j = i THEN v ELSE Slot(x, j)
  BY <1>2, <1>5 DEF Slot, Own, p
<1>7. QED BY <1>2, <1>6 DEF y, Open

LEMMA PutSlot ==
  ASSUME NEW x \in Open, NEW i \in Places, NEW v \in Elements
  PROVE  /\ Put(x, i, v) \in Open /\ Put(x, i, v).array = x.array
         /\ Put(x, i, v).length = IF x.array /\ i >= x.length THEN i + 1 ELSE x.length
         /\ \A j : Slot(Put(x, i, v), j) = IF j = i THEN v ELSE Slot(x, j)
<1>1. i \in Indices /\ i # invalid_index_value /\ i + 1 \in Indices
  BY PlaceFacts
<1>2. x \in Objects /\ x.level = Extensible /\ x.level # Frozen
  BY OpenFacts
<1>3. CASE ~x.array
  <2>1. Put(x, i, v) = Store(x, i, v)
    BY <1>2, <1>3 DEF Put, ObjectPut
  <2>2. QED BY <1>1, <1>3, <2>1, StoreSlot
<1>4. CASE x.array
  <2> DEFINE y == Grown(x, i)
  <2>1. /\ y \in Open /\ y.array = x.array /\ y.props = x.props
        /\ y.length = IF i >= x.length THEN i + 1 ELSE x.length
    <3>1. CASE i >= x.length
      <4>1. y = WithLength(x, i + 1)
        BY <1>1, <3>1 DEF Grown, WithLength
      <4> HIDE DEF y
      <4>2. QED BY <1>1, <1>2, <3>1, <4>1, WithLengthObject DEF Open
    <3>2. CASE ~(i >= x.length)
      BY <3>2 DEF Grown
    <3>3. QED BY <3>1, <3>2
  <2>2. Put(x, i, v) = Store(y, i, v)
    <3>1. CanPut(x, i)
      BY <1>2 DEF CanPut
    <3>2. Put(x, i, v) = ObjectPut(y, i, v)
      BY <1>2, <1>4, <3>1 DEF Put, ArrayPut
    <3> HIDE DEF y
    <3>3. y.level = Extensible /\ y.level # Frozen
      BY <2>1, OpenFacts
    <3>4. QED BY <3>2, <3>3 DEF ObjectPut
  <2> HIDE DEF y
  <2>3. \A j : Slot(y, j) = Slot(x, j)
    BY <2>1 DEF Slot, Own
  <2> DEFINE z == Store(y, i, v)
  <2>4. /\ z \in Open /\ z.array = y.array /\ z.length = y.length
        /\ \A j : Slot(z, j) = IF j = i THEN v ELSE Slot(y, j)
    BY <1>1, <2>1, StoreSlot
  <2> HIDE DEF z
  <2>5. \A j : Slot(z, j) = IF j = i THEN v ELSE Slot(x, j)
    BY <2>3, <2>4
  <2>6. Put(x, i, v) = z
    BY <2>2 DEF z
  <2>7. QED BY <1>4, <2>1, <2>4, <2>5, <2>6
<1>5. QED BY <1>3, <1>4

LEMMA DeleteSlot ==
  ASSUME NEW x \in Open, NEW i
  PROVE  /\ Delete(x, i) \in Open /\ Delete(x, i).array = x.array
         /\ Delete(x, i).length = x.length
         /\ \A j : Slot(Delete(x, i), j) = IF j = i THEN Hole ELSE Slot(x, j)
<1> DEFINE D == DOMAIN x.props \ {i}
           p == [j \in D |-> x.props[j]]
           y == Delete(x, i)
<1>1. x \in Objects /\ ~(x.level >= Sealed)
  BY OpenFacts
<1>2. D \in SUBSET Indices /\ p \in [D -> Elements] /\ DOMAIN p = D
  BY <1>1, ObjectFields
<1>3. y = WithProps(x, p)
  BY <1>1 DEF Delete, WithProps
<1> HIDE DEF y, p
<1>4. y \in Objects /\ y.props = p /\ y.length = x.length /\ y.array = x.array /\ y.level = x.level
  BY <1>1, <1>2, <1>3, WithPropsObject
<1>5. \A j : Slot(y, j) = IF j = i THEN Hole ELSE Slot(x, j)
  BY <1>2, <1>4 DEF Slot, Own, p
<1>6. QED BY <1>4, <1>5 DEF y, Open

LEMMA MoveSlot ==
  ASSUME NEW x \in Open, NEW i, NEW k \in Places
  PROVE  /\ Move(x, i, k) \in Open /\ Move(x, i, k).array = x.array
         /\ \A j : Slot(Move(x, i, k), j) = IF j = k THEN Seen(x, i) ELSE Slot(x, j)
<1>1. x \in Objects
  BY OpenFacts
<1>2. CASE Has(x, i)
  <2>1. Get(x, i) \in Elements /\ Get(x, i) = Seen(x, i)
    BY <1>1, <1>2, SlotFacts
  <2>2. Move(x, i, k) = Put(x, k, Get(x, i))
    BY <1>2 DEF Move
  <2>3. QED BY <2>1, <2>2, PutSlot
<1>3. CASE ~Has(x, i)
  <2>1. Seen(x, i) = Hole
    BY <1>1, <1>3, SlotFacts
  <2>2. Move(x, i, k) = Delete(x, k)
    BY <1>3 DEF Move
  <2>3. QED BY <2>1, <2>2, DeleteSlot
<1>4. QED BY <1>2, <1>3

LEMMA DownIndices ==
  ASSUME NEW a \in Int, NEW c \in Int
  PROVE  /\ DOMAIN Down(a, c) = 1 .. Greater(c - a, 0) /\ Greater(c - a, 0) \in Nat
         /\ \A i \in 1 .. Greater(c - a, 0) : Down(a, c)[i] = c - i
<1> DEFINE n == Greater(c - a, 0)
           u == Up(a, c)
           s == Down(a, c)
<1>1. n \in Nat /\ (n > 0 => n = c - a) /\ a \in Int /\ c \in Int
  BY DEF Greater
<1>2. Len(u) = n /\ \A k \in 1 .. n : u[k] = a + k - 1
  BY <1>1, UpNumbers
<1> HIDE DEF n, u
<1>3. s = [k \in 1 .. n |-> u[(n - k) + 1]]
  BY <1>2 DEF Down, Reverse, u
<1>4. \A k \in 1 .. n : (n - k) + 1 \in 1 .. n /\ a + ((n - k) + 1) - 1 = c - k
  BY <1>1
<1>5. QED BY <1>1, <1>2, <1>3, <1>4 DEF n

(* Elements put one after the other from place n on.                       *)
LEMMA PutAllSlots ==
  ASSUME NEW x \in Open, NEW n \in Nat, NEW items \in Seq(Elements), n + Len(items) < Modulus
  PROVE  LET y == PutAll(x, n, items)
         IN  /\ y \in Open /\ y.array = x.array
             /\ x.array /\ x.length = n => y.length = n + Len(items)
             /\ \A j \in Nat : Slot(y, j) = IF n <= j /\ j < n + Len(items) THEN items[j - n + 1] ELSE Slot(x, j)
<1> DEFINE l == Len(items)
           es == [k \in DOMAIN items |-> <<Wrap(n + k - 1), items[k]>>]
           Done(i) == {y \in Open :
                         /\ y.array = x.array
                         /\ x.array /\ x.length = n => y.length = n + i
                         /\ \A j \in Nat : Slot(y, j) = IF n <= j /\ j < n + i THEN items[j - n + 1] ELSE Slot(x, j)}
           J == [i \in 0 .. l |-> Done(i)]
<1>1. l \in Nat /\ DOMAIN items = 1 .. l /\ \A k \in 1 .. l : items[k] \in Elements
  BY LenProperties
<1>2. x \in J[0]
  <2>1. 0 \in 0 .. l /\ n + 0 = n /\ \A j \in Nat : ~(n <= j /\ j < n + 0)
    BY <1>1
  <2>2. x \in Done(0)
    BY <2>1
  <2>3. QED BY <2>1, <2>2
<1>3. ASSUME NEW i \in 1 .. l, NEW y \in J[i - 1]
      PROVE  PutAt(y, es[i]) \in J[i]
  <2> DEFINE p == n + i - 1
             v == items[i]
             z == Put(y, p, v)
  <2>1. i \in Nat /\ i - 1 \in 0 .. l /\ i \in 0 .. l /\ p \in Nat /\ p + 1 < Modulus
    <3>1. Modulus \in Nat /\ n + l < Modulus
      BY PlaceFacts
    <3> HIDE DEF l, J
    <3>2. QED BY <1>1, <3>1
  <2>2. y \in Done(i - 1)
    BY <2>1
  <2>3. p \in Places /\ Wrap(p) = p /\ v \in Elements
    BY <1>1, <2>1, PlaceFacts
  <2>4. PutAt(y, es[i]) = z
    BY <1>1, <2>3 DEF PutAt
  <2>5. y \in Open /\ y.array = x.array /\ (x.array /\ x.length = n => y.length = p)
    BY <2>1, <2>2
  <2>6. \A j \in Nat : Slot(y, j) = IF n <= j /\ j < p THEN items[j - n + 1] ELSE Slot(x, j)
    BY <2>1, <2>2
  <2> HIDE DEF Done
  <2>7. /\ z \in Open /\ z.array = y.array
        /\ z.length = IF y.array /\ p >= y.length THEN p + 1 ELSE y.length
        /\ \A j : Slot(z, j) = IF j = p THEN v ELSE Slot(y, j)
    BY <2>3, <2>5, PutSlot
  <2> HIDE DEF z
  <2>8. \A j \in Nat : Slot(z, j) = IF n <= j /\ j < n + i THEN items[j - n + 1] ELSE Slot(x, j)
    <3> TAKE j \in Nat
    <3>1. CASE j = p
      <4>1. j - n + 1 = i /\ n <= j /\ j < n + i
        BY <2>1, <3>1
      <4>2. QED BY <2>7, <3>1, <4>1
    <3>2. CASE j # p
      <4>1. (n <= j /\ j < p) <=> (n <= j /\ j < n + i)
        BY <2>1, <3>2
      <4>2. QED BY <2>6, <2>7, <3>2, <4>1
    <3>3. QED BY <3>1, <3>2
  <2>9. x.array /\ x.length = n => z.length = n + i
    BY <2>1, <2>5, <2>7
  <2>10. z \in Done(i)
    BY <2>5, <2>7, <2>8, <2>9 DEF Done
  <2>11. QED BY <2>1, <2>4, <2>10
<1>4. \A i \in 1 .. l : \A y \in J[i - 1] : PutAt(y, es[i]) \in J[i]
  BY <1>3
<1>5. PutAll(x, n, items) = PutFold!Folded(x, es)
  BY DEF PutAll, FoldLeft, MapThenFoldSet, Max, PutFold!Folded, PutFold!Greatest
<1>6. DOMAIN es = 1 .. l /\ J[l] = Done(l)
  BY <1>1
<1> HIDE DEF J, es, l
<1>7. PutFold!Folded(x, es) \in J[l]
  BY <1>1, <1>2, <1>4, <1>6, PutFold!FoldInduction
<1>8. PutAll(x, n, items) \in Done(l)
  BY <1>5, <1>6, <1>7
<1>9. QED BY <1>8 DEF l

(* Deleting places from a on leaves those below.                           *)
LEMMA DeletesSlots ==
  ASSUME NEW x \in Open, NEW n, NEW a \in Int, NEW c \in Int, NEW ks, Numbers(ks, n, a, c)
  PROVE  LET y == FoldLeft(Delete, x, ks)
         IN  /\ y \in Open /\ y.array = x.array /\ y.length = x.length
             /\ \A j \in Nat : j < a => Slot(y, j) = Slot(x, j)
<1> DEFINE S == {y \in Open : /\ y.array = x.array /\ y.length = x.length
                              /\ \A j \in Nat : j < a => Slot(y, j) = Slot(x, j)}
<1>1. n \in Nat /\ DOMAIN ks = 1 .. n /\ x \in S
  BY DEF Numbers
<1>2. ASSUME NEW i \in 1 .. n, NEW y \in S
      PROVE  Delete(y, ks[i]) \in S
  <2>1. ks[i] \in Int /\ ks[i] >= a
    BY DEF Numbers
  <2> DEFINE k == ks[i]
             z == Delete(y, k)
  <2>2. z \in Open /\ z.array = y.array /\ z.length = y.length
        /\ \A j : Slot(z, j) = IF j = k THEN Hole ELSE Slot(y, j)
    BY DeleteSlot
  <2> HIDE DEF z
  <2>3. \A j \in Nat : j < a => j # k
    BY <2>1
  <2>4. z \in S
    BY <2>2, <2>3
  <2>5. QED BY <2>4 DEF z
<1>3. \A i \in 1 .. n : \A y \in S : Delete(y, ks[i]) \in S
  BY <1>2
<1>4. FoldLeft(Delete, x, ks) = DeleteFold!Folded(x, ks)
  BY DEF FoldLeft, MapThenFoldSet, Max, DeleteFold!Folded, DeleteFold!Greatest
<1> HIDE DEF S
<1>5. DeleteFold!Folded(x, ks) \in S
  BY <1>1, <1>3, DeleteFold!FoldKeeps
<1>6. QED BY <1>4, <1>5 DEF S

(* The elements from a to c - 1 have moved by d places.                    *)
Shifted(x, y, a, c, d) ==
  /\ y \in Open /\ y.array = x.array
  /\ \A j \in Nat : Slot(y, j) = IF a + d <= j /\ j < c + d THEN Seen(x, j - d) ELSE Slot(x, j)

(* They move towards the beginning from the left ...                       *)
LEMMA MoveDownwards ==
  ASSUME NEW x \in Open, NEW a \in Nat, NEW c \in Nat, c < Modulus, NEW d \in Int, d < 0, a + d >= 0
  PROVE  Shifted(x, MoveAll(x, Up(a, c), d), a, c, d)
<1> DEFINE l == Greater(c - a, 0)
           ks == Up(a, c)
           es == [j \in DOMAIN ks |-> <<ks[j], Wrap(ks[j] + d)>>]
           J == [i \in 0 .. l |-> {y \in Open : Shifted(x, y, a, a + i, d)}]
<1>1. l \in Nat /\ (l > 0 => a + l = c) /\ (l = 0 => c <= a)
  BY DEF Greater
<1>2. DOMAIN ks = 1 .. l /\ DOMAIN es = 1 .. l /\ \A i \in 1 .. l : ks[i] = a + i - 1
  <2>1. a \in Int /\ c \in Int
    OBVIOUS
  <2>2. QED BY <2>1, UpNumbers DEF Numbers
<1>3. x \in J[0]
  <2>1. 0 \in 0 .. l /\ \A j \in Nat : ~(a + d <= j /\ j < (a + 0) + d)
    BY <1>1
  <2>2. Shifted(x, x, a, a + 0, d)
    BY <2>1 DEF Shifted
  <2>3. QED BY <2>1, <2>2
<1>4. ASSUME NEW i \in 1 .. l, NEW y \in J[i - 1]
      PROVE  MoveTo(y, es[i]) \in J[i]
  <2> DEFINE k == a + i - 1
             t == k + d
             z == Move(y, k, t)
  <2>1. i \in Nat /\ i - 1 \in 0 .. l /\ i \in 0 .. l /\ k \in Nat /\ t \in Nat /\ t + 1 < Modulus
    <3>1. i \in Nat /\ i > 0 /\ i <= l /\ l > 0
      BY <1>1
    <3>2. k <= c - 1 /\ k \in Nat /\ Modulus \in Nat
      BY <1>1, <3>1, PlaceFacts
    <3>3. QED BY <1>1, <3>1, <3>2
  <2>2. y \in Open /\ y.array = x.array
        /\ \A j \in Nat : Slot(y, j) = IF a + d <= j /\ j < t THEN Seen(x, j - d) ELSE Slot(x, j)
    <3>1. a + (i - 1) + d = t
      BY <2>1
    <3>2. Shifted(x, y, a, a + (i - 1), d)
      BY <2>1
    <3>3. QED BY <3>1, <3>2 DEF Shifted
  <2>3. t \in Places /\ Wrap(t) = t
    BY <2>1, PlaceFacts
  <2>4. MoveTo(y, es[i]) = z
    BY <1>2, <2>3 DEF MoveTo
  <2>5. Seen(y, k) = Seen(x, k)
    <3>1. ~(a + d <= k /\ k < t)
      BY <2>1
    <3>2. Slot(y, k) = Slot(x, k)
      BY <2>1, <2>2, <3>1
    <3>3. QED BY <3>2 DEF Seen
  <2>6. /\ z \in Open /\ z.array = y.array
        /\ \A j : Slot(z, j) = IF j = t THEN Seen(y, k) ELSE Slot(y, j)
    BY <2>2, <2>3, MoveSlot
  <2> HIDE DEF z
  <2>7. \A j \in Nat : Slot(z, j) = IF a + d <= j /\ j < (a + i) + d THEN Seen(x, j - d) ELSE Slot(x, j)
    <3> TAKE j \in Nat
    <3>1. CASE j = t
      <4>1. j - d = k /\ a + d <= j /\ j < (a + i) + d
        BY <2>1, <3>1
      <4>2. QED BY <2>5, <2>6, <3>1, <4>1
    <3>2. CASE j # t
      <4>1. (a + d <= j /\ j < t) <=> (a + d <= j /\ j < (a + i) + d)
        BY <2>1, <3>2
      <4>2. QED BY <2>2, <2>6, <3>2, <4>1
    <3>3. QED BY <3>1, <3>2
  <2>8. Shifted(x, z, a, a + i, d)
    BY <2>2, <2>6, <2>7 DEF Shifted
  <2>9. QED BY <2>1, <2>4, <2>6, <2>8
<1>5. \A i \in 1 .. l : \A y \in J[i - 1] : MoveTo(y, es[i]) \in J[i]
  BY <1>4
<1>6. MoveAll(x, ks, d) = MoveFold!Folded(x, es)
  BY DEF MoveAll, FoldLeft, MapThenFoldSet, Max, MoveFold!Folded, MoveFold!Greatest
<1>7. J[l] = {y \in Open : Shifted(x, y, a, a + l, d)}
  BY <1>1
<1> HIDE DEF J, es
<1>8. MoveFold!Folded(x, es) \in J[l]
  BY <1>1, <1>2, <1>3, <1>5, MoveFold!FoldInduction
<1>9. Shifted(x, MoveAll(x, ks, d), a, a + l, d)
  BY <1>6, <1>7, <1>8
<1> HIDE DEF ks, l
<1>10. \A j \in Nat : (a + d <= j /\ j < (a + l) + d) <=> (a + d <= j /\ j < c + d)
  BY <1>1
<1>11. QED BY <1>9, <1>10 DEF Shifted, ks

(* ... and towards the end from the right.                                 *)
LEMMA MoveUpwards ==
  ASSUME NEW x \in Open, NEW a \in Nat, NEW c \in Nat, NEW d \in Nat, c + d < Modulus
  PROVE  Shifted(x, MoveAll(x, Down(a, c), d), a, c, d)
<1> DEFINE l == Greater(c - a, 0)
           ks == Down(a, c)
           es == [j \in DOMAIN ks |-> <<ks[j], Wrap(ks[j] + d)>>]
           J == [i \in 0 .. l |-> {y \in Open : Shifted(x, y, c - i, c, d)}]
<1>1. l \in Nat /\ (l > 0 => a + l = c) /\ (l = 0 => c <= a)
  BY DEF Greater
<1>2. DOMAIN ks = 1 .. l /\ DOMAIN es = 1 .. l /\ \A i \in 1 .. l : ks[i] = c - i
  <2>1. a \in Int /\ c \in Int
    OBVIOUS
  <2>2. QED BY <2>1, DownIndices
<1>3. x \in J[0]
  <2>1. 0 \in 0 .. l /\ \A j \in Nat : ~((c - 0) + d <= j /\ j < c + d)
    BY <1>1
  <2>2. Shifted(x, x, c - 0, c, d)
    BY <2>1 DEF Shifted
  <2>3. QED BY <2>1, <2>2
<1>4. ASSUME NEW i \in 1 .. l, NEW y \in J[i - 1]
      PROVE  MoveTo(y, es[i]) \in J[i]
  <2> DEFINE k == c - i
             t == k + d
             z == Move(y, k, t)
  <2>1. i \in Nat /\ i - 1 \in 0 .. l /\ i \in 0 .. l /\ k \in Nat /\ t \in Nat /\ t + 1 < Modulus
    <3>1. i \in Nat /\ i > 0 /\ i <= l /\ l > 0
      BY <1>1
    <3>2. k <= c - 1 /\ k \in Nat /\ Modulus \in Nat
      BY <1>1, <3>1, PlaceFacts
    <3>3. QED BY <1>1, <3>1, <3>2
  <2>2. y \in Open /\ y.array = x.array
        /\ \A j \in Nat : Slot(y, j) = IF t + 1 <= j /\ j < c + d THEN Seen(x, j - d) ELSE Slot(x, j)
    <3>1. (c - (i - 1)) + d = t + 1
      BY <2>1
    <3>2. Shifted(x, y, c - (i - 1), c, d)
      BY <2>1
    <3>3. QED BY <3>1, <3>2 DEF Shifted
  <2>3. t \in Places /\ Wrap(t) = t
    BY <2>1, PlaceFacts
  <2>4. MoveTo(y, es[i]) = z
    BY <1>2, <2>3 DEF MoveTo
  <2>5. Seen(y, k) = Seen(x, k)
    <3>1. ~(t + 1 <= k /\ k < c + d)
      BY <2>1
    <3>2. Slot(y, k) = Slot(x, k)
      BY <2>1, <2>2, <3>1
    <3>3. QED BY <3>2 DEF Seen
  <2>6. /\ z \in Open /\ z.array = y.array
        /\ \A j : Slot(z, j) = IF j = t THEN Seen(y, k) ELSE Slot(y, j)
    BY <2>2, <2>3, MoveSlot
  <2> HIDE DEF z
  <2>7. \A j \in Nat : Slot(z, j) = IF (c - i) + d <= j /\ j < c + d THEN Seen(x, j - d) ELSE Slot(x, j)
    <3> TAKE j \in Nat
    <3>1. CASE j = t
      <4>1. j - d = k /\ (c - i) + d <= j /\ j < c + d
        BY <2>1, <3>1
      <4>2. QED BY <2>5, <2>6, <3>1, <4>1
    <3>2. CASE j # t
      <4>1. (t + 1 <= j /\ j < c + d) <=> ((c - i) + d <= j /\ j < c + d)
        BY <2>1, <3>2
      <4>2. QED BY <2>2, <2>6, <3>2, <4>1
    <3>3. QED BY <3>1, <3>2
  <2>8. Shifted(x, z, c - i, c, d)
    BY <2>2, <2>6, <2>7 DEF Shifted
  <2>9. QED BY <2>1, <2>4, <2>6, <2>8
<1>5. \A i \in 1 .. l : \A y \in J[i - 1] : MoveTo(y, es[i]) \in J[i]
  BY <1>4
<1>6. MoveAll(x, ks, d) = MoveFold!Folded(x, es)
  BY DEF MoveAll, FoldLeft, MapThenFoldSet, Max, MoveFold!Folded, MoveFold!Greatest
<1>7. J[l] = {y \in Open : Shifted(x, y, c - l, c, d)}
  BY <1>1
<1> HIDE DEF J, es
<1>8. MoveFold!Folded(x, es) \in J[l]
  BY <1>1, <1>2, <1>3, <1>5, MoveFold!FoldInduction
<1>9. Shifted(x, MoveAll(x, ks, d), c - l, c, d)
  BY <1>6, <1>7, <1>8
<1> HIDE DEF ks, l
<1>10. \A j \in Nat : ((c - l) + d <= j /\ j < c + d) <=> (a + d <= j /\ j < c + d)
  BY <1>1
<1>11. QED BY <1>9, <1>10 DEF Shifted, ks

(* put_length leaves what is below the new length.                         *)
LEMMA PutLengthSlots ==
  ASSUME NEW x \in Open, NEW n \in Indices
  PROVE  LET y == PutLength(x, n)
         IN  /\ y \in Open /\ y.array = x.array /\ y.length = n
             /\ \A j \in Nat : j < n => Slot(y, j) = Slot(x, j)
<1> DEFINE w == WithLength(x, n)
           old == x.length
           ks == Up(n, old)
<1>1. x \in Objects /\ x.level # Frozen /\ old \in Int /\ n \in Int
  BY OpenFacts, IndexFacts
<1>2. /\ w \in Open /\ w.array = x.array /\ w.length = n
      /\ \A j : Slot(w, j) = Slot(x, j)
  BY <1>1, WithLengthObject DEF Open, Slot, Own
<1>3. CASE x.array
  <2>1. PutLength(x, n) = FoldLeft(Delete, w, ks)
    BY <1>1, <1>3 DEF PutLength, Cut, WithLength
  <2>2. Numbers(ks, Greater(old - n, 0), n, old)
    BY <1>1, UpNumbers
  <2> HIDE DEF w, ks, old
  <2>3. /\ FoldLeft(Delete, w, ks) \in Open /\ FoldLeft(Delete, w, ks).array = w.array
        /\ FoldLeft(Delete, w, ks).length = w.length
        /\ \A j \in Nat : j < n => Slot(FoldLeft(Delete, w, ks), j) = Slot(w, j)
    BY <1>1, <1>2, <2>2, DeletesSlots
  <2>4. QED BY <1>2, <2>1, <2>3
<1>4. CASE ~x.array
  <2>1. PutLength(x, n) = w
    BY <1>1, <1>4 DEF PutLength, WithLength
  <2>2. QED BY <1>2, <2>1
<1>5. QED BY <1>3, <1>4

(* What splice puts into the array that it returns.                        *)
PutFoundFold == INSTANCE FoldProofs WITH Op <- PutFound

LEMMA PutFoundSlots ==
  ASSUME NEW n \in Nat, n < Modulus, NEW es, DOMAIN es = 1 .. n,
         \A i \in 1 .. n : es[i][1] = i - 1 /\ es[i][2] \in Elements \cup {Hole}
  PROVE  LET y == FoldLeft(PutFound, NewArray, es)
         IN  y \in Open /\ y.array /\ \A i \in 1 .. n : Slot(y, i - 1) = es[i][2]
<1> DEFINE Done(i) == {y \in Open : y.array /\ \A j \in Nat : Slot(y, j) = IF j < i THEN es[j + 1][2] ELSE Hole}
           J == [i \in 0 .. n |-> Done(i)]
<1>1. NewArray \in J[0]
  <2>1. NewArray \in Objects
    <3>1. <<>> \in [{} -> Elements] /\ {} \in SUBSET Indices
      OBVIOUS
    <3>2. <<>> \in UNION {[D -> Elements] : D \in SUBSET Indices}
      BY <3>1
    <3>3. 0 \in Indices /\ Extensible \in Extensible .. Frozen
      <4>1. 0 \in Nat /\ 0 < Modulus
        BY IndexFacts
      <4>2. 0 \in Indices
        BY <4>1, IndexFacts
      <4>3. QED BY <4>2 DEF Extensible, Frozen
    <3>4. QED BY <3>2, <3>3 DEF NewArray, Objects
  <2>2. NewArray \in Open /\ NewArray.array /\ NewArray.props = <<>>
    BY <2>1 DEF NewArray, Open
  <2>3. \A j \in Nat : Slot(NewArray, j) = IF j < 0 THEN es[j + 1][2] ELSE Hole
    BY <2>2 DEF Slot, Own
  <2>4. 0 \in 0 .. n
    OBVIOUS
  <2>5. NewArray \in Done(0)
    BY <2>2, <2>3
  <2>6. QED BY <2>4, <2>5
<1>2. ASSUME NEW i \in 1 .. n, NEW y \in J[i - 1]
      PROVE  PutFound(y, es[i]) \in J[i]
  <2> DEFINE k == i - 1
             v == es[i][2]
             z == PutFound(y, es[i])
  <2>1. i \in Nat /\ i - 1 \in 0 .. n /\ i \in 0 .. n /\ k \in Nat /\ k + 1 < Modulus
    BY PlaceFacts
  <2>2. y \in Open /\ y.array /\ \A j \in Nat : Slot(y, j) = IF j < k THEN es[j + 1][2] ELSE Hole
    BY <2>1
  <2>3. k \in Places /\ z = IF v = Hole THEN y ELSE Put(y, k, v)
    BY <2>1, PlaceFacts DEF PutFound
  <2>4. k + 1 = i /\ v \in Elements \cup {Hole}
    OBVIOUS
  <2>5. z \in Open /\ z.array /\ \A j \in Nat : Slot(z, j) = IF j = k THEN v ELSE Slot(y, j)
    <3>1. CASE v = Hole
      <4>1. Slot(y, k) = Hole
        BY <2>1, <2>2
      <4>2. QED BY <2>2, <2>3, <3>1, <4>1
    <3>2. CASE v # Hole
      <4> DEFINE u == Put(y, k, v)
      <4>1. v \in Elements /\ z = u
        BY <2>3, <2>4, <3>2
      <4> HIDE DEF z, v, k
      <4>2. u \in Open /\ u.array = y.array /\ \A j : Slot(u, j) = IF j = k THEN v ELSE Slot(y, j)
        <5>1. y \in Open /\ k \in Places /\ v \in Elements
          BY <2>2, <2>3, <4>1
        <5>2. QED BY ONLY <5>1, PutSlot
      <4>3. QED BY <2>2, <4>1, <4>2
    <3>3. QED BY <3>1, <3>2
  <2> HIDE DEF z
  <2>6. \A j \in Nat : Slot(z, j) = IF j < i THEN es[j + 1][2] ELSE Hole
    <3> TAKE j \in Nat
    <3>1. CASE j = k
      BY <2>1, <2>4, <2>5, <3>1
    <3>2. CASE j # k
      <4>1. j < k <=> j < i
        BY <2>1, <3>2
      <4>2. QED BY <2>2, <2>5, <3>2, <4>1
    <3>3. QED BY <3>1, <3>2
  <2>7. z \in Done(i)
    BY <2>5, <2>6
  <2>8. QED BY <2>1, <2>7 DEF z
<1>3. \A i \in 1 .. n : \A y \in J[i - 1] : PutFound(y, es[i]) \in J[i]
  BY <1>2
<1>4. FoldLeft(PutFound, NewArray, es) = PutFoundFold!Folded(NewArray, es)
  BY DEF FoldLeft, MapThenFoldSet, Max, PutFoundFold!Folded, PutFoundFold!Greatest
<1>5. J[n] = Done(n)
  OBVIOUS
<1> HIDE DEF J
<1>6. PutFoundFold!Folded(NewArray, es) \in J[n]
  BY <1>1, <1>3, PutFoundFold!FoldInduction
<1>7. FoldLeft(PutFound, NewArray, es) \in Done(n)
  BY <1>4, <1>5, <1>6
<1>8. \A i \in 1 .. n : i - 1 \in Nat /\ i - 1 < n /\ (i - 1) + 1 = i
  OBVIOUS
<1>9. QED BY <1>7, <1>8

(* reverse exchanges the elements of the two halves.                       *)
LEMMA ReverseSlots ==
  ASSUME NEW x \in Open
  PROVE  LET y == Reversed(x).o
             l == x.length
         IN  /\ y \in Open /\ y.length = l
             /\ \A j \in 0 .. l - 1 : Get(y, j) = Get(x, l - 1 - j)
<1> DEFINE l == x.length
           h == l \div 2
           ks == Up(0, h)
           Done(i) == {y \in Open :
                         /\ y.length = l
                         /\ \A j \in 0 .. l - 1 : Get(y, j) = IF j < i \/ j >= l - i THEN Get(x, l - 1 - j) ELSE Get(x, j)}
           J == [i \in 0 .. h |-> Done(i)]
<1>1. l \in Nat /\ h \in Nat /\ 2 * h <= l /\ l <= 2 * h + 1 /\ l < Modulus
  BY OpenFacts
<1>2. DOMAIN ks = 1 .. h /\ \A i \in 1 .. h : ks[i] = i - 1
  <2>1. Greater(h - 0, 0) = h
    BY <1>1 DEF Greater
  <2>2. 0 \in Int /\ h \in Int
    BY <1>1
  <2> HIDE DEF h
  <2>3. Numbers(ks, h, 0, h) /\ \A i \in 1 .. h : ks[i] = 0 + i - 1
    BY <2>1, <2>2, UpNumbers
  <2>4. QED BY <2>3, <1>1 DEF Numbers
<1> HIDE DEF h, ks, l
<1>3. x \in J[0]
  <2>1. 0 \in 0 .. h /\ \A j \in 0 .. l - 1 : ~(j < 0 \/ j >= l - 0)
    BY <1>1
  <2>2. x \in Done(0)
    BY <2>1 DEF l
  <2>3. QED BY <2>1, <2>2
<1>4. ASSUME NEW i \in 1 .. h, NEW y \in J[i - 1]
      PROVE  Exchange(y, ks[i]) \in J[i]
  <2> DEFINE k == i - 1
             m == l - k - 1
             vk == Get(y, k)
             vm == Get(y, m)
             w == Put(y, k, vm)
             z == Put(w, m, vk)
  <2>1. i \in Nat /\ i - 1 \in 0 .. h /\ i \in 0 .. h /\ k \in Nat /\ m \in Nat /\ k < m /\ m < l
    BY <1>1
  <2>2. y \in Open /\ y.length = l
        /\ \A j \in 0 .. l - 1 : Get(y, j) = IF j < k \/ j >= l - k THEN Get(x, l - 1 - j) ELSE Get(x, j)
    BY <2>1
  <2>3. k \in Places /\ m \in Places /\ k < l /\ k \in 0 .. l - 1 /\ m \in 0 .. l - 1
    BY <1>1, <2>1, PlaceFacts
  <2>4. vk = Get(x, k) /\ vm = Get(x, m) /\ vk \in Elements /\ vm \in Elements
    <3>1. ~(k < k \/ k >= l - k) /\ ~(m < k \/ m >= l - k)
      BY <1>1, <2>1
    <3>2. y \in Objects
      BY <2>2, OpenFacts
    <3>3. QED BY <2>2, <2>3, <3>1, <3>2, GetElement
  <2>5. Exchange(y, ks[i]) = z
    BY <1>2, <2>2 DEF Exchange
  <2> HIDE DEF vk, vm
  <2>6. w \in Open /\ w.length = l /\ \A j : Slot(w, j) = IF j = k THEN vm ELSE Slot(y, j)
    <3>1. ~(k >= y.length)
      <4>1. ~(k >= l)
        BY <1>1, <2>1, <2>3
      <4>2. QED BY <2>2, <4>1
    <3>2. QED BY <2>2, <2>3, <2>4, <3>1, PutSlot
  <2> HIDE DEF w
  <2>7. z \in Open /\ z.length = l /\ \A j : Slot(z, j) = IF j = m THEN vk ELSE Slot(w, j)
    <3>1. ~(m >= w.length)
      <4>1. ~(m >= l)
        BY <1>1, <2>1
      <4>2. QED BY <2>6, <4>1
    <3>2. w \in Open /\ m \in Places /\ vk \in Elements /\ w.length = l
      BY <2>3, <2>4, <2>6
    <3> HIDE DEF m, l
    <3>3. QED BY <3>1, <3>2, PutSlot
  <2> HIDE DEF z
  <2>8. \A j : Slot(z, j) = IF j = m THEN vk ELSE IF j = k THEN vm ELSE Slot(y, j)
    BY <2>6, <2>7
  <2>9. \A j : Get(z, j) = IF j = m THEN vk ELSE IF j = k THEN vm ELSE Get(y, j)
    <3> TAKE j
    <3>1. y \in Objects /\ z \in Objects
      BY <2>2, <2>7, OpenFacts
    <3>2. vk # Hole /\ vm # Hole /\ Thru(vk, j) = vk /\ Thru(vm, j) = vm
      BY <2>4, HoleFacts, ThruFacts
    <3>3. Seen(z, j) = IF j = m THEN vk ELSE IF j = k THEN vm ELSE Seen(y, j)
      BY <2>8, <3>2 DEF Seen
    <3>4. QED BY <3>1, <3>2, <3>3, SlotFacts
  <2>10. \A j \in 0 .. l - 1 : Get(z, j) = IF j < i \/ j >= l - i THEN Get(x, l - 1 - j) ELSE Get(x, j)
    <3> TAKE j \in 0 .. l - 1
    <3>1. CASE j = m
      <4>1. j >= l - i /\ l - 1 - j = k
        BY <1>1, <2>1, <3>1
      <4>2. QED BY <2>4, <2>9, <3>1, <4>1
    <3>2. CASE j = k
      <4>1. j < i /\ l - 1 - j = m /\ j # m
        BY <1>1, <2>1, <3>2
      <4>2. QED BY <2>4, <2>9, <3>2, <4>1
    <3>3. CASE j # m /\ j # k
      <4>1. (j < k \/ j >= l - k) <=> (j < i \/ j >= l - i)
        BY <1>1, <2>1, <3>3
      <4>2. QED BY <2>2, <2>9, <3>3, <4>1
    <3>4. QED BY <3>1, <3>2, <3>3
  <2>11. z \in Done(i)
    BY <2>7, <2>10
  <2>12. QED BY <2>1, <2>5, <2>11
<1>5. \A i \in 1 .. h : \A y \in J[i - 1] : Exchange(y, ks[i]) \in J[i]
  BY <1>4
<1>6. Reversed(x).o = ExchangeFold!Folded(x, ks)
  BY DEF Reversed, Answer, FoldLeft, MapThenFoldSet, Max, ExchangeFold!Folded, ExchangeFold!Greatest, ks, h, l
<1>7. J[h] = Done(h)
  BY <1>1
<1> HIDE DEF J
<1>8. ExchangeFold!Folded(x, ks) \in J[h]
  BY <1>1, <1>2, <1>3, <1>5, ExchangeFold!FoldInduction
<1>9. Reversed(x).o \in Done(h)
  BY <1>6, <1>7, <1>8
<1>10. \A j \in 0 .. l - 1 : (j < h \/ j >= l - h) \/ l - 1 - j = j
  BY <1>1
<1>11. QED BY <1>9, <1>10 DEF l

-----------------------------------------------------------------------------
(* The functions by what they do to the sequence of elements.              *)

Cells == Elements \cup {Hole}

LEMMA ShapeFacts ==
  ASSUME NEW x \in Objects
  PROVE  /\ x.length \in Nat /\ x.length < Modulus
         /\ Shape(x) \in Seq(Cells) /\ Len(Shape(x)) = x.length /\ DOMAIN Shape(x) = 1 .. x.length
         /\ \A k \in 1 .. x.length : Shape(x)[k] = Seen(x, k - 1)
         /\ Contents(x) \in Seq(Elements) /\ Len(Contents(x)) = x.length
         /\ \A k \in 1 .. x.length : Contents(x)[k] = Get(x, k - 1)
<1> DEFINE l == x.length
           s == Shape(x)
           t == Contents(x)
<1>1. l \in Nat /\ l < Modulus
  BY LengthFacts
<1>2. s = [k \in 1 .. l |-> Seen(x, k - 1)]
  <2>1. \A i : (IF Has(x, i) THEN Get(x, i) ELSE Hole) = Seen(x, i)
    BY SlotFacts
  <2>2. QED BY <2>1 DEF Shape
<1>3. t = [k \in 1 .. l |-> Get(x, k - 1)]
  BY DEF Contents
<1>4. \A i : Seen(x, i) \in Cells /\ Get(x, i) \in Elements
  BY SlotFacts DEF Cells
<1> HIDE DEF l, s, t
<1>5. s \in [1 .. l -> Cells] /\ t \in [1 .. l -> Elements]
  BY <1>2, <1>3, <1>4
<1>6. s \in Seq(Cells) /\ t \in Seq(Elements)
  BY <1>1, <1>5, SeqDef
<1>7. Len(s) = l /\ DOMAIN s = 1 .. l /\ Len(t) = l
  BY <1>1, <1>2, <1>3
<1>8. QED BY <1>1, <1>2, <1>3, <1>6, <1>7 DEF l, s, t

LEMMA SameShape ==
  ASSUME NEW y \in Objects, NEW e \in Seq(Cells), Len(e) = y.length,
         \A k \in 1 .. y.length : Thru(e[k], k - 1) = Seen(y, k - 1)
  PROVE  Through(e) = Shape(y)
<1> DEFINE l == y.length
<1>1. DOMAIN e = 1 .. l
  BY LenProperties
<1>2. Through(e) = [k \in 1 .. l |-> Thru(e[k], k - 1)]
  BY <1>1 DEF Through, Thru
<1>3. Shape(y) = [k \in 1 .. l |-> Seen(y, k - 1)]
  <2>1. \A i : (IF Has(y, i) THEN Get(y, i) ELSE Hole) = Seen(y, i)
    BY SlotFacts
  <2>2. QED BY <2>1 DEF Shape
<1>4. QED BY <1>2, <1>3

LEMMA SameValues ==
  ASSUME NEW e \in Seq(Cells), NEW t \in Seq(Elements), Len(e) = Len(t),
         \A k \in 1 .. Len(t) : t[k] = IF e[k] = Hole THEN Undefined ELSE e[k]
  PROVE  Values_(e) = t
<1> DEFINE l == Len(t)
<1>1. DOMAIN e = 1 .. l /\ t \in [1 .. l -> Elements]
  BY LenProperties
<1>2. Values_(e) = [k \in 1 .. l |-> IF e[k] = Hole THEN Undefined ELSE e[k]]
  BY <1>1 DEF Values_
<1>3. t = [k \in 1 .. l |-> t[k]]
  BY <1>1
<1>4. QED BY <1>2, <1>3

LEMMA ValueSeen ==
  ASSUME NEW x \in Objects, NEW i
  PROVE  Values_(<<Seen(x, i)>>) = <<Get(x, i)>>
<1> DEFINE e == <<Seen(x, i)>>
           t == <<Get(x, i)>>
<1>1. Seen(x, i) \in Cells /\ Get(x, i) \in Elements
      /\ Get(x, i) = IF Seen(x, i) = Hole THEN Undefined ELSE Seen(x, i)
  BY SlotFacts DEF Cells
<1>2. e \in Seq(Cells) /\ t \in Seq(Elements) /\ Len(e) = 1 /\ Len(t) = 1 /\ e[1] = Seen(x, i) /\ t[1] = Get(x, i)
  BY <1>1
<1>3. \A k \in 1 .. Len(t) : t[k] = IF e[k] = Hole THEN Undefined ELSE e[k]
  BY <1>1, <1>2
<1> HIDE DEF e, t
<1>4. Values_(e) = t
  BY <1>2, <1>3, SameValues
<1>5. QED BY <1>4 DEF e, t

(* The last step of most functions: length is n, and the elements below    *)
(* are those of e.                                                         *)
LEMMA Resized ==
  ASSUME NEW z \in Open, NEW n \in Indices, NEW e \in Seq(Cells), Len(e) = n,
         \A k \in 1 .. n : Thru(e[k], k - 1) = Seen(z, k - 1)
  PROVE  Through(e) = Shape(PutLength(z, n))
<1> DEFINE y == PutLength(z, n)
<1>1. y \in Open /\ y.length = n /\ \A j \in Nat : j < n => Slot(y, j) = Slot(z, j)
  BY PutLengthSlots
<1> HIDE DEF y
<1>2. n \in Nat /\ \A k \in 1 .. n : k - 1 \in Nat /\ k - 1 < n
  BY IndexFacts
<1>3. \A k \in 1 .. n : Seen(y, k - 1) = Seen(z, k - 1)
  BY <1>1, <1>2 DEF Seen
<1>4. y \in Objects
  BY <1>1, OpenFacts
<1>5. QED BY <1>1, <1>3, <1>4, SameShape DEF y

LEMMA PartFacts ==
  ASSUME NEW S, NEW s \in Seq(S), NEW m \in Nat, NEW n \in Nat, 1 <= m, m <= n + 1, n <= Len(s)
  PROVE  /\ SubSeq(s, m, n) \in Seq(S) /\ Len(SubSeq(s, m, n)) = n - m + 1
         /\ \A k \in 1 .. n - m + 1 : SubSeq(s, m, n)[k] = s[m + k - 1]
<1>1. Len(s) \in Nat /\ \A i \in 1 .. Len(s) : s[i] \in S
  BY LenProperties
<1>2. \A i \in m .. n : s[i] \in S
  BY <1>1
<1>3. /\ SubSeq(s, m, n) \in Seq(S) /\ Len(SubSeq(s, m, n)) = IF m <= n THEN n - m + 1 ELSE 0
      /\ \A k \in 1 .. n - m + 1 : SubSeq(s, m, n)[k] = s[m + k - 1]
  BY <1>2, SubSeqProperties
<1>4. (IF m <= n THEN n - m + 1 ELSE 0) = n - m + 1
  OBVIOUS
<1>5. QED BY <1>3, <1>4

(* The functions do what MethodsAsSpecified says.                          *)
Specified(c, x) ==
  LET s == Shape(x)
      r == Apply(c, x)
      same(y) == IF c.m = "reverse" THEN Values_(y) = Contents(r.o) ELSE Through(y) = Shape(r.o)
  IN  same(Expected(c, s)) /\ r.r = ExpectedResult(c, s)

LEMMA CallFacts ==
  ASSUME NEW c \in Calls
  PROVE  /\ c.m \in Methods /\ c.a \in Int /\ c.b \in Int
         /\ c.items \in Seq(Elements) /\ c.items \in Seq(Cells) /\ Len(c.items) \in Nat
         /\ \A k \in 1 .. Len(c.items) : c.items[k] \in Elements
         /\ c.m \in {"put", "delete", "length"} => c.a \in Indices
         /\ c.m \in {"put", "indexOf", "lastIndexOf"} => c.items[1] \in Elements
<1>1. CallOK(c)
  BY ArraysAssumption
<1>2. c.items \in Seq(Values) /\ Values \subseteq Elements /\ Elements \subseteq Cells
  BY <1>1 DEF CallOK, Elements, Cells
<1>3. c.items \in Seq(Elements)
  BY <1>2, SeqMonotonic
<1>4. c.items \in Seq(Cells)
  BY <1>2, <1>3, SeqMonotonic
<1>5. Len(c.items) \in Nat /\ \A k \in 1 .. Len(c.items) : c.items[k] \in Elements
  BY <1>3, LenProperties
<1>6. c.m \in {"put", "indexOf", "lastIndexOf"} => c.items[1] \in Elements
  BY <1>1, <1>5 DEF CallOK
<1>7. QED BY <1>1, <1>3, <1>4, <1>5, <1>6 DEF CallOK

LEMMA PopSpecified ==
  ASSUME NEW x \in Open, NEW c \in Calls, c.m = "pop"
  PROVE  Specified(c, x)
<1> DEFINE s == Shape(x)
           l == x.length
           e == SubSeq(s, 1, l - 1)
           r == Pop(x)
<1>1. x \in Objects
  BY OpenFacts
<1>2. l \in Nat /\ l < Modulus /\ s \in Seq(Cells) /\ Len(s) = l /\ DOMAIN s = 1 .. l
      /\ \A k \in 1 .. l : s[k] = Seen(x, k - 1) /\ s[k] \in Cells
  BY <1>1, ShapeFacts, ElementOfSeq
<1>3. Apply(c, x) = r /\ Expected(c, s) = e
      /\ ExpectedResult(c, s) = IF l = 0 THEN <<Undefined>> ELSE Values_(<<s[l]>>)
  BY <1>2 DEF Apply, Expected, ExpectedResult
<1>4. SUFFICES Through(e) = Shape(r.o) /\ r.r = IF l = 0 THEN <<Undefined>> ELSE Values_(<<s[l]>>)
  BY <1>3 DEF Specified
<1>5. CASE l = 0
  <2>1. r.o = PutLength(x, 0) /\ r.r = <<Undefined>>
    BY <1>5 DEF Pop, Answer
  <2>2. 0 \in Indices
    BY <1>2, <1>5, IndexFacts
  <2>3. e \in Seq(Cells) /\ Len(e) = 0
    BY <1>2, <1>5, SubSeqProperties
  <2> HIDE DEF e, r
  <2>35. \A k \in 1 .. 0 : Thru(e[k], k - 1) = Seen(x, k - 1)
    OBVIOUS
  <2>4. Through(e) = Shape(PutLength(x, 0))
    BY <2>2, <2>3, <2>35, Resized
  <2>5. QED BY <1>5, <2>1, <2>4
<1>6. CASE l # 0
  <2> DEFINE n == l - 1
             z == Delete(x, n)
  <2>1. r.o = PutLength(z, n) /\ r.r = <<Get(x, n)>>
    BY <1>6 DEF Pop, Answer
  <2>2. n \in Nat /\ n < l /\ n <= l /\ 1 <= n + 1
        /\ \A k \in 1 .. n : k \in 1 .. l /\ k - 1 # n
    BY <1>2, <1>6
  <2>3. n \in Indices
    <3>1. n < Modulus
      BY <1>2, <1>6, <2>2, PlaceFacts
    <3>2. QED BY <2>2, <3>1, IndexFacts
  <2>4. e \in Seq(Cells) /\ Len(e) = n /\ \A k \in 1 .. n : e[k] = s[k]
    <3>1. /\ e \in Seq(Cells) /\ Len(e) = n - 1 + 1
          /\ \A k \in 1 .. n - 1 + 1 : e[k] = s[1 + k - 1]
      BY <1>2, <2>2, PartFacts DEF n
    <3>2. n - 1 + 1 = n /\ \A k \in 1 .. n : 1 + k - 1 = k
      BY <2>2
    <3>3. QED BY <3>1, <3>2
  <2>5. z \in Open /\ \A j : Slot(z, j) = IF j = n THEN Hole ELSE Slot(x, j)
    BY DeleteSlot
  <2>6. \A k \in 1 .. n : Thru(e[k], k - 1) = Seen(z, k - 1)
    <3> TAKE k \in 1 .. n
    <3>1. Slot(z, k - 1) = Slot(x, k - 1)
      BY <2>2, <2>5
    <3>2. e[k] = Seen(x, k - 1)
      BY <1>2, <2>2, <2>4
    <3>3. QED BY <1>1, <3>1, <3>2, SlotFacts DEF Seen
  <2> HIDE DEF e, z, n, r
  <2>7. Through(e) = Shape(PutLength(z, n))
    BY <2>3, <2>4, <2>5, <2>6, Resized
  <2>8. s[l] = Seen(x, n)
    BY <1>2, <1>6 DEF n
  <2>9. QED BY <1>1, <1>6, <2>1, <2>7, <2>8, ValueSeen
<1>7. QED BY <1>5, <1>6

(* There is room for the elements that are added.                          *)
Fits(c, x) == x.length + Len(c.items) < Modulus

LEMMA Room ==
  ASSUME NEW n \in Nat, n < Modulus
  PROVE  n \in Indices /\ Wrap(n) = n
<1>1. Modulus \in Nat /\ n % Modulus = n
  BY PlaceFacts
<1>2. QED BY <1>1, IndexFacts DEF Wrap

LEMMA JoinFacts ==
  ASSUME NEW S, NEW s \in Seq(S), NEW t \in Seq(S), NEW l, NEW m, Len(s) = l, Len(t) = m
  PROVE  /\ s \o t \in Seq(S) /\ Len(s \o t) = l + m
         /\ \A k \in 1 .. l + m : (s \o t)[k] = IF k <= l THEN s[k] ELSE t[k - l]
  BY ConcatProperties

LEMMA PushSpecified ==
  ASSUME NEW x \in Open, NEW c \in Calls, c.m = "push", Fits(c, x)
  PROVE  Specified(c, x)
<1> DEFINE s == Shape(x)
           l == x.length
           items == c.items
           m == Len(items)
           e == s \o items
           n == l + m
           z == PutAll(x, l, items)
<1>1. x \in Objects
  BY OpenFacts
<1>2. l \in Nat /\ s \in Seq(Cells) /\ Len(s) = l /\ \A k \in 1 .. l : s[k] = Seen(x, k - 1)
  BY <1>1, ShapeFacts
<1>3. m \in Nat /\ items \in Seq(Elements) /\ items \in Seq(Cells) /\ \A k \in 1 .. m : items[k] \in Elements
  BY CallFacts
<1>4. n \in Nat /\ n < Modulus /\ n \in Indices /\ Wrap(n) = n
  <2>1. n \in Nat /\ n < Modulus
    BY <1>2, <1>3 DEF Fits
  <2> HIDE DEF n
  <2>2. QED BY <2>1, Room
<1>5. Apply(c, x) = Answer(PutLength(z, n), <<n>>)
  BY <1>4 DEF Apply, Push
<1>6. Expected(c, s) = e /\ ExpectedResult(c, s) = <<n>>
  BY <1>2 DEF Expected, ExpectedResult
<1>7. e \in Seq(Cells) /\ Len(e) = n /\ \A k \in 1 .. n : e[k] = IF k <= l THEN s[k] ELSE items[k - l]
  <2> HIDE DEF s, items
  <2>1. QED BY <1>2, <1>3, JoinFacts
<1>8. z \in Open /\ \A j \in Nat : Slot(z, j) = IF l <= j /\ j < n THEN items[j - l + 1] ELSE Slot(x, j)
  <2> HIDE DEF items, l
  <2>1. QED BY <1>2, <1>3, <1>4, PutAllSlots
<1> HIDE DEF e, z, s, items
<1>9. \A k \in 1 .. n : Thru(e[k], k - 1) = Seen(z, k - 1)
  <2> TAKE k \in 1 .. n
  <2>1. k - 1 \in Nat /\ k \in Nat
    BY <1>4
  <2>2. CASE k <= l
    <3>1. ~(l <= k - 1) /\ k \in 1 .. l
      BY <1>2, <2>1, <2>2
    <3>2. Slot(z, k - 1) = Slot(x, k - 1) /\ e[k] = Seen(x, k - 1)
      BY <1>2, <1>7, <1>8, <2>1, <2>2, <3>1
    <3>3. QED BY <1>1, <3>2, SlotFacts DEF Seen
  <2>3. CASE ~(k <= l)
    <3>1. l <= k - 1 /\ k - 1 < n /\ (k - 1) - l + 1 = k - l
      BY <1>2, <1>4, <2>1, <2>3
    <3>2. Slot(z, k - 1) = items[k - l] /\ e[k] = items[k - l]
      BY <1>7, <1>8, <2>1, <2>3, <3>1
    <3>3. QED BY <3>2 DEF Seen
  <2>4. QED BY <2>2, <2>3
<1> HIDE DEF n
<1>10. Through(e) = Shape(PutLength(z, n))
  BY <1>4, <1>7, <1>8, <1>9, Resized
<1>11. QED BY <1>5, <1>6, <1>10 DEF Specified, Answer, s

LEMMA ShiftSpecified ==
  ASSUME NEW x \in Open, NEW c \in Calls, c.m = "shift"
  PROVE  Specified(c, x)
<1> DEFINE s == Shape(x)
           l == x.length
           e == SubSeq(s, 2, l)
           r == Shift(x)
<1>1. x \in Objects
  BY OpenFacts
<1>2. l \in Nat /\ l < Modulus /\ s \in Seq(Cells) /\ Len(s) = l
      /\ \A k \in 1 .. l : s[k] = Seen(x, k - 1)
  BY <1>1, ShapeFacts
<1>3. Apply(c, x) = r /\ Expected(c, s) = e
      /\ ExpectedResult(c, s) = IF l = 0 THEN <<Undefined>> ELSE Values_(<<s[1]>>)
  BY <1>2 DEF Apply, Expected, ExpectedResult
<1>4. SUFFICES Through(e) = Shape(r.o) /\ r.r = IF l = 0 THEN <<Undefined>> ELSE Values_(<<s[1]>>)
  BY <1>3 DEF Specified
<1>5. CASE l = 0
  <2>1. r.o = PutLength(x, 0) /\ r.r = <<Undefined>>
    BY <1>5 DEF Shift, Answer
  <2>2. 0 \in Indices
    BY <1>2, <1>5, IndexFacts
  <2>3. e \in Seq(Cells) /\ Len(e) = 0
    BY <1>2, <1>5, SubSeqProperties
  <2>4. \A k \in 1 .. 0 : Thru(e[k], k - 1) = Seen(x, k - 1)
    OBVIOUS
  <2> HIDE DEF e, r
  <2>5. Through(e) = Shape(PutLength(x, 0))
    BY <2>2, <2>3, <2>4, Resized
  <2>6. QED BY <1>5, <2>1, <2>5
<1>6. CASE l # 0
  <2> DEFINE n == l - 1
             z == MoveAll(x, Up(1, l), -1)
  <2>1. r.o = PutLength(z, n) /\ r.r = <<Get(x, 0)>>
    BY <1>6 DEF Shift, Answer
  <2>2. n \in Nat /\ n < l /\ 2 <= l + 1 /\ l - 2 + 1 = n
        /\ \A k \in 1 .. n : k + 1 \in 1 .. l /\ 2 + k - 1 = k + 1 /\ k - 1 \in Nat /\ k + 1 - 1 = k
                             /\ 1 + -1 <= k - 1 /\ k - 1 < l + -1 /\ (k - 1) - -1 = k
    BY <1>2, <1>6
  <2>3. n \in Indices
    <3>1. n < Modulus
      BY <1>2, <1>6, <2>2, PlaceFacts
    <3>2. QED BY <2>2, <3>1, IndexFacts
  <2>4. e \in Seq(Cells) /\ Len(e) = n /\ \A k \in 1 .. n : e[k] = s[k + 1]
    <3>1. /\ e \in Seq(Cells) /\ Len(e) = l - 2 + 1
          /\ \A k \in 1 .. l - 2 + 1 : e[k] = s[2 + k - 1]
      BY <1>2, <2>2, PartFacts
    <3>2. QED BY <2>2, <3>1
  <2>5. Shifted(x, z, 1, l, -1)
    <3>1. 1 \in Nat /\ -1 \in Int /\ -1 < 0 /\ 1 + -1 >= 0
      OBVIOUS
    <3> HIDE DEF l
    <3>2. QED BY <1>2, <3>1, MoveDownwards
  <2>6. z \in Open /\ \A k \in 1 .. n : Slot(z, k - 1) = Seen(x, k)
    BY <2>2, <2>5 DEF Shifted
  <2> HIDE DEF e, z, n, r
  <2>7. \A k \in 1 .. n : Thru(e[k], k - 1) = Seen(z, k - 1)
    <3> TAKE k \in 1 .. n
    <3>1. k + 1 \in 1 .. l /\ (k + 1) - 1 = k /\ e[k] = s[k + 1]
      BY <2>2, <2>4
    <3>2. s[k + 1] = Seen(x, (k + 1) - 1)
      BY <1>2, <3>1
    <3>3. e[k] = Seen(x, k)
      BY <3>1, <3>2
    <3>4. Slot(z, k - 1) = Seen(x, k)
      BY <2>6
    <3>5. QED BY <3>3, <3>4 DEF Seen
  <2>8. Through(e) = Shape(PutLength(z, n))
    BY <2>3, <2>4, <2>6, <2>7, Resized
  <2>9. s[1] = Seen(x, 0)
    BY <1>2, <1>6
  <2>10. QED BY <1>1, <1>6, <2>1, <2>8, <2>9, ValueSeen
<1>7. QED BY <1>5, <1>6

LEMMA UnshiftSpecified ==
  ASSUME NEW x \in Open, NEW c \in Calls, c.m = "unshift", Fits(c, x)
  PROVE  Specified(c, x)
<1> DEFINE s == Shape(x)
           l == x.length
           items == c.items
           m == Len(items)
           e == items \o s
           n == l + m
           y == MoveAll(x, Down(0, l), m)
           z == PutAll(y, 0, items)
<1>1. x \in Objects
  BY OpenFacts
<1>2. l \in Nat /\ s \in Seq(Cells) /\ Len(s) = l /\ \A k \in 1 .. l : s[k] = Seen(x, k - 1)
  BY <1>1, ShapeFacts
<1>3. m \in Nat /\ items \in Seq(Elements) /\ items \in Seq(Cells) /\ \A k \in 1 .. m : items[k] \in Elements
  BY CallFacts
<1>4. n \in Nat /\ n < Modulus /\ n \in Indices /\ Wrap(n) = n
  <2>1. n \in Nat /\ n < Modulus
    BY <1>2, <1>3 DEF Fits
  <2> HIDE DEF n
  <2>2. QED BY <2>1, Room
<1>5. Apply(c, x) = Answer(PutLength(z, n), <<n>>)
  BY <1>4 DEF Apply, Unshift
<1>6. Expected(c, s) = e /\ ExpectedResult(c, s) = <<n>>
  BY <1>2 DEF Expected, ExpectedResult
<1>7. e \in Seq(Cells) /\ Len(e) = n /\ \A k \in 1 .. n : e[k] = IF k <= m THEN items[k] ELSE s[k - m]
  <2>1. n = m + l
    BY <1>2, <1>3
  <2> HIDE DEF s, items, n
  <2>2. Len(items) = m
    OBVIOUS
  <2> HIDE DEF m
  <2>3. /\ e \in Seq(Cells) /\ Len(e) = m + l
        /\ \A k \in 1 .. m + l : e[k] = IF k <= m THEN items[k] ELSE s[k - m]
    BY <1>2, <1>3, <2>2, JoinFacts
  <2>4. QED BY <2>1, <2>3
<1>8. Shifted(x, y, 0, l, m)
  <2> HIDE DEF items, l, m
  <2>1. QED BY <1>2, <1>3, <1>4, MoveUpwards
<1> HIDE DEF s, y
<1>9. y \in Open /\ \A j \in Nat : Slot(y, j) = IF m <= j /\ j < n THEN Seen(x, j - m) ELSE Slot(x, j)
  <2>1. 0 + m = m
    BY <1>3
  <2>2. QED BY <1>8, <2>1 DEF Shifted
<1>10. z \in Open /\ \A j \in Nat : Slot(z, j) = IF j < m THEN items[j + 1] ELSE Slot(y, j)
  <2>1. 0 \in Nat /\ 0 + m < Modulus /\ 0 + m = m
    <3>1. m <= n /\ Modulus \in Nat
      BY <1>2, <1>3, PlaceFacts
    <3>2. QED BY <1>3, <1>4, <3>1
  <2> HIDE DEF items
  <2>2. z \in Open /\ \A j \in Nat : Slot(z, j) = IF 0 <= j /\ j < 0 + m THEN items[j - 0 + 1] ELSE Slot(y, j)
    BY <1>3, <1>9, <2>1, PutAllSlots
  <2>3. \A j \in Nat : 0 <= j /\ j - 0 + 1 = j + 1
    OBVIOUS
  <2>4. QED BY <2>1, <2>2, <2>3
<1> HIDE DEF e, z, items
<1>11. \A k \in 1 .. n : Thru(e[k], k - 1) = Seen(z, k - 1)
  <2> TAKE k \in 1 .. n
  <2>1. k - 1 \in Nat /\ k \in Nat /\ (k - 1) + 1 = k
    BY <1>4
  <2>2. CASE k <= m
    <3>1. k - 1 < m
      BY <1>3, <2>1, <2>2
    <3>2. Slot(z, k - 1) = items[k] /\ e[k] = items[k]
      BY <1>7, <1>10, <2>1, <2>2, <3>1
    <3>3. QED BY <3>2 DEF Seen
  <2>3. CASE ~(k <= m)
    <3>1. ~(k - 1 < m) /\ m <= k - 1 /\ k - 1 < n /\ k - m \in 1 .. l /\ (k - m) - 1 = (k - 1) - m
      BY <1>2, <1>3, <1>4, <2>1, <2>3
    <3>2. Slot(z, k - 1) = Seen(x, (k - 1) - m)
      BY <1>9, <1>10, <2>1, <3>1
    <3>3. e[k] = Seen(x, (k - 1) - m)
      BY <1>2, <1>7, <2>3, <3>1
    <3>4. QED BY <3>2, <3>3 DEF Seen
  <2>4. QED BY <2>2, <2>3
<1> HIDE DEF n
<1>12. Through(e) = Shape(PutLength(z, n))
  BY <1>4, <1>7, <1>10, <1>11, Resized
<1>13. QED BY <1>5, <1>6, <1>12 DEF Specified, Answer, s

LEMMA HolesFacts ==
  ASSUME NEW m \in Nat
  PROVE  Holes(m) \in Seq(Cells) /\ Len(Holes(m)) = m /\ \A k \in 1 .. m : Holes(m)[k] = Hole
<1>1. Holes(m) \in [1 .. m -> Cells]
  BY DEF Holes, Cells
<1>2. QED BY <1>1, SeqDef DEF Holes

(* An array has no element between its length and the largest index.       *)
LEMMA NothingAbove ==
  ASSUME NEW x \in Open, x.array, IndicesBelow(x), NEW j \in Places, x.length <= j
  PROVE  Slot(x, j) = Hole
<1>1. j # invalid_index_value /\ j \in Nat /\ x.length \in Nat /\ x.level = Extensible
  BY PlaceFacts, OpenFacts
<1>2. ~(j < x.length)
  BY <1>1
<1>3. ~Own(x, j)
  BY <1>1, <1>2 DEF IndicesBelow, Own
<1>4. QED BY <1>3 DEF Slot

LEMMA LengthSpecified ==
  ASSUME NEW x \in Open, NEW c \in Calls, c.m = "length", x.array, IndicesBelow(x),
         c.a # invalid_index_value
  PROVE  Specified(c, x)
<1> DEFINE s == Shape(x)
           l == x.length
           n == c.a
           e == IF n < l THEN SubSeq(s, 1, n) ELSE s \o Holes(n - l)
<1>1. x \in Objects
  BY OpenFacts
<1>2. l \in Nat /\ s \in Seq(Cells) /\ Len(s) = l /\ \A k \in 1 .. l : s[k] = Seen(x, k - 1)
  BY <1>1, ShapeFacts
<1>3. n \in Indices /\ n \in Nat /\ n + 1 < Modulus
  <2>1. n \in Indices /\ n # Modulus - 1
    BY CallFacts DEF invalid_index_value
  <2>2. n \in Nat /\ n < Modulus /\ Modulus \in Nat
    BY <2>1, IndexFacts
  <2>3. QED BY <2>1, <2>2
<1>4. Apply(c, x) = Answer(PutLength(x, n), <<>>) /\ Expected(c, s) = e /\ ExpectedResult(c, s) = <<>>
  BY <1>2 DEF Apply, Expected, ExpectedResult
<1>5. /\ e \in Seq(Cells) /\ Len(e) = n
      /\ \A k \in 1 .. n : e[k] = IF k <= l THEN s[k] ELSE Hole
  <2>1. CASE n < l
    <3>1. 1 <= n + 1 /\ n <= l /\ n - 1 + 1 = n /\ \A k \in 1 .. n : k <= l /\ 1 + k - 1 = k
      BY <1>2, <1>3, <2>1
    <3> HIDE DEF s, n
    <3>2. /\ SubSeq(s, 1, n) \in Seq(Cells) /\ Len(SubSeq(s, 1, n)) = n - 1 + 1
          /\ \A k \in 1 .. n - 1 + 1 : SubSeq(s, 1, n)[k] = s[1 + k - 1]
      BY <1>2, <1>3, <3>1, PartFacts
    <3>3. QED BY <2>1, <3>1, <3>2
  <2>2. CASE ~(n < l)
    <3> DEFINE m == n - l
               t == Holes(m)
    <3>1. m \in Nat /\ l + m = n /\ \A k \in 1 .. n : ~(k <= l) => k - l \in 1 .. m
      BY <1>2, <1>3, <2>2
    <3>2. e = s \o t
      BY <2>2
    <3> HIDE DEF m, e, s
    <3>3. t \in Seq(Cells) /\ Len(t) = m /\ \A k \in 1 .. m : t[k] = Hole
      BY <3>1, HolesFacts
    <3> HIDE DEF t
    <3>4. /\ e \in Seq(Cells) /\ Len(e) = l + m
          /\ \A k \in 1 .. l + m : e[k] = IF k <= l THEN s[k] ELSE t[k - l]
      BY <1>2, <3>2, <3>3, JoinFacts
    <3>5. QED BY <3>1, <3>3, <3>4
  <2>3. QED BY <2>1, <2>2
<1> HIDE DEF e, s
<1>6. \A k \in 1 .. n : Thru(e[k], k - 1) = Seen(x, k - 1)
  <2> TAKE k \in 1 .. n
  <2>1. CASE k <= l
    <3>1. k \in 1 .. l
      BY <1>2, <2>1
    <3>2. e[k] = Seen(x, k - 1)
      BY <1>2, <1>5, <2>1, <3>1
    <3>3. QED BY <1>1, <3>2, SlotFacts
  <2>2. CASE ~(k <= l)
    <3>1. k - 1 \in Nat /\ l <= k - 1 /\ (k - 1) + 1 < Modulus
      BY <1>2, <1>3, <2>2, PlaceFacts
    <3>2. Slot(x, k - 1) = Hole
      BY <3>1, PlaceFacts, NothingAbove
    <3>3. e[k] = Hole
      BY <1>5, <2>2
    <3>4. QED BY <3>2, <3>3 DEF Seen
  <2>3. QED BY <2>1, <2>2
<1> HIDE DEF n
<1>7. Through(e) = Shape(PutLength(x, n))
  BY <1>3, <1>5, <1>6, Resized
<1>8. QED BY <1>4, <1>7 DEF Specified, Answer, s

LEMMA PutSpecified ==
  ASSUME NEW x \in Open, NEW c \in Calls, c.m = "put", x.array, IndicesBelow(x),
         c.a # invalid_index_value
  PROVE  Specified(c, x)
<1> DEFINE s == Shape(x)
           l == x.length
           i == c.a
           v == c.items[1]
           n == Greater(l, i + 1)
           y == Put(x, i, v)
           e == [k \in 1 .. n |-> IF k = i + 1 THEN v ELSE IF k <= l THEN s[k] ELSE Hole]
<1>1. x \in Objects
  BY OpenFacts
<1>2. l \in Nat /\ l < Modulus /\ s \in Seq(Cells) /\ Len(s) = l
      /\ \A k \in 1 .. l : s[k] = Seen(x, k - 1) /\ s[k] \in Cells
  BY <1>1, ShapeFacts, ElementOfSeq
<1>3. i \in Nat /\ i + 1 < Modulus /\ i \in Places /\ v \in Elements
  <2>1. i \in Indices /\ i # Modulus - 1 /\ v \in Elements
    BY CallFacts DEF invalid_index_value
  <2>2. i \in Nat /\ i < Modulus /\ Modulus \in Nat
    BY <2>1, IndexFacts
  <2>3. i + 1 < Modulus
    BY <2>1, <2>2
  <2>4. QED BY <2>1, <2>2, <2>3, PlaceFacts
<1>4. Apply(c, x) = Answer(y, <<>>) /\ Expected(c, s) = e /\ ExpectedResult(c, s) = <<>>
  BY <1>2 DEF Apply, Expected, ExpectedResult
<1>5. n \in Nat /\ n = (IF i >= l THEN i + 1 ELSE l) /\ n < Modulus
  BY <1>2, <1>3 DEF Greater
<1> HIDE DEF s, n, i, v
<1>6. e \in Seq(Cells) /\ Len(e) = n
  <2>1. \A k \in 1 .. n : k <= l => k \in 1 .. l
    BY <1>2, <1>5
  <2>2. e \in [1 .. n -> Cells]
    BY <1>2, <1>3, <2>1 DEF Cells
  <2>3. QED BY <1>5, <2>2, SeqDef
<1>7. y \in Open /\ y.length = n /\ \A j : Slot(y, j) = IF j = i THEN v ELSE Slot(x, j)
  BY <1>3, <1>5, PutSlot
<1> HIDE DEF y
<1>8. \A k \in 1 .. n : Thru(e[k], k - 1) = Seen(y, k - 1)
  <2> TAKE k \in 1 .. n
  <2>1. k \in Nat /\ k - 1 \in Nat
    BY <1>5
  <2>2. CASE k = i + 1
    <3>1. k - 1 = i
      BY <1>3, <2>1, <2>2
    <3>2. e[k] = v /\ Slot(y, k - 1) = v
      BY <1>7, <2>2, <3>1
    <3>3. QED BY <3>2 DEF Seen
  <2>3. CASE k # i + 1 /\ k <= l
    <3>1. k - 1 # i /\ k \in 1 .. l
      BY <1>2, <1>3, <2>1, <2>3
    <3>2. e[k] = Seen(x, k - 1) /\ Slot(y, k - 1) = Slot(x, k - 1)
      BY <1>2, <1>7, <2>3, <3>1
    <3>3. QED BY <1>1, <3>2, SlotFacts DEF Seen
  <2>4. CASE k # i + 1 /\ ~(k <= l)
    <3>1. k - 1 # i /\ l <= k - 1 /\ (k - 1) + 1 < Modulus
      BY <1>2, <1>3, <1>5, <2>1, <2>4, PlaceFacts
    <3>2. Slot(x, k - 1) = Hole
      BY <2>1, <3>1, PlaceFacts, NothingAbove
    <3>3. e[k] = Hole /\ Slot(y, k - 1) = Slot(x, k - 1)
      BY <1>7, <2>4, <3>1
    <3>4. QED BY <3>2, <3>3 DEF Seen
  <2>5. QED BY <2>2, <2>3, <2>4
<1> HIDE DEF e
<1>9. Through(e) = Shape(y)
  <2>1. y \in Objects
    BY <1>7, OpenFacts
  <2>2. QED BY <1>6, <1>7, <1>8, <2>1, SameShape
<1>10. QED BY <1>4, <1>9 DEF Specified, Answer, s

LEMMA ReverseSpecified ==
  ASSUME NEW x \in Open, NEW c \in Calls, c.m = "reverse"
  PROVE  Specified(c, x)
<1> DEFINE s == Shape(x)
           l == x.length
           y == Reversed(x).o
           t == Contents(y)
           e == [k \in 1 .. l |-> s[l - k + 1]]
<1>1. x \in Objects
  BY OpenFacts
<1>2. l \in Nat /\ Len(s) = l /\ \A k \in 1 .. l : s[k] = Seen(x, k - 1)
  BY <1>1, ShapeFacts
<1>3. Apply(c, x) = Reversed(x) /\ Reversed(x).r = <<>> /\ Expected(c, s) = e /\ ExpectedResult(c, s) = <<>>
  BY <1>2 DEF Apply, Reversed, Answer, Expected, ExpectedResult
<1>4. y \in Open /\ y.length = l /\ \A j \in 0 .. l - 1 : Get(y, j) = Get(x, l - 1 - j)
  BY ReverseSlots
<1> HIDE DEF y, s
<1>5. t \in Seq(Elements) /\ Len(t) = l /\ \A k \in 1 .. l : t[k] = Get(y, k - 1)
  BY <1>4, OpenFacts, ShapeFacts
<1>6. \A k \in 1 .. l : /\ k - 1 \in 0 .. l - 1 /\ l - k + 1 \in 1 .. l
                        /\ l - 1 - (k - 1) = (l - k + 1) - 1
  BY <1>2
<1>7. \A k \in 1 .. l : e[k] = Seen(x, (l - k + 1) - 1)
  BY <1>2, <1>6
<1>8. e \in Seq(Cells) /\ Len(e) = l
  <2>1. e \in [1 .. l -> Cells]
    BY <1>1, <1>7, SlotFacts DEF Cells
  <2>2. Len(e) = l
    BY <1>2
  <2> HIDE DEF e
  <2>3. e \in Seq(Cells)
    BY <1>2, <2>1, SeqDef
  <2>4. QED BY <2>2, <2>3
<1> HIDE DEF e, t
<1>9. \A k \in 1 .. l : t[k] = IF e[k] = Hole THEN Undefined ELSE e[k]
  <2> TAKE k \in 1 .. l
  <2>1. t[k] = Get(x, l - 1 - (k - 1))
    BY <1>4, <1>5, <1>6
  <2>2. t[k] = Get(x, (l - k + 1) - 1)
    BY <1>6, <2>1
  <2>3. QED BY <1>1, <1>7, <2>2, SlotFacts
<1>10. Values_(e) = t
  BY <1>5, <1>8, <1>9, SameValues
<1>11. QED BY <1>3, <1>10 DEF Specified, s, t, y

(* A start index and an end index of slice and splice lie within length.   *)
LEMMA StartFacts ==
  ASSUME NEW l \in Nat, NEW a \in Int
  PROVE  /\ calc_start_index(a, l) \in Nat /\ calc_start_index(a, l) <= l
         /\ calc_start_index(a, l) = IF a < 0 THEN Greater(l + a, 0) ELSE Smaller(a, l)
  BY DEF calc_start_index, Greater, Smaller

LEMMA Unchanged ==
  ASSUME NEW x \in Objects
  PROVE  Through(Shape(x)) = Shape(x)
<1>1. /\ Shape(x) \in Seq(Cells) /\ Len(Shape(x)) = x.length
      /\ \A k \in 1 .. x.length : Shape(x)[k] = Seen(x, k - 1)
  BY ShapeFacts
<1>2. \A k \in 1 .. x.length : Thru(Shape(x)[k], k - 1) = Seen(x, k - 1)
  BY <1>1, SlotFacts
<1>3. QED BY <1>1, <1>2, SameShape

LEMMA NewArrayOpen ==
  NewArray \in Open /\ NewArray.array /\ NewArray.length = 0
<1>1. <<>> \in [{} -> Elements] /\ {} \in SUBSET Indices
  OBVIOUS
<1>2. <<>> \in UNION {[D -> Elements] : D \in SUBSET Indices}
  BY <1>1
<1>3. 0 \in Indices /\ Extensible \in Extensible .. Frozen
  <2>1. 0 \in Nat /\ 0 < Modulus
    BY IndexFacts
  <2>2. 0 \in Indices
    BY <2>1, IndexFacts
  <2>3. QED BY <2>2 DEF Extensible, Frozen
<1>4. QED BY <1>2, <1>3 DEF NewArray, Objects, Open

LEMMA SliceSpecified ==
  ASSUME NEW x \in Open, NEW c \in Calls, c.m = "slice"
  PROVE  Specified(c, x)
<1> DEFINE s == Shape(x)
           l == x.length
           a == calc_start_index(c.a, l)
           b == calc_start_index(c.b, l)
           t == SubSeq(Contents(x), a + 1, b)
           e == SubSeq(s, a + 1, b)
           y == PutAll(NewArray, 0, t)
           m == Len(t)
<1>1. x \in Objects /\ c.a \in Int /\ c.b \in Int
  BY OpenFacts, CallFacts
<1>2. /\ l \in Nat /\ l < Modulus /\ s \in Seq(Cells) /\ Len(s) = l /\ DOMAIN s = 1 .. l
      /\ \A k \in 1 .. l : s[k] = Seen(x, k - 1) /\ s[k] \in Cells
      /\ \A k \in 1 .. l : Contents(x)[k] = Get(x, k - 1) /\ Contents(x)[k] \in Elements
  BY <1>1, ShapeFacts, SlotFacts, ElementOfSeq
<1>3. a \in Nat /\ a <= l /\ b \in Nat /\ b <= l
      /\ a = (IF c.a < 0 THEN Greater(l + c.a, 0) ELSE Smaller(c.a, l))
      /\ b = (IF c.b < 0 THEN Greater(l + c.b, 0) ELSE Smaller(c.b, l))
  BY <1>1, <1>2, StartFacts
<1>4. Apply(c, x) = Answer(x, Shape(y)) /\ Expected(c, s) = s /\ ExpectedResult(c, s) = Values_(e)
  BY <1>2, <1>3 DEF Apply, Slice, Expected, ExpectedResult
<1> HIDE DEF a, b, s
<1>5. a + 1 \in Int /\ b \in Int /\ \A k \in a + 1 .. b : k \in 1 .. l
  BY <1>2, <1>3
<1>6. /\ t \in Seq(Elements) /\ m = (IF a + 1 <= b THEN b - (a + 1) + 1 ELSE 0)
      /\ \A k \in 1 .. b - (a + 1) + 1 : t[k] = Contents(x)[(a + 1) + k - 1]
  <2>1. \A k \in a + 1 .. b : Contents(x)[k] \in Elements
    BY <1>2, <1>5
  <2>2. QED BY <1>5, <2>1, SubSeqProperties
<1>7. /\ e \in Seq(Cells) /\ Len(e) = (IF a + 1 <= b THEN b - (a + 1) + 1 ELSE 0)
      /\ \A k \in 1 .. b - (a + 1) + 1 : e[k] = s[(a + 1) + k - 1]
  <2>1. \A k \in a + 1 .. b : s[k] \in Cells
    BY <1>2, <1>5
  <2>2. QED BY <1>5, <2>1, SubSeqProperties
<1> HIDE DEF e, t
<1>8. /\ m \in Nat /\ m <= l /\ m < Modulus
      /\ \A k \in 1 .. m : k \in 1 .. b - (a + 1) + 1 /\ (a + 1) + k - 1 \in 1 .. l
  <2>1. m \in Nat /\ m <= l
    BY <1>2, <1>3, <1>6
  <2>2. m < Modulus
    BY <1>2, <2>1, PlaceFacts
  <2>3. \A k \in 1 .. m : k \in 1 .. b - (a + 1) + 1 /\ (a + 1) + k - 1 \in 1 .. l
    <3>1. CASE a + 1 <= b
      <4>1. m = b - (a + 1) + 1
        BY <1>6, <3>1
      <4>2. a \in Int /\ b \in Int
        BY <1>2, <1>3
      <4> HIDE DEF a, b, l, m
      <4>3. \A k \in 1 .. b - (a + 1) + 1 : (a + 1) + k - 1 \in a + 1 .. b
        BY <4>2
      <4>4. QED BY <1>5, <4>1, <4>3
    <3>2. CASE ~(a + 1 <= b)
      <4>1. m = 0
        BY <1>6, <3>2
      <4>2. QED BY <4>1
    <3>3. QED BY <3>1, <3>2
  <2>4. QED BY <2>1, <2>2, <2>3
<1>9. Values_(e) = t
  <2>1. \A k \in 1 .. m : t[k] = IF e[k] = Hole THEN Undefined ELSE e[k]
    <3> TAKE k \in 1 .. m
    <3> DEFINE j == (a + 1) + k - 1
    <3>1. t[k] = Contents(x)[j] /\ e[k] = s[j] /\ j \in 1 .. l
      BY <1>6, <1>7, <1>8
    <3> HIDE DEF j
    <3>2. t[k] = Get(x, j - 1) /\ e[k] = Seen(x, j - 1)
      BY <1>2, <3>1
    <3>3. QED BY <1>1, <3>2, SlotFacts
  <2>2. QED BY <1>6, <1>7, <2>1, SameValues
<1>10. Shape(y) = t
  <2>1. 0 \in Nat /\ 0 + m = m /\ m < Modulus
    BY <1>8
  <2>2. /\ y \in Open /\ y.length = 0 + m
        /\ \A j \in Nat : Slot(y, j) = IF 0 <= j /\ j < 0 + m THEN t[j - 0 + 1] ELSE Slot(NewArray, j)
    BY <1>6, <2>1, NewArrayOpen, PutAllSlots
  <2> HIDE DEF y
  <2>3. y \in Objects /\ y.length = m
    BY <2>1, <2>2, OpenFacts
  <2>4. \A k \in 1 .. m : Slot(y, k - 1) = t[k]
    <3> TAKE k \in 1 .. m
    <3>1. k - 1 \in Nat /\ 0 <= k - 1 /\ k - 1 < 0 + m /\ (k - 1) - 0 + 1 = k
      BY <1>8
    <3>2. QED BY <2>2, <3>1
  <2>5. \A k \in 1 .. m : t[k] \in Elements
    BY <1>6, ElementOfSeq
  <2>6. \A k \in 1 .. m : Seen(y, k - 1) = t[k]
    BY <2>4, <2>5, ThruFacts DEF Seen
  <2>7. Shape(y) \in Seq(Cells) /\ Len(Shape(y)) = m /\ \A k \in 1 .. m : Shape(y)[k] = t[k]
    BY <2>3, <2>6, ShapeFacts
  <2>8. t \in Seq(Cells)
    BY <1>6, SeqMonotonic DEF Cells
  <2>9. QED BY <2>7, <2>8, SeqEqual
<1>11. QED BY <1>1, <1>4, <1>9, <1>10, Unchanged DEF Specified, Answer, s

LEMMA LeastUnique ==
  ASSUME NEW M \in SUBSET Int, NEW k \in M, \A j \in M : k <= j
  PROVE  (CHOOSE i \in M : \A j \in M : i <= j) = k
<1> DEFINE i == CHOOSE i \in M : \A j \in M : i <= j
<1>1. i \in M /\ \A j \in M : i <= j
  OBVIOUS
<1> HIDE DEF i
<1>2. i <= k /\ k <= i /\ i \in Int /\ k \in Int
  BY <1>1
<1>3. i = k
  BY <1>2
<1>4. QED BY <1>3 DEF i

LEMMA GreatestUnique ==
  ASSUME NEW M \in SUBSET Int, NEW k \in M, \A j \in M : k >= j
  PROVE  (CHOOSE i \in M : \A j \in M : i >= j) = k
<1> DEFINE i == CHOOSE i \in M : \A j \in M : i >= j
<1>1. i \in M /\ \A j \in M : i >= j
  OBVIOUS
<1> HIDE DEF i
<1>2. i <= k /\ k <= i /\ i \in Int /\ k \in Int
  BY <1>1
<1>3. i = k
  BY <1>2
<1>4. QED BY <1>3 DEF i

(* A search looks at the places ks in turn and finds the first that has v. *)
LEMMA FoundFacts ==
  ASSUME NEW x \in Objects, NEW v \in Elements, NEW n \in Nat, NEW ks, DOMAIN ks = 1 .. n
  PROVE  \/ Found(x, v, ks) = <<-1>> /\ \A i \in 1 .. n : Seen(x, ks[i]) # v
         \/ \E i \in 1 .. n : /\ Found(x, v, ks) = <<ks[i]>> /\ Seen(x, ks[i]) = v
                              /\ \A h \in 1 .. n : Seen(x, ks[h]) = v => i <= h
<1> DEFINE is == {i \in DOMAIN ks : Has(x, ks[i]) /\ Get(x, ks[i]) = v}
<1>1. \A i : Has(x, i) /\ Get(x, i) = v <=> Seen(x, i) = v
  BY SlotFacts, HoleFacts
<1>2. is = {i \in 1 .. n : Seen(x, ks[i]) = v}
  BY <1>1
<1>3. Found(x, v, ks) = <<IF is = {} THEN -1 ELSE ks[Min(is)]>>
  BY DEF Found
<1> HIDE DEF is
<1>4. CASE is = {}
  BY <1>2, <1>3, <1>4
<1>5. CASE is # {}
  <2>1. is \in SUBSET Nat
    BY <1>2
  <2>2. \E i \in is : \A h \in is : i <= h
    BY <1>5, <2>1, PutFold!LeastNatural
  <2>3. Min(is) \in is /\ \A h \in is : Min(is) <= h
    BY <2>2 DEF Min
  <2>4. QED BY <1>2, <1>3, <1>5, <2>3
<1>6. QED BY <1>4, <1>5

LEMMA IndexOfSpecified ==
  ASSUME NEW x \in Open, NEW c \in Calls, c.m = "indexOf"
  PROVE  Specified(c, x)
<1> DEFINE s == Shape(x)
           l == Len(s)
           v == c.items[1]
           n == c.a
           start == IF n < 0 THEN Greater(l + n, 0) ELSE Smaller(n, l)
           k == IF n >= 0 THEN n ELSE Greater(l + n, 0)
           M == {j \in start .. l - 1 : s[j + 1] = v}
           want == IF M = {} THEN -1 ELSE CHOOSE i \in M : \A j \in M : i <= j
           r == IndexOf(x, v, n)
<1>1. x \in Objects /\ n \in Int /\ v \in Elements
  BY OpenFacts, CallFacts
<1>2. l \in Nat /\ x.length = l /\ \A i \in 1 .. l : s[i] = Seen(x, i - 1)
  BY <1>1, ShapeFacts
<1>3. Apply(c, x) = r /\ r.o = x /\ Expected(c, s) = s /\ ExpectedResult(c, s) = <<want>>
  <2>1. Apply(c, x) = r
    BY DEF Apply
  <2>2. r.o = x
    BY DEF IndexOf, Answer
  <2>3. Expected(c, s) = s
    BY DEF Expected
  <2>4. ExpectedResult(c, s) = <<want>>
    BY DEF ExpectedResult
  <2>5. QED BY <2>1, <2>2, <2>3, <2>4
<1>4. start \in Nat /\ k \in Nat /\ (n < l => start = k) /\ (n >= l => start = l)
  BY <1>1, <1>2 DEF Greater, Smaller
<1>5. r.r = IF n >= l THEN <<-1>> ELSE Found(x, v, Up(k, l))
  BY <1>2 DEF IndexOf, Answer
<1> HIDE DEF s, l, r, start, k, v, n
<1>6. M \in SUBSET Int /\ M = {j \in start .. l - 1 : Seen(x, j) = v}
  <2>1. \A j \in start .. l - 1 : j \in Int /\ j + 1 \in 1 .. l /\ (j + 1) - 1 = j
    BY <1>2, <1>4
  <2>2. QED BY <1>2, <2>1
<1> HIDE DEF M
<1>7. r.r = <<want>>
  <2>1. CASE n >= l
    <3>1. M = {}
      BY <1>1, <1>2, <1>4, <1>6, <2>1
    <3>2. QED BY <1>5, <2>1, <3>1
  <2>2. CASE ~(n >= l)
    <3> DEFINE ks == Up(k, l)
               m == Greater(l - k, 0)
    <3>1. n < l /\ start = k /\ r.r = Found(x, v, ks) /\ k \in Int /\ l \in Int
      BY <1>1, <1>2, <1>4, <1>5, <2>2
    <3>2. m \in Nat /\ DOMAIN ks = 1 .. m /\ \A i \in 1 .. m : ks[i] = k + i - 1
      BY <3>1, UpNumbers DEF Numbers
    <3>3. \A i \in 1 .. m : k + i - 1 \in start .. l - 1
      BY <1>2, <1>4, <3>1 DEF Greater
    <3>4. \A j \in start .. l - 1 : j - k + 1 \in 1 .. m /\ k + (j - k + 1) - 1 = j
      BY <1>2, <1>4, <3>1 DEF Greater
    <3> HIDE DEF ks, m
    <3>5. CASE Found(x, v, ks) = <<-1>> /\ \A i \in 1 .. m : Seen(x, ks[i]) # v
      <4>1. M = {}
        BY <1>6, <3>2, <3>4, <3>5
      <4>2. QED BY <3>1, <3>5, <4>1
    <3>6. CASE \E i \in 1 .. m : /\ Found(x, v, ks) = <<ks[i]>> /\ Seen(x, ks[i]) = v
                                 /\ \A h \in 1 .. m : Seen(x, ks[h]) = v => i <= h
      <4>1. PICK i \in 1 .. m : /\ Found(x, v, ks) = <<ks[i]>> /\ Seen(x, ks[i]) = v
                                /\ \A h \in 1 .. m : Seen(x, ks[h]) = v => i <= h
        BY <3>6
      <4> DEFINE p == k + i - 1
      <4>2. p \in M /\ ks[i] = p
        BY <1>6, <3>2, <3>3, <4>1
      <4>3. \A j \in M : p <= j
        <5> TAKE j \in M
        <5>1. j \in start .. l - 1 /\ Seen(x, j) = v
          BY <1>6
        <5>2. j - k + 1 \in 1 .. m /\ ks[j - k + 1] = j
          BY <3>2, <3>4, <5>1
        <5>3. i <= j - k + 1 /\ j \in Int
          BY <1>6, <4>1, <5>1, <5>2
        <5>4. QED BY <1>4, <3>2, <5>3
      <4> HIDE DEF p
      <4>4. (CHOOSE q \in M : \A j \in M : q <= j) = p
        BY <1>6, <4>2, <4>3, LeastUnique
      <4>5. QED BY <3>1, <4>1, <4>2, <4>4
    <3>7. QED BY <1>1, <3>2, <3>5, <3>6, FoundFacts
  <2>3. QED BY <2>1, <2>2
<1>8. QED BY <1>1, <1>3, <1>7, Unchanged DEF Specified, s

LEMMA LastIndexOfSpecified ==
  ASSUME NEW x \in Open, NEW c \in Calls, c.m = "lastIndexOf"
  PROVE  Specified(c, x)
<1> DEFINE s == Shape(x)
           l == Len(s)
           v == c.items[1]
           n == c.a
           last == IF n < 0 THEN l + n ELSE Smaller(n, l - 1)
           k == IF n >= 0 THEN Smaller(n, l - 1) ELSE l + n
           M == {j \in 0 .. last : s[j + 1] = v}
           want == IF M = {} THEN -1 ELSE CHOOSE i \in M : \A j \in M : i >= j
           r == LastIndexOf(x, v, n)
<1>1. x \in Objects /\ n \in Int /\ v \in Elements
  BY OpenFacts, CallFacts
<1>2. l \in Nat /\ x.length = l /\ \A i \in 1 .. l : s[i] = Seen(x, i - 1)
  BY <1>1, ShapeFacts
<1>3. Apply(c, x) = r /\ r.o = x /\ Expected(c, s) = s /\ ExpectedResult(c, s) = <<want>>
  <2>1. Apply(c, x) = r
    BY DEF Apply
  <2>2. r.o = x
    BY DEF LastIndexOf, Answer
  <2>3. Expected(c, s) = s
    BY DEF Expected
  <2>4. ExpectedResult(c, s) = <<want>>
    BY DEF ExpectedResult
  <2>5. QED BY <2>1, <2>2, <2>3, <2>4
<1>4. last \in Int /\ last = k /\ last <= l - 1
  BY <1>1, <1>2 DEF Smaller
<1>5. r.r = IF l = 0 THEN <<-1>> ELSE Found(x, v, Down(0, k + 1))
  BY <1>2 DEF LastIndexOf, Answer
<1> HIDE DEF s, l, r, last, k, v, n
<1>6. M \in SUBSET Int /\ M = {j \in 0 .. last : Seen(x, j) = v}
  <2>1. \A j \in 0 .. last : j \in Int /\ j + 1 \in 1 .. l /\ (j + 1) - 1 = j
    BY <1>2, <1>4
  <2>2. QED BY <1>2, <2>1
<1> HIDE DEF M
<1>7. r.r = <<want>>
  <2>1. CASE l = 0
    <3>1. M = {}
      BY <1>2, <1>4, <1>6, <2>1
    <3>2. QED BY <1>5, <2>1, <3>1
  <2>2. CASE l # 0
    <3> DEFINE ks == Down(0, k + 1)
               m == Greater((k + 1) - 0, 0)
    <3>1. r.r = Found(x, v, ks) /\ k \in Int /\ k + 1 \in Int /\ 0 \in Int
      BY <1>4, <1>5, <2>2
    <3>2. m \in Nat /\ DOMAIN ks = 1 .. m /\ \A i \in 1 .. m : ks[i] = (k + 1) - i
      BY <3>1, DownIndices
    <3>3. \A i \in 1 .. m : (k + 1) - i \in 0 .. last
      BY <1>4, <3>1 DEF Greater
    <3>4. \A j \in 0 .. last : (k + 1) - j \in 1 .. m /\ (k + 1) - ((k + 1) - j) = j
      BY <1>4, <3>1 DEF Greater
    <3> HIDE DEF ks, m
    <3>5. CASE Found(x, v, ks) = <<-1>> /\ \A i \in 1 .. m : Seen(x, ks[i]) # v
      <4>1. M = {}
        BY <1>6, <3>2, <3>4, <3>5
      <4>2. QED BY <3>1, <3>5, <4>1
    <3>6. CASE \E i \in 1 .. m : /\ Found(x, v, ks) = <<ks[i]>> /\ Seen(x, ks[i]) = v
                                 /\ \A h \in 1 .. m : Seen(x, ks[h]) = v => i <= h
      <4>1. PICK i \in 1 .. m : /\ Found(x, v, ks) = <<ks[i]>> /\ Seen(x, ks[i]) = v
                                /\ \A h \in 1 .. m : Seen(x, ks[h]) = v => i <= h
        BY <3>6
      <4> DEFINE p == (k + 1) - i
      <4>2. p \in M /\ ks[i] = p
        BY <1>6, <3>2, <3>3, <4>1
      <4>3. \A j \in M : p >= j
        <5> TAKE j \in M
        <5>1. j \in 0 .. last /\ Seen(x, j) = v
          BY <1>6
        <5>2. (k + 1) - j \in 1 .. m /\ ks[(k + 1) - j] = j
          BY <3>2, <3>4, <5>1
        <5>3. i <= (k + 1) - j /\ j \in Int
          BY <1>6, <4>1, <5>1, <5>2
        <5>4. QED BY <3>1, <3>2, <5>3
      <4> HIDE DEF p
      <4>4. (CHOOSE q \in M : \A j \in M : q >= j) = p
        BY <1>6, <4>2, <4>3, GreatestUnique
      <4>5. QED BY <3>1, <4>1, <4>2, <4>4
    <3>7. QED BY <1>1, <3>2, <3>5, <3>6, FoundFacts
  <2>3. QED BY <2>1, <2>2
<1>8. QED BY <1>1, <1>3, <1>7, Unchanged DEF Specified, s

(* splice moves the elements behind the deleted ones.                      *)
SpliceMoved(x, start, deleted, added) ==
  CASE added < deleted -> FoldLeft(Delete, MoveAll(x, Up(start + deleted, x.length), added - deleted),
                                   Down(x.length - deleted + added, x.length))
    [] added > deleted -> MoveAll(x, Down(start + deleted, x.length), added - deleted)
    [] OTHER -> x

SpliceSize(x, start, deleted, added) ==
  /\ start \in Nat /\ deleted \in Nat /\ added \in Nat
  /\ start + deleted <= x.length /\ x.length + added < Modulus

LEMMA SpliceMoves ==
  ASSUME NEW x \in Open, NEW start, NEW deleted, NEW added, SpliceSize(x, start, deleted, added)
  PROVE  LET y == SpliceMoved(x, start, deleted, added)
             n == x.length - deleted + added
         IN  /\ y \in Open
             /\ \A j \in Nat : j < start => Seen(y, j) = Seen(x, j)
             /\ \A j \in Nat : start + added <= j /\ j < n =>
                    Seen(y, j) = Thru(Seen(x, j - (added - deleted)), j)
<1> DEFINE l == x.length
           n == l - deleted + added
           a == start + deleted
           d == added - deleted
           y == SpliceMoved(x, start, deleted, added)
<1>1. x \in Objects /\ l \in Nat /\ start \in Nat /\ deleted \in Nat /\ added \in Nat /\ a <= l
      /\ l + added < Modulus /\ Modulus \in Nat
  BY OpenFacts, PlaceFacts DEF SpliceSize
<1>2. a \in Nat /\ d \in Int /\ n \in Nat /\ a + d = start + added /\ l + d = n /\ l < Modulus /\ n < Modulus
      /\ start <= n /\ start <= start + added
  BY <1>1
<1>3. ASSUME NEW u, Shifted(x, u, a, l, d)
      PROVE  /\ u \in Open
             /\ \A j \in Nat : j < start => Slot(u, j) = Slot(x, j)
             /\ \A j \in Nat : start + added <= j /\ j < n => Slot(u, j) = Seen(x, j - d)
  <2>1. u \in Open /\ \A j \in Nat : Slot(u, j) = IF start + added <= j /\ j < n THEN Seen(x, j - d) ELSE Slot(x, j)
    BY <1>2, <1>3 DEF Shifted
  <2>2. \A j \in Nat : j < start => ~(start + added <= j)
    BY <1>1
  <2>3. QED BY <2>1, <2>2
<1> HIDE DEF l, n, a, d, y
<1>4. ASSUME NEW u, u \in Open,
             \A j \in Nat : j < start => Slot(u, j) = Slot(x, j),
             \A j \in Nat : start + added <= j /\ j < n => Slot(u, j) = Seen(x, j - d)
      PROVE  /\ \A j \in Nat : j < start => Seen(u, j) = Seen(x, j)
             /\ \A j \in Nat : start + added <= j /\ j < n => Seen(u, j) = Thru(Seen(x, j - d), j)
  BY <1>4 DEF Seen
<1>5. CASE added < deleted
  <2> DEFINE u == MoveAll(x, Up(a, l), d)
             w == FoldLeft(Delete, u, Down(n, l))
  <2>1. y = w
    BY <1>1, <1>5 DEF y, SpliceMoved, n, a, d, l
  <2>2. d < 0 /\ a + d >= 0
    BY <1>1, <1>2, <1>5 DEF d
  <2>3. Shifted(x, u, a, l, d)
    BY <1>1, <1>2, <2>2, MoveDownwards
  <2>4. Numbers(Down(n, l), Greater(l - n, 0), n, l) /\ n \in Int /\ l \in Int
    <3>1. n \in Int /\ l \in Int
      BY <1>1, <1>2
    <3>2. QED BY <3>1, DownNumbers
  <2> HIDE DEF u
  <2>5. u \in Open
    BY <1>3, <2>3
  <2>6. w \in Open /\ \A j \in Nat : j < n => Slot(w, j) = Slot(u, j)
    BY <2>4, <2>5, DeletesSlots
  <2> HIDE DEF w
  <2>7. \A j \in Nat : j < start => j < n
    BY <1>1, <1>2
  <2>8. /\ \A j \in Nat : j < start => Slot(w, j) = Slot(x, j)
        /\ \A j \in Nat : start + added <= j /\ j < n => Slot(w, j) = Seen(x, j - d)
    BY <1>3, <2>3, <2>6, <2>7
  <2>9. QED BY <1>4, <2>1, <2>6, <2>8 DEF y, n, l, d
<1>6. CASE added > deleted
  <2> DEFINE u == MoveAll(x, Down(a, l), d)
  <2>1. y = u
    BY <1>1, <1>6 DEF y, SpliceMoved, a, d, l
  <2>2. d \in Nat
    BY <1>1, <1>2, <1>6 DEF d
  <2>3. Shifted(x, u, a, l, d)
    BY <1>1, <1>2, <2>2, MoveUpwards
  <2> HIDE DEF u
  <2>4. QED BY <1>3, <1>4, <2>1, <2>3 DEF y, n, l, d
<1>7. CASE ~(added < deleted) /\ ~(added > deleted)
  <2>1. y = x
    BY <1>7 DEF y, SpliceMoved
  <2>2. d = 0
    BY <1>1, <1>7 DEF d
  <2>3. \A j \in Nat : j - d = j
    BY <2>2
  <2>4. \A j \in Nat : Seen(x, j) = Thru(Seen(x, j - d), j)
    BY <1>1, <2>3, SlotFacts
  <2>5. QED BY <2>1, <2>4 DEF y, n, l, d
<1>8. QED BY <1>5, <1>6, <1>7

LEMMA DeletedFacts ==
  ASSUME NEW l \in Nat, NEW a \in Nat, a <= l, NEW b \in Int
  PROVE  LET n == Smaller(Greater(b, 0), l - a)
         IN  n \in Nat /\ a + n \in Nat /\ a <= a + n /\ a + n <= l
  BY DEF Smaller, Greater

LEMMA SpliceSpecified ==
  ASSUME NEW x \in Open, NEW c \in Calls, c.m = "splice", Fits(c, x)
  PROVE  Specified(c, x)
<1> DEFINE s == Shape(x)
           l == Len(s)
           start == calc_start_index(c.a, l)
           deleted == Smaller(Greater(c.b, 0), l - start)
           rest == start + deleted
           items == c.items
           m == Len(items)
           n == l - deleted + m
           y == SpliceMoved(x, start, deleted, m)
           z == PutAll(y, start, items)
           es == [k \in 1 .. deleted |-> <<k - 1, s[start + k]>>]
           res == FoldLeft(PutFound, NewArray, es)
           left == SubSeq(s, 1, start)
           right == SubSeq(s, rest + 1, l)
           gone == SubSeq(s, start + 1, rest)
           e == (left \o items) \o right
<1>1. x \in Objects /\ c.a \in Int /\ c.b \in Int
  BY OpenFacts, CallFacts
<1>2. l \in Nat /\ l = x.length /\ s \in Seq(Cells) /\ \A k \in 1 .. l : s[k] = Seen(x, k - 1) /\ s[k] \in Cells
  BY <1>1, ShapeFacts, ElementOfSeq
<1>3. m \in Nat /\ items \in Seq(Elements) /\ items \in Seq(Cells)
  BY CallFacts
<1>4. start \in Nat /\ start <= l
      /\ start = (IF c.a < 0 THEN Greater(l + c.a, 0) ELSE Smaller(c.a, l))
  BY <1>1, <1>2, StartFacts
<1>5. Apply(c, x) = Answer(PutLength(z, Wrap(n)), Shape(PutLength(res, deleted)))
  <2>1. Apply(c, x) = Splice(x, c.a, c.b, items)
    BY DEF Apply
  <2>2. QED BY <1>2, <2>1 DEF Splice, SpliceMoved
<1>6. Expected(c, s) = e /\ ExpectedResult(c, s) = Through(gone)
  <2> HIDE DEF start
  <2>1. Expected(c, s) = e
    BY <1>4 DEF Expected
  <2>2. ExpectedResult(c, s) = Through(gone)
    BY <1>4 DEF ExpectedResult
  <2>3. QED BY <2>1, <2>2
<1> HIDE DEF start
<1>7. deleted \in Nat /\ rest \in Nat /\ start <= rest /\ rest <= l
  <2>1. l \in Nat /\ start \in Nat /\ start <= l /\ c.b \in Int
    BY <1>1, <1>2, <1>4
  <2> HIDE DEF l
  <2>2. QED BY <2>1, DeletedFacts
<1> HIDE DEF deleted
<1>7a. l \in Int /\ m \in Int /\ start \in Int /\ deleted \in Int
  BY <1>2, <1>3, <1>4, <1>7
<1>8. n \in Nat /\ n < Modulus /\ n \in Indices /\ Wrap(n) = n
  <2>1. n \in Nat /\ n <= l + m
    BY <1>2, <1>3, <1>4, <1>7
  <2>2. l + m < Modulus
    BY <1>2 DEF Fits
  <2>3. n < Modulus
    BY <1>2, <1>3, <2>1, <2>2, PlaceFacts
  <2> HIDE DEF n
  <2>4. QED BY <2>1, <2>3, Room
<1>9. SpliceSize(x, start, deleted, m)
  BY <1>2, <1>3, <1>4, <1>7 DEF SpliceSize, Fits
<1>10. /\ y \in Open
       /\ \A j \in Nat : j < start => Seen(y, j) = Seen(x, j)
       /\ \A j \in Nat : start + m <= j /\ j < n => Seen(y, j) = Thru(Seen(x, j - (m - deleted)), j)
  <2> HIDE DEF m
  <2>1. QED BY <1>2, <1>9, SpliceMoves
<1> HIDE DEF s, l, y, items, m
<1>11. /\ z \in Open
       /\ \A j \in Nat : Slot(z, j) = IF start <= j /\ j < start + m THEN items[j - start + 1] ELSE Slot(y, j)
  <2>1. start + m < Modulus /\ Len(items) = m
    <3>1. start + m <= n
      BY <1>2, <1>3, <1>4, <1>7
    <3>2. start + m < Modulus
      BY <1>3, <1>4, <1>8, <3>1, PlaceFacts
    <3>3. QED BY <3>2 DEF m
  <2>2. start + Len(items) < Modulus
    BY <2>1
  <2> HIDE DEF n
  <2>3. z \in Open /\ \A j \in Nat : Slot(z, j) = IF start <= j /\ j < start + Len(items) THEN items[j - start + 1] ELSE Slot(y, j)
    BY <1>3, <1>4, <1>10, <2>2, PutAllSlots
  <2>4. QED BY <2>1, <2>3
<1>12. Through(gone) = Shape(PutLength(res, deleted))
  <2>1. deleted \in Indices /\ deleted < Modulus
    <3>1. deleted <= l /\ l < Modulus
      BY <1>1, <1>2, <1>4, <1>7, ShapeFacts
    <3>2. deleted < Modulus
      BY <1>2, <1>7, <3>1, PlaceFacts
    <3>3. QED BY <1>7, <3>2, Room
  <2>2. gone \in Seq(Cells) /\ Len(gone) = deleted /\ \A k \in 1 .. deleted : gone[k] = s[start + k]
    <3>1. start + 1 \in Nat /\ 1 <= start + 1 /\ start + 1 <= rest + 1 /\ rest - (start + 1) + 1 = deleted
          /\ \A k \in 1 .. deleted : (start + 1) + k - 1 = start + k
      BY <1>4, <1>7
    <3>2. /\ gone \in Seq(Cells) /\ Len(gone) = rest - (start + 1) + 1
          /\ \A k \in 1 .. rest - (start + 1) + 1 : gone[k] = s[(start + 1) + k - 1]
      <4> HIDE DEF rest
      <4>1. QED BY <1>2, <1>7, <3>1, PartFacts DEF l
    <3>3. QED BY <3>1, <3>2
  <2> HIDE DEF gone
  <2>3. \A k \in 1 .. deleted : es[k][1] = k - 1 /\ es[k][2] = s[start + k] /\ es[k][2] \in Cells
    <3>1. \A k \in 1 .. deleted : start + k \in 1 .. l
      BY <1>2, <1>4, <1>7
    <3>2. QED BY <1>2, <3>1
  <2>4. DOMAIN es = 1 .. deleted
    OBVIOUS
  <2> HIDE DEF es
  <2>5. res \in Open /\ \A k \in 1 .. deleted : Slot(res, k - 1) = es[k][2]
    BY <1>7, <2>1, <2>3, <2>4, PutFoundSlots DEF Cells
  <2> HIDE DEF res
  <2>6. \A k \in 1 .. deleted : Thru(gone[k], k - 1) = Seen(res, k - 1)
    BY <2>2, <2>3, <2>5 DEF Seen
  <2>7. QED BY <2>1, <2>2, <2>5, <2>6, Resized
<1> HIDE DEF gone, res, es
<1>13. left \in Seq(Cells) /\ Len(left) = start /\ \A k \in 1 .. start : left[k] = s[k]
  <2>1. 1 <= start + 1 /\ start - 1 + 1 = start /\ \A k \in 1 .. start : 1 + k - 1 = k
    BY <1>4
  <2>2. /\ left \in Seq(Cells) /\ Len(left) = start - 1 + 1
        /\ \A k \in 1 .. start - 1 + 1 : left[k] = s[1 + k - 1]
    BY <1>2, <1>4, <2>1, PartFacts DEF l
  <2>3. QED BY <2>1, <2>2
<1>14. right \in Seq(Cells) /\ Len(right) = l - rest /\ \A k \in 1 .. l - rest : right[k] = s[rest + k]
  <2>0. l \in Nat /\ rest \in Nat /\ rest <= l
    BY <1>2, <1>7
  <2>1. rest + 1 \in Nat /\ 1 <= rest + 1 /\ rest + 1 <= l + 1 /\ l <= l /\ l - (rest + 1) + 1 = l - rest
        /\ \A k \in 1 .. l - rest : (rest + 1) + k - 1 = rest + k
    <3> HIDE DEF rest
    <3>1. QED BY ONLY <2>0
  <2>2. /\ right \in Seq(Cells) /\ Len(right) = l - (rest + 1) + 1
        /\ \A k \in 1 .. l - (rest + 1) + 1 : right[k] = s[(rest + 1) + k - 1]
    <3> HIDE DEF rest
    <3>1. QED BY <1>2, <2>1, PartFacts DEF l
  <2>3. QED BY <2>1, <2>2
<1> HIDE DEF left, right
<1>15. /\ e \in Seq(Cells) /\ Len(e) = (start + m) + (l - rest)
       /\ \A k \in 1 .. (start + m) + (l - rest) :
              e[k] = IF k <= start + m THEN (left \o items)[k] ELSE right[k - (start + m)]
  <2> DEFINE u == left \o items
             i == start + m
             j == l - rest
  <2>1. u \in Seq(Cells) /\ Len(u) = i
    BY <1>3, <1>13, JoinFacts DEF m
  <2>2. right \in Seq(Cells) /\ Len(right) = j /\ e = u \o right
    BY <1>14
  <2> HIDE DEF u, i, j, e
  <2>3. /\ e \in Seq(Cells) /\ Len(e) = i + j
        /\ \A k \in 1 .. i + j : e[k] = IF k <= i THEN u[k] ELSE right[k - i]
    BY <2>1, <2>2, JoinFacts
  <2>4. QED BY <2>3 DEF u, i, j
<1>16. \A k \in 1 .. start + m : (left \o items)[k] = IF k <= start THEN left[k] ELSE items[k - start]
  BY <1>3, <1>13, JoinFacts DEF m
<1> HIDE DEF e
<1>17. (start + m) + (l - rest) = n
  BY ONLY <1>7a
<1> HIDE DEF z
<1>18. \A k \in 1 .. n : Thru(e[k], k - 1) = Seen(z, k - 1)
  <2> TAKE k \in 1 .. n
  <2>1. k \in Nat /\ k - 1 \in Nat /\ start + m \in Nat
    BY <1>3, <1>4, <1>8
  <2>2. CASE k <= start
    <3>1. k <= start + m /\ k \in 1 .. start + m /\ k \in 1 .. start /\ k \in 1 .. l /\ k - 1 < start /\ ~(start <= k - 1)
      BY <1>2, <1>3, <1>4, <2>1, <2>2
    <3>2. e[k] = Seen(x, k - 1)
      BY <1>2, <1>13, <1>15, <1>16, <1>17, <2>2, <3>1
    <3>3. Slot(z, k - 1) = Slot(y, k - 1)
      BY <1>11, <2>1, <3>1
    <3>4. Seen(y, k - 1) = Seen(x, k - 1)
      BY <1>10, <2>1, <3>1
    <3>5. QED BY <1>1, <3>2, <3>3, <3>4, SlotFacts DEF Seen
  <2>3. CASE ~(k <= start) /\ k <= start + m
    <3>1. k \in 1 .. start + m /\ start <= k - 1 /\ k - 1 < start + m /\ (k - 1) - start + 1 = k - start
      BY <1>3, <1>4, <2>1, <2>3
    <3>2. e[k] = items[k - start]
      BY <1>15, <1>16, <1>17, <2>3, <3>1
    <3>3. Slot(z, k - 1) = items[k - start]
      BY <1>11, <2>1, <3>1
    <3>4. QED BY <3>2, <3>3 DEF Seen
  <2>4. CASE ~(k <= start + m)
    <3> DEFINE i == k - (start + m)
               j == (k - 1) - (m - deleted)
    <3>1. /\ i \in 1 .. l - rest /\ rest + i \in 1 .. l /\ (rest + i) - 1 = j
          /\ start + m <= k - 1 /\ k - 1 < n /\ ~(k - 1 < start + m)
      <4>1. k \in Int /\ 1 <= k /\ k <= n /\ ~(k <= start + m)
        BY <1>8, <2>4
      <4>2. start >= 0 /\ deleted >= 0
        BY <1>4, <1>7
      <4>3. QED BY ONLY <1>7a, <4>1, <4>2
    <3>2. e[k] = s[rest + i]
      BY <1>14, <1>15, <1>17, <2>4, <3>1
    <3> HIDE DEF i
    <3>3. e[k] = Seen(x, j)
      BY <1>2, <3>1, <3>2
    <3> HIDE DEF rest, n
    <3>4. Slot(z, k - 1) = Slot(y, k - 1)
      BY <1>11, <2>1, <3>1
    <3>5. Seen(y, k - 1) = Thru(Seen(x, j), k - 1)
      BY <1>10, <2>1, <3>1
    <3>6. QED BY <3>3, <3>4, <3>5 DEF Seen
  <2>5. QED BY <2>2, <2>3, <2>4
<1> HIDE DEF n
<1>19. Through(e) = Shape(PutLength(z, n))
  BY <1>8, <1>11, <1>15, <1>17, <1>18, Resized
<1>20. QED BY <1>5, <1>6, <1>8, <1>12, <1>19 DEF Specified, Answer, s

(* The functions that move elements do to a sequence with holes what is    *)
(* expected of them.                                                       *)
LEMMA EachSpecified ==
  ASSUME NEW x \in Open, IndicesBelow(x), NEW c \in Calls, Fits(c, x),
         c.m \notin {"concat", "delete", "restrict"},
         c.m \in {"put", "length"} => x.array /\ c.a # invalid_index_value
  PROVE  Specified(c, x)
<1>1. c.m \in {"put", "length", "pop", "push", "shift", "unshift", "slice", "splice", "reverse",
               "indexOf", "lastIndexOf"}
  BY CallFacts DEF Methods
<1>2. QED BY <1>1, PutSpecified, LengthSpecified, PopSpecified, PushSpecified, ShiftSpecified,
             UnshiftSpecified, SliceSpecified, SpliceSpecified, ReverseSpecified, IndexOfSpecified,
             LastIndexOfSpecified

LEMMA ArrayInvSpecifies ==
  ASSUME ArrayInv
  PROVE  MethodsAsSpecified
<1> SUFFICES ASSUME NEW c \in Calls, c.m \notin {"concat", "delete", "restrict"}, o.level = Extensible,
                    Len(Shape(o)) + Len(c.items) < Modulus,
                    c.m \in {"put", "length"} => o.array /\ c.a # invalid_index_value
             PROVE  Specified(c, o)
  BY DEF MethodsAsSpecified, Specified
<1>1. o \in Objects /\ IndicesBelow(o)
  BY DEF ArrayInv, TypeOK, IndicesBelowLength
<1>2. o \in Open /\ Fits(c, o)
  BY <1>1, ShapeFacts DEF Open, Fits
<1>3. QED BY <1>1, <1>2, EachSpecified

(* The functions of Array.prototype that move elements one by one do to    *)
(* holes, inherited elements and both ends what they do to a sequence, for *)
(* every receiver that the program can make, if user code that converts a  *)
(* new length leaves the array alone (array_pop, _push, _shift, _unshift,  *)
(* _slice, _splice, reverse, _index_of, _last_index_of, put, put_length).  *)
THEOREM MethodsSpecified == QuietLengths /\ Spec => []MethodsAsSpecified
<1> SUFFICES ASSUME QuietLengths PROVE Spec => []MethodsAsSpecified
  OBVIOUS
<1>1. ArrayInv => MethodsAsSpecified
  BY ArrayInvSpecifies
<1>2. Spec => []ArrayInv
  BY ArrayInvHolds
<1>3. QED BY <1>1, <1>2, PTL

-----------------------------------------------------------------------------
(* sort.                                                                   *)

(* A permutation of 1 .. n takes the places of a value in the result to    *)
(* its places in what was sorted.                                          *)
LEMMA PermutedTimes ==
  ASSUME NEW n \in Nat, NEW l, NEW s, DOMAIN l = 1 .. n, DOMAIN s = 1 .. n,
         NEW p \in [1 .. n -> 1 .. n], \A j, k \in 1 .. n : j # k => p[j] # p[k],
         \A k \in 1 .. n : s[k] = l[p[k]], NEW v
  PROVE  Times(l, v) = Times(s, v)
<1> DEFINE D == 1 .. n
           A == {k \in D : s[k] = v}
           B == {k \in D : l[k] = v}
           f == [k \in A |-> p[k]]
<1>1. IsFiniteSet(D)
  BY FS_Interval
<1>2. p \in Injection(D, D)
  BY DEF Injection, IsInjective
<1>3. p \in Surjection(D, D)
  BY <1>1, <1>2, FS_Injection
<1>4. \A i \in D : \E k \in D : p[k] = i
  BY <1>3 DEF Surjection
<1>5. f \in Bijection(A, B)
  <2>1. f \in [A -> B]
    OBVIOUS
  <2>2. \A a, b \in A : f[a] = f[b] => a = b
    OBVIOUS
  <2>3. \A b \in B : \E a \in A : f[a] = b
    BY <1>4
  <2> HIDE DEF f, A, B
  <2>4. f \in Injection(A, B)
    BY <2>1, <2>2 DEF Injection, IsInjective
  <2>5. QED BY <2>1, <2>3, <2>4 DEF Bijection, Surjection
<1>6. IsFiniteSet(A)
  BY <1>1, FS_Subset
<1> HIDE DEF f, A, B
<1>7. Cardinality(B) = Cardinality(A)
  BY <1>5, <1>6, FS_Bijection DEF ExistsBijection
<1>8. QED BY <1>7 DEF Times, A, B

(* What a comparison function may make of l: a permutation, with undefined *)
(* last.                                                                   *)
LEMMA SortedFacts ==
  ASSUME NEW l \in Seq(Elements), NEW s \in Sorted(l)
  PROVE  /\ DOMAIN s = DOMAIN l /\ Len(s) = Len(l)
         /\ \A v : Times(l, v) = Times(s, v)
         /\ \A j, k \in DOMAIN l : j < k /\ s[j] = Undefined => s[k] = Undefined
<1> DEFINE n == Len(l)
<1>1. n \in Nat /\ DOMAIN l = 1 .. n
  BY LenProperties
<1>2. \E p \in [DOMAIN l -> DOMAIN l] :
         /\ s = [k \in DOMAIN l |-> l[p[k]]]
         /\ \A j, k \in DOMAIN l : j # k => p[j] # p[k]
         /\ \A j, k \in DOMAIN l : j < k /\ l[p[j]] = Undefined => l[p[k]] = Undefined
  BY DEF Sorted
<1> HIDE DEF n
<1>3. PICK p \in [1 .. n -> 1 .. n] :
         /\ s = [k \in 1 .. n |-> l[p[k]]]
         /\ \A j, k \in 1 .. n : j # k => p[j] # p[k]
         /\ \A j, k \in 1 .. n : j < k /\ l[p[j]] = Undefined => l[p[k]] = Undefined
  BY <1>1, <1>2
<1>4. DOMAIN s = 1 .. n /\ Len(s) = n /\ \A k \in 1 .. n : s[k] = l[p[k]]
  BY <1>1, <1>3
<1>5. \A v : Times(l, v) = Times(s, v)
  BY <1>1, <1>3, <1>4, PermutedTimes
<1>6. QED BY <1>1, <1>3, <1>4, <1>5 DEF n

LEMMA SortEndKeeps ==
  ASSUME TypeOK, NEW s \in Sorted(Waiting.values), SortEnd(s), o.level = Extensible
  PROVE  LET l == Waiting.values
             new == [k \in DOMAIN l |-> Get(o', k - 1)]
         IN  /\ \A v \in Elements : Times(l, v) = Times(new, v)
             /\ \A j, k \in DOMAIN l : j < k /\ new[j] = Undefined => new[k] = Undefined
<1> DEFINE l == Waiting.values
           new == [k \in DOMAIN l |-> Get(o', k - 1)]
           n == Len(l)
<1>1. Waiting.m = "sort"
  BY DEF SortEnd
<1>2. Waiting \in Frames /\ l \in Seq(Elements) /\ n < Modulus
  <2>1. frames # <<>>
    BY <1>1, NobodyWaits
  <2>2. Waiting \in Frames
    BY <2>1, WaitingTop
  <2>3. QED BY <1>1, <2>2, FrameFacts
<1>3. o' = PutAll(o, 0, s)
  BY SortEndOutcome
<1>4. n \in Nat /\ DOMAIN l = 1 .. n
  BY <1>2, LenProperties
<1>5. s \in Seq(Elements) /\ Len(s) = n /\ DOMAIN s = 1 .. n
      /\ \A k \in 1 .. n : s[k] \in Elements
  BY <1>2, <1>4, SortedValues, SortedFacts, LenProperties
<1>6. o \in Open
  BY StackFacts DEF Open
<1>7. o' \in Open /\ \A j \in Nat : Slot(o', j) = IF 0 <= j /\ j < 0 + n THEN s[j - 0 + 1] ELSE Slot(o, j)
  <2>1. 0 \in Nat /\ 0 + Len(s) < Modulus
    BY <1>2, <1>4, <1>5
  <2> HIDE DEF n
  <2>2. QED BY <1>3, <1>5, <1>6, <2>1, PutAllSlots
<1> HIDE DEF l, n
<1>8. \A k \in 1 .. n : Get(o', k - 1) = s[k]
  <2> TAKE k \in 1 .. n
  <2>1. k - 1 \in Nat /\ 0 <= k - 1 /\ k - 1 < 0 + n /\ (k - 1) - 0 + 1 = k
    BY <1>4
  <2>2. Slot(o', k - 1) = s[k] /\ s[k] \in Elements
    BY <1>5, <1>7, <2>1
  <2>3. Seen(o', k - 1) = s[k] /\ s[k] # Hole
    BY <2>2, HoleFacts, ThruFacts DEF Seen
  <2>4. o' \in Objects
    BY <1>7, OpenFacts
  <2>5. QED BY <2>3, <2>4, SlotFacts
<1>9. new = s
  <2>1. s = [k \in 1 .. n |-> s[k]]
    BY <1>5, LenProperties
  <2>2. QED BY <1>4, <1>8, <2>1
<1>10. QED BY <1>2, <1>4, <1>9, SortedFacts DEF l

(* sort loses and duplicates nothing, and leaves undefined last, whatever  *)
(* the compare function does to the receiver meanwhile                     *)
(* (Array.prototype.sort).                                                 *)
THEOREM SortKeeps == Spec => SortKeepsElements
<1>1. TypeOK /\ [Next]_vars =>
        [ LET l == Waiting.values
              new == [k \in DOMAIN l |-> Get(o', k - 1)]
          IN  /\ Waiting.m = "sort" /\ Len(frames') < Len(frames) /\ o.level = Extensible
              /\ \E s \in Sorted(l) : SortEnd(s)
              => /\ \A v \in Elements : Times(l, v) = Times(new, v)
                 /\ \A j, k \in DOMAIN l : j < k /\ new[j] = Undefined => new[k] = Undefined ]_vars
  BY SortEndKeeps
<1>2. QED BY <1>1, ArrayTypes, PTL DEF Spec, SortKeepsElements

=============================================================================
