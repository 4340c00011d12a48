---------------------------- MODULE ScopesProofs ----------------------------
(***************************************************************************)
(* Scopes, for any codes, names and values and heaps of any size: every    *)
(* reference stays on the heap and of its kind, the functions a scope      *)
(* remembers stay in line with their definitions, code runs in a scope of  *)
(* its kind, and the objects of with and catch gain no names.              *)
(***************************************************************************)
EXTENDS Scopes, SequenceTheorems, FiniteSetTheorems, TLAPS

-----------------------------------------------------------------------------
(* Sequences.                                                              *)

TraverseFold == INSTANCE FoldProofs WITH Op <- Traverse
VariableFold == INSTANCE FoldProofs WITH Op <- HoistVariable
DefinitionFold == INSTANCE FoldProofs WITH Op <- HoistDefinition
ScanFold == INSTANCE FoldProofs WITH Op <- ScanDeclaration

LEMMA Greatest ==
  ASSUME NEW n \in Nat, NEW T \in SUBSET (1 .. n), T # {}
  PROVE  Max(T) \in T
<1> DEFINE U == {n - i : i \in T}
<1>a. \A i \in T : i \in 1 .. n /\ n - i \in Nat
  OBVIOUS
<1>b. U # {}
  OBVIOUS
<1>1. U \in SUBSET Nat /\ U # {}
  BY <1>a, <1>b
<1> HIDE DEF U
<1>2. PICK m \in U : \A u \in U : m <= u
  BY <1>1, TraverseFold!LeastNatural
<1> USE DEF U
<1>3. PICK k \in T : m = n - k
  BY <1>2
<1>4. ASSUME NEW i \in T PROVE k >= i
  <2>1. n - i \in U
    OBVIOUS
  <2>2. m <= n - i /\ i \in Nat /\ k \in Nat
    BY <1>2, <2>1
  <2>3. QED BY <1>3, <2>2
<1>5. \E x \in T : \A y \in T : x >= y
  BY <1>4
<1>6. QED BY <1>5 DEF Max

LEMMA Least ==
  ASSUME NEW T \in SUBSET Nat, T # {}
  PROVE  Min(T) \in T
<1>1. \E x \in T : \A y \in T : x <= y
  BY TraverseFold!LeastNatural
<1>2. QED BY <1>1 DEF Min

LEMMA LastPlaceFacts ==
  ASSUME NEW s, NEW x, Len(s) \in Nat
  PROVE  /\ LastPlace(s, x) \in 0 .. Len(s)
         /\ LastPlace(s, x) # 0 => s[LastPlace(s, x)] = x
<1> DEFINE T == {i \in 1 .. Len(s) : s[i] = x}
<1>1. LastPlace(s, x) = IF T # {} THEN Max(T) ELSE 0
  BY DEF LastPlace, SelectLastInSeq
<1>2. T \in SUBSET (1 .. Len(s)) /\ \A i \in T : s[i] = x
  OBVIOUS
<1> HIDE DEF T
<1>3. T # {} => Max(T) \in T
  BY <1>2, Greatest
<1> DEFINE k == LastPlace(s, x)
<1>4. k = 0 \/ k \in T
  BY <1>1, <1>3
<1> HIDE DEF k
<1>5. 0 \in 0 .. Len(s) /\ 1 .. Len(s) \subseteq 0 .. Len(s)
  OBVIOUS
<1>6. k \in 0 .. Len(s) /\ (k # 0 => s[k] = x)
  BY <1>2, <1>4, <1>5
<1>7. QED BY <1>6 DEF k

LEMMA PlaceFacts ==
  ASSUME NEW s, NEW x, Len(s) \in Nat
  PROVE  /\ Place(s, x) \in 0 .. Len(s)
         /\ Place(s, x) # 0 => s[Place(s, x)] = x
         /\ Place(s, x) = 0 => \A i \in 1 .. Len(s) : s[i] # x
<1> DEFINE T == {i \in 1 .. Len(s) : s[i] = x}
<1>1. Place(s, x) = IF T # {} THEN Min(T) ELSE 0
  BY DEF Place, SelectInSeq
<1>2. T \in SUBSET Nat /\ T \subseteq 1 .. Len(s) /\ \A i \in T : s[i] = x
  OBVIOUS
<1>3. T = {} => \A i \in 1 .. Len(s) : s[i] # x
  OBVIOUS
<1> HIDE DEF T
<1>4. T # {} => Min(T) \in T
  BY <1>2, Least
<1>5. T # {} => Min(T) # 0
  BY <1>2, <1>4
<1> DEFINE k == Place(s, x)
<1>6. (k = 0 /\ T = {}) \/ (k \in T /\ k # 0)
  BY <1>1, <1>4, <1>5
<1> HIDE DEF k
<1>7. 0 \in 0 .. Len(s) /\ 1 .. Len(s) \subseteq 0 .. Len(s)
  OBVIOUS
<1>8. k \in 0 .. Len(s) /\ (k # 0 => s[k] = x) /\ (k = 0 => T = {})
  BY <1>2, <1>6, <1>7
<1>9. QED BY <1>3, <1>8 DEF k

(* What is left of a sequence without its i-th element: the order stays.   *)
LEMMA RemoveAtFacts ==
  ASSUME NEW S, NEW s \in Seq(S), NEW i \in 1 .. Len(s)
  PROVE  /\ RemoveAt(s, i) \in Seq(S) /\ Len(RemoveAt(s, i)) = Len(s) - 1
         /\ \A j \in 1 .. Len(s) - 1 : RemoveAt(s, i)[j] = s[IF j < i THEN j ELSE j + 1]
<1> DEFINE n == Len(s)
           a == SubSeq(s, 1, i - 1)
           b == SubSeq(s, i + 1, n)
<1>1. n \in Nat /\ \A j \in 1 .. n : s[j] \in S
  BY LenProperties, ElementOfSeq
<1>2. i \in 1 .. n
  OBVIOUS
<1> HIDE DEF n
<1>3. a \in Seq(S) /\ Len(a) = i - 1 /\ \A j \in 1 .. i - 1 : a[j] = s[j]
  <2> DEFINE k == i - 1
  <2>1. 1 \in Int /\ k \in Int /\ k >= 0 /\ \A j \in 1 .. k : s[j] \in S
    BY <1>1, <1>2
  <2> HIDE DEF k
  <2> DEFINE aa == SubSeq(s, 1, k)
  <2>2. aa \in Seq(S) /\ Len(aa) = (IF 1 <= k THEN k - 1 + 1 ELSE 0)
        /\ \A j \in 1 .. k - 1 + 1 : aa[j] = s[1 + j - 1]
    BY <2>1, SubSeqProperties
  <2>3. k - 1 + 1 = k /\ \A j \in 1 .. k : 1 + j - 1 = j
    BY <2>1
  <2> HIDE DEF aa
  <2>4. aa \in Seq(S) /\ Len(aa) = k /\ \A j \in 1 .. k : aa[j] = s[j]
    BY <2>1, <2>2, <2>3
  <2>5. QED BY <2>4 DEF k, aa
<1>4. b \in Seq(S) /\ Len(b) = n - i /\ \A j \in 1 .. n - i : b[j] = s[j + i]
  <2> DEFINE k == i + 1
  <2>1. k \in Int /\ n \in Int /\ k <= n + 1 /\ \A j \in k .. n : s[j] \in S
    BY <1>1, <1>2
  <2>2. k = i + 1 /\ i \in Int
    BY <1>2
  <2> HIDE DEF k
  <2> DEFINE bb == SubSeq(s, k, n)
  <2>3. bb \in Seq(S) /\ Len(bb) = (IF k <= n THEN n - k + 1 ELSE 0)
        /\ \A j \in 1 .. n - k + 1 : bb[j] = s[k + j - 1]
    BY <2>1, SubSeqProperties
  <2>4. n - k + 1 = n - i /\ \A j \in 1 .. n - i : k + j - 1 = j + i
    BY <2>1, <2>2
  <2> HIDE DEF bb
  <2>5. Len(bb) = n - i
    BY <2>1, <2>2, <2>3
  <2>6. \A j \in 1 .. n - i : bb[j] = s[j + i]
    BY <2>3, <2>4
  <2>7. QED BY <2>2, <2>3, <2>5, <2>6 DEF bb
<1> HIDE DEF a, b
<1>5. a \o b \in Seq(S) /\ Len(a \o b) = Len(a) + Len(b)
      /\ \A j \in 1 .. Len(a) + Len(b) : (a \o b)[j] = IF j <= Len(a) THEN a[j] ELSE b[j - Len(a)]
  BY <1>3, <1>4, ConcatProperties
<1>6. RemoveAt(s, i) = a \o b
  BY DEF RemoveAt, a, b, n
<1>7. Len(a) + Len(b) = n - 1
  BY <1>1, <1>2, <1>3, <1>4
<1>8. ASSUME NEW j \in 1 .. n - 1
      PROVE  (a \o b)[j] = s[IF j < i THEN j ELSE j + 1]
  <2>1. CASE j < i
    <3>1. j <= Len(a) /\ j \in 1 .. i - 1
      BY <1>1, <1>2, <1>3, <2>1
    <3>2. QED BY <1>3, <1>5, <1>7, <2>1, <3>1
  <2>2. CASE ~(j < i)
    <3> DEFINE l == j - Len(a)
    <3>1. ~(j <= Len(a)) /\ l \in 1 .. n - i /\ l + i = j + 1
      BY <1>1, <1>2, <1>3, <2>2
    <3>2. (a \o b)[j] = b[l]
      BY <1>5, <1>7, <3>1
    <3> HIDE DEF l
    <3>3. b[l] = s[l + i]
      BY <1>4, <3>1
    <3>4. QED BY <2>2, <3>1, <3>2, <3>3
  <2>3. QED BY <2>1, <2>2
<1>9. QED BY <1>5, <1>6, <1>7, <1>8 DEF n

-----------------------------------------------------------------------------
(* Objects.                                                                *)

\* Ways to have the properties that a heap must keep
Holders == Environments \cup {"arguments"}

LEMMA ThingFacts ==
  ASSUME NEW x \in Things
  PROVE  /\ x.kind \in {"scope", "function"} \cup Holders
         /\ x.kind = "scope" =>
              x.env \in Nat /\ x.prev \in Nat /\ x.funcs \in Seq(Addresses) /\ x.vals \in Seq(Nat)
         /\ x.kind = "function" => x.code \in DOMAIN Codes /\ x.scope \in Nat
         /\ x.kind = "activation" => x.params \in Seq(Names) /\ x.args \in Nat
         /\ x.kind \in Holders => x.props \in PropertyMaps
BY DEF Things, Activations, Holders, Environments

LEMMA HeapTypes ==
  ASSUME NEW h \in Heaps
  PROVE  DOMAIN h \subseteq Nat \ {Null} /\ h = [i \in DOMAIN h |-> h[i]]
         /\ \A i \in DOMAIN h : h[i] \in Things
BY DEF Heaps

LEMMA HeapType ==
  ASSUME NEW h, h = [i \in DOMAIN h |-> h[i]], DOMAIN h \subseteq Nat \ {Null},
         \A i \in DOMAIN h : h[i] \in Things
  PROVE  h \in Heaps
<1>1. h \in [DOMAIN h -> Things] /\ DOMAIN h \in SUBSET (Nat \ {Null})
  OBVIOUS
<1>2. QED BY <1>1 DEF Heaps

\* What an object keeps for good
Keeps(x, y) ==
  /\ y.kind = x.kind
  /\ x.kind = "scope" => y.env = x.env /\ y.prev = x.prev
  /\ x.kind = "function" => y.code = x.code /\ y.scope = x.scope
  /\ x.kind = "activation" => y.args = x.args /\ y.params = x.params
  /\ x.kind = "plain" => DOMAIN y.props \subseteq DOMAIN x.props

\* Nothing goes from the heap, and all keep what they must
Grows(h, g) == DOMAIN h \subseteq DOMAIN g /\ \A i \in DOMAIN h : Keeps(h[i], g[i])

LEMMA KeepsItself == ASSUME NEW x PROVE Keeps(x, x)
BY DEF Keeps

LEMMA GrowsNot == ASSUME NEW h PROVE Grows(h, h)
BY KeepsItself DEF Grows

LEMMA GrowsOn ==
  ASSUME NEW f, NEW g, NEW h, Grows(f, g), Grows(g, h)
  PROVE  Grows(f, h)
<1>1. ASSUME NEW i \in DOMAIN f PROVE Keeps(f[i], h[i])
  <2>1. Keeps(f[i], g[i]) /\ Keeps(g[i], h[i])
    BY DEF Grows
  <2>2. QED BY <2>1 DEF Keeps
<1>2. QED BY <1>1 DEF Grows

LEMMA IsKept ==
  ASSUME NEW h, NEW g, Grows(h, g), NEW i, NEW kinds, Is(h, i, kinds)
  PROVE  Is(g, i, kinds)
BY DEF Grows, Keeps, Is

LEMMA RefersKept ==
  ASSUME NEW h, NEW g, Grows(h, g), NEW x, Refers(h, x)
  PROVE  Refers(g, x)
<1>1. x.kind = "scope" => Is(g, x.env, Environments) /\ (x.prev # Null => Is(g, x.prev, {"scope"}))
                         /\ \A v \in ToSet(x.vals) \ {Null} : Is(g, v, {"function"})
  BY IsKept DEF Refers
<1>2. x.kind = "function" => Is(g, x.scope, {"scope"})
  BY IsKept DEF Refers
<1>3. x.kind = "activation" => Is(g, x.args, {"arguments"})
  BY IsKept DEF Refers
<1>4. x.kind \in Environments \cup {"arguments"} =>
        \A y \in DOMAIN x.props : x.props[y].v \in Values \/ Is(g, x.props[y].v, {"function"})
  BY IsKept DEF Refers
<1>5. QED BY <1>1, <1>2, <1>3, <1>4 DEF Refers

\* A cache of functions is as good in a later heap
LEMMA CacheOn ==
  ASSUME NEW h, NEW g, Grows(h, g), NEW s, NEW m, NEW x, x.vals \in Seq(Nat),
         \A v \in ToSet(x.vals) \ {Null} : Is(h, v, {"function"}), CacheOK(h, s, x, m)
  PROVE  CacheOK(g, s, x, m)
<1>1. Len(x.funcs) = Len(x.vals) /\ IsInjective(x.funcs)
  BY DEF CacheOK
<1>2. ASSUME NEW k \in DOMAIN x.vals, x.vals[k] # Null
      PROVE  g[x.vals[k]].scope = s /\ Stands(m, x.funcs[k], g[x.vals[k]].code)
  <2>1. h[x.vals[k]].scope = s /\ Stands(m, x.funcs[k], h[x.vals[k]].code)
    BY <1>2 DEF CacheOK
  <2>2. x.vals[k] \in ToSet(x.vals) \ {Null}
    BY <1>2 DEF ToSet
  <2>3. Is(h, x.vals[k], {"function"})
    BY <2>2
  <2>4. Keeps(h[x.vals[k]], g[x.vals[k]]) /\ h[x.vals[k]].kind = "function"
    BY <2>3 DEF Is, Grows
  <2>5. QED BY <2>1, <2>4 DEF Keeps
<1>3. QED BY <1>1, <1>2 DEF CacheOK

LEMMA CacheKept ==
  ASSUME NEW h \in Heaps, NEW g, Grows(h, g), NEW s, NEW m, NEW x \in Things, x.kind = "scope",
         Refers(h, x), CacheOK(h, s, x, m)
  PROVE  CacheOK(g, s, x, m)
<1>1. x.vals \in Seq(Nat) /\ \A v \in ToSet(x.vals) \ {Null} : Is(h, v, {"function"})
  BY ThingFacts DEF Refers
<1>2. QED BY <1>1, CacheOn

-----------------------------------------------------------------------------
(* Heaps.                                                                  *)

LEMMA ScopeFacts ==
  ASSUME NEW h, NEW m, HeapOK(h, m), NEW s \in ScopesOf(h)
  PROVE  /\ s \in DOMAIN h /\ s # Null /\ h[s].kind = "scope" /\ h[s] \in Things
         /\ Is(h, h[s].env, Environments) /\ (h[s].prev # Null => h[s].prev \in ScopesOf(h))
         /\ h[s].prev = Null => h[s].env = Global
         /\ CacheOK(h, s, h[s], m) /\ h[s].funcs \in Seq(Addresses) /\ h[s].vals \in Seq(Nat)
<1>1. s \in DOMAIN h /\ h[s].kind = "scope"
  BY DEF ScopesOf
<1>2. s # Null /\ h[s] \in Things
  BY <1>1, HeapTypes DEF HeapOK
<1>3. Refers(h, h[s]) /\ CacheOK(h, s, h[s], m) /\ (h[s].prev = Null => h[s].env = Global)
  BY <1>1 DEF HeapOK
<1>4. Is(h, h[s].env, Environments) /\ (h[s].prev # Null => h[s].prev \in ScopesOf(h))
  BY <1>1, <1>3 DEF Refers, Is, ScopesOf
<1>5. h[s].funcs \in Seq(Addresses) /\ h[s].vals \in Seq(Nat)
  BY <1>1, <1>2, ThingFacts
<1>6. QED BY <1>1, <1>2, <1>3, <1>4, <1>5

(* An object is replaced by one that keeps what it must.                   *)
LEMMA Replace ==
  ASSUME NEW h, NEW m, HeapOK(h, m), NEW i \in DOMAIN h, NEW x \in Things, Keeps(h[i], x),
         Refers(h, x), x.kind = "scope" => CacheOK(h, i, x, m), NEW g, g = [h EXCEPT ![i] = x]
  PROVE  HeapOK(g, m) /\ Grows(h, g) /\ DOMAIN g = DOMAIN h
<1>1. h \in Heaps /\ IsFiniteSet(DOMAIN h) /\ \A j \in DOMAIN h : Refers(h, h[j])
  BY DEF HeapOK
<1>2. DOMAIN h \subseteq Nat \ {Null} /\ h = [j \in DOMAIN h |-> h[j]] /\ \A j \in DOMAIN h : h[j] \in Things
  BY <1>1, HeapTypes
<1>3. DOMAIN g = DOMAIN h /\ g[i] = x /\ (\A j \in DOMAIN h : j # i => g[j] = h[j])
      /\ g = [j \in DOMAIN g |-> g[j]]
  BY <1>2
<1>4. Grows(h, g)
  BY <1>3, KeepsItself DEF Grows
<1>5. g \in Heaps
  BY <1>2, <1>3, HeapType
<1>6. ASSUME NEW j \in DOMAIN g PROVE Refers(g, g[j])
  <2>1. Refers(h, g[j])
    BY <1>1, <1>3
  <2>2. QED BY <1>4, <2>1, RefersKept
<1>7. ScopesOf(g) = ScopesOf(h) /\ \A s \in ScopesOf(h) : g[s].prev = h[s].prev /\ g[s].env = h[s].env
  BY <1>3, <1>4 DEF ScopesOf, Grows, Keeps
<1>8. ASSUME NEW s \in ScopesOf(g)
      PROVE  CacheOK(g, s, g[s], m) /\ (g[s].prev = Null => g[s].env = Global)
  <2>1. s \in DOMAIN h /\ g[s].kind = "scope" /\ g[s] \in Things /\ Refers(h, g[s])
    BY <1>1, <1>2, <1>3 DEF ScopesOf
  <2>2. CacheOK(h, s, g[s], m)
    BY <1>3, <1>7, <2>1, ScopeFacts
  <2>3. CacheOK(g, s, g[s], m)
    BY <1>1, <1>4, <2>1, <2>2, CacheKept
  <2>4. QED BY <1>7, <2>3, ScopeFacts
<1>9. Ranked(g)
  <2>1. Ranked(h)
    BY DEF HeapOK
  <2>2. QED BY <1>3, <1>7, <2>1 DEF Ranked
<1>10. Is(g, Global, {"global"}) /\ \A o \in DOMAIN Plain : Is(g, o, {"plain"})
  BY <1>4, IsKept DEF HeapOK
<1>11. QED BY <1>1, <1>3, <1>4, <1>5, <1>6, <1>8, <1>9, <1>10 DEF HeapOK

\* Heap g has x besides what is in h, as n
OneMore(h, x, g, n) ==
    /\ n \in Nat \ {Null} /\ n \notin DOMAIN h
    /\ g = [i \in DOMAIN h \cup {n} |-> g[i]] /\ DOMAIN g = DOMAIN h \cup {n}
    /\ g[n] = x /\ \A i \in DOMAIN h : g[i] = h[i]

LEMMA NewFacts ==
  ASSUME NEW h, DOMAIN h \subseteq Nat, IsFiniteSet(DOMAIN h), NEW x
  PROVE  OneMore(h, x, New(h, x).h, New(h, x).id)
<1> DEFINE c == Cardinality(DOMAIN h)
           n == CHOOSE i \in 1 .. c + 1 : i \notin DOMAIN h
<1>1. c \in Nat
  BY FS_CardinalityType
<1>2. \E i \in 1 .. c + 1 : i \notin DOMAIN h
  <2>1. SUFFICES ASSUME 1 .. c + 1 \subseteq DOMAIN h PROVE FALSE
    OBVIOUS
  <2>2. Cardinality(1 .. c + 1) <= c
    BY <2>1, FS_Subset
  <2>3. 1 \in Int /\ c + 1 \in Int
    BY <1>1
  <2> DEFINE b == c + 1
  <2>4. b \in Int /\ 1 \in Int /\ b >= 1 /\ c \in Nat /\ b = c + 1
    BY <1>1
  <2>5. Cardinality(1 .. b) <= c
    BY <2>2
  <2> HIDE DEF b, c
  <2>6. Cardinality(1 .. b) = IF 1 > b THEN 0 ELSE b - 1 + 1
    BY <2>4, FS_Interval
  <2>7. QED BY <2>4, <2>5, <2>6
<1>3. n \in 1 .. c + 1 /\ n \notin DOMAIN h
  BY <1>2
<1>4. New(h, x).id = n /\ New(h, x).h = [i \in DOMAIN h \cup {n} |-> IF i = n THEN x ELSE h[i]]
  BY DEF New
<1> HIDE DEF n
<1>5. n \in Nat \ {Null}
  BY <1>1, <1>3 DEF Null
<1>6. QED BY <1>3, <1>4, <1>5 DEF OneMore

(* An object is made.  A scope has no functions then, and if it is the     *)
(* first of a chain it is one over the global object.                      *)
LEMMA Add ==
  ASSUME NEW h, NEW m, HeapOK(h, m), NEW x \in Things, Refers(h, x),
         x.kind = "scope" => x.funcs = <<>> /\ x.vals = <<>> /\ (x.prev = Null => x.env = Global)
  PROVE  /\ HeapOK(New(h, x).h, m) /\ Grows(h, New(h, x).h)
         /\ New(h, x).id \notin DOMAIN h /\ New(h, x).id \in DOMAIN New(h, x).h
         /\ New(h, x).h[New(h, x).id] = x /\ \A i \in DOMAIN h : New(h, x).h[i] = h[i]
<1> DEFINE g == New(h, x).h
           n == New(h, x).id
<1>1. h \in Heaps /\ IsFiniteSet(DOMAIN h) /\ \A j \in DOMAIN h : Refers(h, h[j])
  BY DEF HeapOK
<1>2. DOMAIN h \subseteq Nat \ {Null} /\ h = [j \in DOMAIN h |-> h[j]] /\ \A j \in DOMAIN h : h[j] \in Things
  BY <1>1, HeapTypes
<1>3. /\ n \in Nat \ {Null} /\ n \notin DOMAIN h
      /\ g = [i \in DOMAIN h \cup {n} |-> g[i]] /\ DOMAIN g = DOMAIN h \cup {n}
      /\ g[n] = x /\ \A i \in DOMAIN h : g[i] = h[i]
  <2>1. DOMAIN h \subseteq Nat
    BY <1>2
  <2>2. OneMore(h, x, g, n)
    BY <1>1, <2>1, NewFacts
  <2> HIDE DEF g, n
  <2>3. QED BY <2>2 DEF OneMore
<1> HIDE DEF g, n
<1>4. Grows(h, g)
  BY <1>3, KeepsItself DEF Grows
<1>5. g \in Heaps
  <2>1. g = [i \in DOMAIN g |-> g[i]] /\ DOMAIN g \subseteq Nat \ {Null} /\ \A i \in DOMAIN g : g[i] \in Things
    BY <1>2, <1>3
  <2>2. QED BY <2>1, HeapType
<1>6. ASSUME NEW j \in DOMAIN g PROVE Refers(g, g[j])
  <2>1. Refers(h, g[j])
    BY <1>1, <1>3
  <2>2. QED BY <1>4, <2>1, RefersKept
<1>7. IsFiniteSet(DOMAIN g)
  BY <1>1, <1>3, FS_AddElement
<1>8. ASSUME NEW s \in ScopesOf(g)
      PROVE  CacheOK(g, s, g[s], m) /\ (g[s].prev = Null => g[s].env = Global)
  <2>1. CASE s = n
    <3>1. g[s].funcs = <<>> /\ g[s].vals = <<>> /\ (g[s].prev = Null => g[s].env = Global)
      BY <1>3, <2>1 DEF ScopesOf
    <3>2. QED BY <3>1 DEF CacheOK, IsInjective
  <2>2. CASE s # n
    <3>1. s \in ScopesOf(h) /\ g[s] = h[s]
      BY <1>3, <2>2 DEF ScopesOf
    <3>2. CacheOK(h, s, h[s], m) /\ h[s] \in Things /\ h[s].kind = "scope" /\ Refers(h, h[s])
          /\ (h[s].prev = Null => h[s].env = Global)
      BY <1>1, <3>1, ScopeFacts
    <3>3. CacheOK(g, s, h[s], m)
      BY <1>1, <1>4, <3>2, CacheKept
    <3>4. QED BY <3>1, <3>2, <3>3
  <2>3. QED BY <2>1, <2>2
<1>9. Ranked(g)
  <2>0. PICK k \in Nat : \E rank \in [DOMAIN h -> 0 .. k] :
          \A s \in ScopesOf(h) : h[s].prev # Null => rank[h[s].prev] < rank[s]
    BY DEF HeapOK, Ranked
  <2>1. PICK rank \in [DOMAIN h -> 0 .. k] :
          \A s \in ScopesOf(h) : h[s].prev # Null => rank[h[s].prev] < rank[s]
    BY <2>0
  <2> DEFINE r == [i \in DOMAIN g |-> IF i = n THEN k + 1 ELSE rank[i]]
  <2>2. k + 1 \in Nat /\ 0 .. k \subseteq 0 .. k + 1 /\ k + 1 \in 0 .. k + 1
        /\ \A j \in 0 .. k : j < k + 1
    OBVIOUS
  <2>3. r \in [DOMAIN g -> 0 .. k + 1]
    BY <1>3, <2>2
  <2>4. ASSUME NEW s \in ScopesOf(g), g[s].prev # Null PROVE r[g[s].prev] < r[s]
    <3>1. CASE s = n
      <4>1. Is(h, g[s].prev, {"scope"})
        BY <1>3, <2>4, <3>1 DEF Refers, ScopesOf
      <4>2. g[s].prev \in DOMAIN h
        BY <4>1 DEF Is
      <4>3. r[g[s].prev] = rank[g[s].prev] /\ rank[g[s].prev] \in 0 .. k
        BY <1>3, <4>2
      <4>4. r[s] = k + 1
        BY <1>3, <3>1
      <4>5. QED BY <2>2, <4>3, <4>4
    <3>2. CASE s # n
      <4>1. s \in ScopesOf(h) /\ g[s] = h[s] /\ s \in DOMAIN h
        BY <1>3, <3>2 DEF ScopesOf
      <4>2. g[s].prev \in DOMAIN h
        BY <2>4, <4>1, ScopeFacts DEF ScopesOf
      <4>3. r[g[s].prev] = rank[g[s].prev] /\ r[s] = rank[s]
        BY <1>3, <4>1, <4>2
      <4>4. QED BY <2>1, <2>4, <4>1, <4>3
    <3>3. QED BY <3>1, <3>2
  <2> HIDE DEF r
  <2>5. QED BY <2>2, <2>3, <2>4 DEF Ranked
<1>10. Is(g, Global, {"global"}) /\ \A o \in DOMAIN Plain : Is(g, o, {"plain"})
  BY <1>4, IsKept DEF HeapOK
<1>11. HeapOK(g, m)
  BY <1>5, <1>6, <1>7, <1>8, <1>9, <1>10 DEF HeapOK
<1>12. QED BY <1>3, <1>4, <1>11 DEF g, n
-----------------------------------------------------------------------------
(* The walk from a scope outwards: chains end, so it does.                 *)

Ranks(h, n, rank) ==
  /\ n \in Nat /\ rank \in [DOMAIN h -> 0 .. n]
  /\ \A s \in ScopesOf(h) : h[s].prev # Null => rank[h[s].prev] < rank[s]

IsFirst(f, h, ts) ==
  f = [i \in ScopesOf(h) \cup {Null} |-> IF i = Null \/ i \in ts THEN i ELSE f[h[i].prev]]

\* The walk, cut off where the rank is k or more
IsFirstBelow(f, h, ts, rank, k) ==
  f = [i \in ScopesOf(h) \cup {Null} |->
        IF i = Null \/ i \in ts \/ rank[i] >= k THEN i ELSE f[h[i].prev]]

LEMMA FirstExists ==
  ASSUME NEW h, NEW m, HeapOK(h, m), NEW ts
  PROVE  \E f : IsFirst(f, h, ts)
<1>0. PICK n : \E rank : Ranks(h, n, rank)
  BY DEF HeapOK, Ranked, Ranks
<1>1. PICK rank : Ranks(h, n, rank)
  BY <1>0
<1>2. n \in Nat /\ n + 1 \in Nat /\ (n + 1) - 1 = n
  BY <1>1 DEF Ranks
<1>3. \A i \in ScopesOf(h) : rank[i] \in 0 .. n
  BY <1>1 DEF Ranks, ScopesOf
<1>4. \A i \in ScopesOf(h) : h[i].prev # Null =>
        h[i].prev \in ScopesOf(h) /\ rank[h[i].prev] < rank[i]
  BY <1>1, ScopeFacts DEF Ranks
<1>5. Null \notin ScopesOf(h)
  BY ScopeFacts
<1> DEFINE N == n + 1
           T == {k \in 0 .. N : \E f : IsFirstBelow(f, h, ts, rank, k)}
<1>6. 0 \in T
  <2> DEFINE f == [i \in ScopesOf(h) \cup {Null} |-> i]
  <2>1. \A i \in ScopesOf(h) : rank[i] >= 0
    BY <1>3
  <2>2. f = [i \in ScopesOf(h) \cup {Null} |->
              IF i = Null \/ i \in ts \/ rank[i] >= 0 THEN i ELSE f[h[i].prev]]
    BY <2>1
  <2> HIDE DEF f
  <2>3. IsFirstBelow(f, h, ts, rank, 0)
    BY <2>2 DEF IsFirstBelow
  <2>4. 0 \in 0 .. N
    BY <1>2
  <2>5. QED BY <2>3, <2>4
<1>7. ASSUME NEW k \in 0 .. N - 1, k \in T
      PROVE  k + 1 \in T
  <2>1. PICK f : IsFirstBelow(f, h, ts, rank, k)
    BY <1>7
  <2>2. k \in Nat /\ k + 1 \in 0 .. N
    BY <1>2
  <2> DEFINE S == ScopesOf(h) \cup {Null}
             g == [i \in S |-> IF i = Null \/ i \in ts \/ rank[i] >= k + 1 THEN i ELSE f[h[i].prev]]
  <2>3. \A i \in S : f[i] = IF i = Null \/ i \in ts \/ rank[i] >= k THEN i ELSE f[h[i].prev]
    BY <2>1 DEF IsFirstBelow
  <2>4. ASSUME NEW i \in S
        PROVE  g[i] = IF i = Null \/ i \in ts \/ rank[i] >= k + 1 THEN i ELSE g[h[i].prev]
    <3>1. CASE i = Null \/ i \in ts \/ rank[i] >= k + 1
      BY <3>1
    <3>2. CASE ~ (i = Null \/ i \in ts \/ rank[i] >= k + 1)
      <4> DEFINE p == h[i].prev
      <4>1. i \in ScopesOf(h) /\ g[i] = f[p]
        BY <3>2
      <4>2. CASE p = Null
        <5>1. f[Null] = Null /\ g[Null] = Null
          BY <2>3
        <5>2. QED BY <3>2, <4>1, <4>2, <5>1
      <4>3. CASE p # Null
        <5>1. p \in ScopesOf(h) /\ rank[p] < rank[i] /\ rank[p] \in 0 .. n /\ rank[i] \in 0 .. n
          BY <1>3, <1>4, <4>1, <4>3
        <5>2. ~ (rank[p] >= k) /\ ~ (rank[p] >= k + 1)
          BY <2>2, <3>2, <5>1
        <5>3. g[p] = f[p]
          BY <2>3, <4>3, <5>1, <5>2
        <5>4. QED BY <3>2, <4>1, <5>3
      <4>4. QED BY <4>2, <4>3
    <3>3. QED BY <3>1, <3>2
  <2>5. g = [i \in S |-> g[i]]
    OBVIOUS
  <2> HIDE DEF g
  <2>6. IsFirstBelow(g, h, ts, rank, k + 1)
    BY <2>4, <2>5 DEF IsFirstBelow
  <2>7. QED BY <2>2, <2>6
<1>8. \A k \in 0 .. N - 1 : k \in T => k + 1 \in T
  BY <1>7
<1>9. N \in Nat
  BY <1>2
<1> HIDE DEF T, N
<1>10. \A k \in 0 .. N : k \in T
  BY <1>6, <1>8, <1>9, TraverseFold!UpTo
<1>11. N \in T
  BY <1>9, <1>10
<1>12. PICK f : IsFirstBelow(f, h, ts, rank, N)
  BY <1>11 DEF T
<1>13. \A i \in ScopesOf(h) : ~ (rank[i] >= N)
  BY <1>2, <1>3 DEF N
<1>14. IsFirst(f, h, ts)
  BY <1>12, <1>13 DEF IsFirst, IsFirstBelow
<1>15. QED BY <1>14

\* What a walk ends at
LEMMA FirstFacts ==
  ASSUME NEW h, NEW m, HeapOK(h, m), NEW s \in ScopesOf(h) \cup {Null}, NEW ts
  PROVE  /\ FirstScope(h, s, ts) \in (ts \cap ScopesOf(h)) \cup {Null}
         /\ s # Null /\ (\A i \in ScopesOf(h) : h[i].prev = Null => i \in ts) =>
              FirstScope(h, s, ts) \in ts \cap ScopesOf(h)
<1> DEFINE f == CHOOSE f : IsFirst(f, h, ts)
           ends == \A i \in ScopesOf(h) : h[i].prev = Null => i \in ts
           us == ts \cap ScopesOf(h)
<1>1. FirstScope(h, s, ts) = f[s]
  BY DEF FirstScope, IsFirst
<1>2. IsFirst(f, h, ts)
  BY FirstExists
<1> HIDE DEF f
<1>3. f[Null] = Null
  BY <1>2 DEF IsFirst
<1>4. \A i \in ScopesOf(h) : f[i] = IF i \in ts THEN i ELSE f[h[i].prev]
  <2>1. \A i \in ScopesOf(h) : i # Null
    BY ScopeFacts
  <2>2. QED BY <1>2, <2>1 DEF IsFirst
<1>5. PICK n : \E rank : Ranks(h, n, rank)
  BY DEF HeapOK, Ranked, Ranks
<1>6. PICK rank : Ranks(h, n, rank)
  BY <1>5
<1>7. n \in Nat /\ n + 1 \in Nat
  BY <1>6 DEF Ranks
<1>8. \A i \in ScopesOf(h) : rank[i] \in 0 .. n
  BY <1>6 DEF Ranks, ScopesOf
<1>9. \A i \in ScopesOf(h) : h[i].prev # Null =>
        h[i].prev \in ScopesOf(h) /\ rank[h[i].prev] < rank[i]
  BY <1>6, ScopeFacts DEF Ranks
<1> DEFINE N == n + 1
           Good(i) == f[i] \in us \cup {Null} /\ (ends => f[i] \in us)
           T == {k \in 0 .. N : \A i \in ScopesOf(h) : rank[i] < k => Good(i)}
<1>10. N \in Nat
  BY <1>7
<1>11. 0 \in T
  BY <1>8, <1>10
<1>12. ASSUME NEW k \in 0 .. N - 1, k \in T
       PROVE  k + 1 \in T
  <2>1. k \in Nat /\ k + 1 \in 0 .. N
    BY <1>10
  <2>2. ASSUME NEW i \in ScopesOf(h), rank[i] < k + 1 PROVE Good(i)
    <3>1. CASE i \in ts
      BY <1>4, <3>1
    <3>2. CASE i \notin ts
      <4> DEFINE p == h[i].prev
      <4>1. f[i] = f[p]
        BY <1>4, <3>2
      <4>2. CASE p = Null
        BY <1>3, <3>2, <4>1, <4>2
      <4>3. CASE p # Null
        <5>1. p \in ScopesOf(h) /\ rank[p] < rank[i] /\ rank[p] \in 0 .. n /\ rank[i] \in 0 .. n
          BY <1>8, <1>9, <4>3
        <5>2. rank[p] < k
          BY <2>1, <2>2, <5>1
        <5>3. Good(p)
          BY <1>12, <5>1, <5>2
        <5>4. QED BY <4>1, <5>3
      <4>4. QED BY <4>2, <4>3
    <3>3. QED BY <3>1, <3>2
  <2> HIDE DEF Good
  <2>3. QED BY <2>1, <2>2
<1>13. \A k \in 0 .. N - 1 : k \in T => k + 1 \in T
  BY <1>12
<1> HIDE DEF T
<1>14. \A k \in 0 .. N : k \in T
  BY <1>10, <1>11, <1>13, TraverseFold!UpTo
<1>15. N \in T /\ \A i \in ScopesOf(h) : rank[i] < N
  BY <1>7, <1>8, <1>10, <1>14
<1>16. \A i \in ScopesOf(h) : Good(i)
  BY <1>15 DEF T
<1>17. QED BY <1>1, <1>3, <1>16
LEMMA ScopeKept ==
  ASSUME NEW h, NEW g, Grows(h, g), NEW s \in ScopesOf(h)
  PROVE  s \in ScopesOf(g) /\ g[s].env = h[s].env /\ g[s].prev = h[s].prev
BY DEF Grows, Keeps, ScopesOf

\* One step of a walk
LEMMA FirstStep ==
  ASSUME NEW h, NEW m, HeapOK(h, m), NEW ts
  PROVE  /\ FirstScope(h, Null, ts) = Null
         /\ \A i \in ScopesOf(h) :
                FirstScope(h, i, ts) = IF i \in ts THEN i ELSE FirstScope(h, h[i].prev, ts)
<1> DEFINE f == CHOOSE f : IsFirst(f, h, ts)
<1>1. \A i : FirstScope(h, i, ts) = f[i]
  BY DEF FirstScope, IsFirst
<1>2. IsFirst(f, h, ts)
  BY FirstExists
<1> HIDE DEF f
<1>3. f[Null] = Null
  BY <1>2 DEF IsFirst
<1>4. \A i \in ScopesOf(h) : i # Null
  BY ScopeFacts
<1>5. \A i \in ScopesOf(h) : f[i] = IF i \in ts THEN i ELSE f[h[i].prev]
  BY <1>2, <1>4 DEF IsFirst
<1>6. QED BY <1>1, <1>3, <1>5

\* A walk that stops at fewer scopes, but not before the same one
LEMMA FirstSame ==
  ASSUME NEW h, NEW m, HeapOK(h, m), NEW g, NEW n, HeapOK(g, n), Grows(h, g),
         NEW ts, NEW us, us \cap ScopesOf(h) \subseteq ts, Null \notin us,
         NEW s \in ScopesOf(h), FirstScope(h, s, ts) \in us
  PROVE  FirstScope(g, s, us) = FirstScope(h, s, ts)
<1> DEFINE a(i) == FirstScope(h, i, ts)
           b(i) == FirstScope(g, i, us)
<1>1. a(Null) = Null /\ b(Null) = Null
  BY FirstStep
<1>2. \A i \in ScopesOf(h) : a(i) = IF i \in ts THEN i ELSE a(h[i].prev)
  BY FirstStep
<1>3. \A i \in ScopesOf(h) : b(i) = IF i \in us THEN i ELSE b(h[i].prev)
  <2>1. \A i \in ScopesOf(g) : b(i) = IF i \in us THEN i ELSE b(g[i].prev)
    BY FirstStep
  <2> HIDE DEF b
  <2>2. QED BY <2>1, ScopeKept
<1>4. PICK k : \E rank : Ranks(h, k, rank)
  BY DEF HeapOK, Ranked, Ranks
<1>5. PICK rank : Ranks(h, k, rank)
  BY <1>4
<1>6. k \in Nat /\ k + 1 \in Nat
  BY <1>5 DEF Ranks
<1>7. \A i \in ScopesOf(h) : rank[i] \in 0 .. k
  BY <1>5 DEF Ranks, ScopesOf
<1>8. \A i \in ScopesOf(h) : h[i].prev # Null =>
        h[i].prev \in ScopesOf(h) /\ rank[h[i].prev] < rank[i]
  BY <1>5, ScopeFacts DEF Ranks
<1> HIDE DEF a, b
<1> DEFINE N == k + 1
           Same(i) == a(i) \in us => b(i) = a(i)
           T == {l \in 0 .. N : \A i \in ScopesOf(h) : rank[i] < l => Same(i)}
<1>9. N \in Nat
  BY <1>6
<1>10. 0 \in T
  BY <1>7, <1>9
<1>11. ASSUME NEW l \in 0 .. N - 1, l \in T
       PROVE  l + 1 \in T
  <2>1. l \in Nat /\ l + 1 \in 0 .. N
    BY <1>9
  <2>2. ASSUME NEW i \in ScopesOf(h), rank[i] < l + 1 PROVE Same(i)
    <3>1. CASE i \in ts
      BY <1>2, <1>3, <3>1
    <3>2. CASE i \notin ts
      <4> DEFINE p == h[i].prev
      <4>1. a(i) = a(p) /\ b(i) = b(p)
        BY <1>2, <1>3, <3>2
      <4>2. CASE p = Null
        BY <1>1, <4>1, <4>2
      <4>3. CASE p # Null
        <5>1. p \in ScopesOf(h) /\ rank[p] < rank[i] /\ rank[p] \in 0 .. k /\ rank[i] \in 0 .. k
          BY <1>7, <1>8, <4>3
        <5>2. rank[p] < l
          BY <2>1, <2>2, <5>1
        <5>3. Same(p)
          BY <1>11, <5>1, <5>2
        <5>4. QED BY <4>1, <5>3
      <4>4. QED BY <4>2, <4>3
    <3>3. QED BY <3>1, <3>2
  <2> HIDE DEF Same
  <2>3. QED BY <2>1, <2>2
<1>12. \A l \in 0 .. N - 1 : l \in T => l + 1 \in T
  BY <1>11
<1> HIDE DEF T
<1>13. \A l \in 0 .. N : l \in T
  BY <1>9, <1>10, <1>12, TraverseFold!UpTo
<1>14. N \in T /\ \A i \in ScopesOf(h) : rank[i] < N
  BY <1>6, <1>7, <1>9, <1>13
<1>15. \A i \in ScopesOf(h) : Same(i)
  BY <1>14 DEF T
<1>16. a(s) \in us
  BY DEF a
<1>17. QED BY <1>15, <1>16 DEF a, b
-----------------------------------------------------------------------------
(* Properties are set and deleted.                                         *)

Attributes == [v : Values \cup Nat, del : BOOLEAN, ro : BOOLEAN]
Means(h, v) == v \in Values \/ Is(h, v, {"function"})

LEMMA MeansType ==
  ASSUME NEW h \in Heaps, NEW v, Means(h, v)
  PROVE  v \in Values \cup Nat
BY HeapTypes DEF Means, Is

LEMMA MeansKept ==
  ASSUME NEW h, NEW g, Grows(h, g), NEW v, Means(h, v)
  PROVE  Means(g, v)
BY IsKept DEF Means

LEMMA HolderFacts ==
  ASSUME NEW h, NEW m, HeapOK(h, m), NEW o \in DOMAIN h, h[o].kind \in Holders
  PROVE  /\ h[o] \in Things /\ h[o].props \in PropertyMaps
         /\ h[o].props = [y \in DOMAIN h[o].props |-> h[o].props[y]]
         /\ DOMAIN h[o].props \subseteq Names \cup Nat
         /\ \A y \in DOMAIN h[o].props : h[o].props[y] \in Attributes /\ Means(h, h[o].props[y].v)
<1>1. h[o] \in Things /\ h[o].props \in PropertyMaps
  BY HeapTypes, ThingFacts DEF HeapOK
<1>2. /\ h[o].props = [y \in DOMAIN h[o].props |-> h[o].props[y]]
      /\ DOMAIN h[o].props \subseteq Names \cup Nat
      /\ \A y \in DOMAIN h[o].props : h[o].props[y] \in Attributes
  BY <1>1 DEF PropertyMaps, Attributes
<1>3. \A y \in DOMAIN h[o].props : Means(h, h[o].props[y].v)
  BY DEF HeapOK, Refers, Holders, Means
<1>4. QED BY <1>1, <1>2, <1>3

LEMMA MapType ==
  ASSUME NEW p, p = [y \in DOMAIN p |-> p[y]], DOMAIN p \subseteq Names \cup Nat,
         \A y \in DOMAIN p : p[y] \in Attributes
  PROVE  p \in PropertyMaps
<1>1. DOMAIN p \in SUBSET (Names \cup Nat) /\ p \in [DOMAIN p -> Attributes]
  OBVIOUS
<1>2. QED BY <1>1 DEF PropertyMaps, Attributes

\* The properties of an object become others, which is nothing to its references
LEMMA PropsReplaced ==
  ASSUME NEW h, NEW m, HeapOK(h, m), NEW o \in DOMAIN h, h[o].kind \in Holders,
         NEW p \in PropertyMaps, \A y \in DOMAIN p : Means(h, p[y].v),
         h[o].kind = "plain" => DOMAIN p \subseteq DOMAIN h[o].props,
         h[o].kind = "activation" => Lasting(h[o].props) \subseteq Lasting(p),
         NEW g, g = [h EXCEPT ![o].props = p]
  PROVE  HeapOK(g, m) /\ Grows(h, g)
<1> DEFINE x == [h[o] EXCEPT !.props = p]
<1>1. h[o] \in Things /\ Refers(h, h[o])
  BY HeapTypes DEF HeapOK
<1>2. x \in Things /\ x.kind = h[o].kind /\ x.props = p
      /\ (x.kind = "activation" => x.args = h[o].args /\ x.params = h[o].params)
  <2>1. CASE h[o].kind = "activation"
    <3>1. /\ h[o] \in [kind : {"activation"}, params : Seq(Names), args : Nat, props : PropertyMaps]
          /\ ToSet(h[o].params) \subseteq Lasting(h[o].props)
      BY <1>1, <2>1 DEF Things, Activations
    <3>2. x \in [kind : {"activation"}, params : Seq(Names), args : Nat, props : PropertyMaps]
          /\ x.kind = h[o].kind /\ x.props = p /\ x.args = h[o].args /\ x.params = h[o].params
      BY <3>1
    <3> HIDE DEF x
    <3>3. ToSet(x.params) \subseteq Lasting(x.props)
      BY <2>1, <3>1, <3>2
    <3>4. QED BY <3>2, <3>3 DEF Things, Activations
  <2>2. CASE h[o].kind # "activation"
    <3>1. h[o] \in [kind : {"global", "plain", "arguments"}, props : PropertyMaps]
      BY <1>1, <2>2 DEF Things, Activations, Holders, Environments
    <3>2. x \in [kind : {"global", "plain", "arguments"}, props : PropertyMaps]
          /\ x.kind = h[o].kind /\ x.props = p
      BY <3>1
    <3> HIDE DEF x
    <3>3. QED BY <2>2, <3>2 DEF Things
  <2>3. QED BY <2>1, <2>2
<1>3. g = [h EXCEPT ![o] = x]
  OBVIOUS
<1> HIDE DEF x
<1>4. Keeps(h[o], x)
  BY <1>2 DEF Keeps, Holders, Environments
<1>5. Refers(h, x)
  BY <1>1, <1>2 DEF Refers, Means, Holders, Environments
<1>6. x.kind # "scope"
  BY <1>2 DEF Holders, Environments
<1>7. HeapOK(h, m) /\ o \in DOMAIN h
  OBVIOUS
<1>8. HeapOK(g, m) /\ Grows(h, g)
  BY ONLY <1>2, <1>3, <1>4, <1>5, <1>6, <1>7, Replace
<1>9. QED BY <1>8

LEMMA SetPropertyOK ==
  ASSUME NEW h, NEW m, HeapOK(h, m), NEW o \in DOMAIN h, h[o].kind \in Holders,
         NEW x \in Names \cup Nat, NEW p \in Attributes, Means(h, p.v),
         h[o].kind = "plain" => Own(h, o, x), x \in Lasting(h[o].props) => ~p.del
  PROVE  HeapOK(SetProperty(h, o, x, p), m) /\ Grows(h, SetProperty(h, o, x, p))
<1> DEFINE q == [y \in DOMAIN h[o].props \cup {x} |-> IF y = x THEN p ELSE h[o].props[y]]
<1>1. /\ DOMAIN q = DOMAIN h[o].props \cup {x} /\ q = [y \in DOMAIN q |-> q[y]]
      /\ \A y \in DOMAIN q : q[y] \in Attributes /\ Means(h, q[y].v)
      /\ DOMAIN q \subseteq Names \cup Nat
  BY HolderFacts
<1>a. Lasting(h[o].props) \subseteq Lasting(q)
  BY DEF Lasting
<1>2. SetProperty(h, o, x, p) = [h EXCEPT ![o].props = q]
  BY DEF SetProperty
<1> HIDE DEF q
<1>3. q \in PropertyMaps
  BY <1>1, MapType
<1>4. h[o].kind = "plain" => DOMAIN q \subseteq DOMAIN h[o].props
  BY <1>1 DEF Own
<1>5. \A y \in DOMAIN q : Means(h, q[y].v)
  BY <1>1
<1>6. QED BY <1>a, <1>2, <1>3, <1>4, <1>5, PropsReplaced

LEMMA RedefineOK ==
  ASSUME NEW h, NEW m, HeapOK(h, m), NEW o \in DOMAIN h, h[o].kind \in Holders,
         NEW x \in Names \cup Nat, NEW v, Means(h, v), h[o].kind = "plain" => Own(h, o, x)
  PROVE  HeapOK(Redefine(h, o, x, v), m) /\ Grows(h, Redefine(h, o, x, v))
<1> DEFINE p == [v |-> v, del |-> FALSE, ro |-> FALSE]
<1>1. v \in Values \cup Nat
  BY MeansType DEF HeapOK
<1>2. p \in Attributes /\ p.v = v /\ ~p.del
  BY <1>1 DEF Attributes
<1>3. Redefine(h, o, x, v) = SetProperty(h, o, x, p)
  BY DEF Redefine
<1> HIDE DEF p
<1>4. QED BY <1>2, <1>3, SetPropertyOK

LEMMA ObjectPutOK ==
  ASSUME NEW h, NEW m, HeapOK(h, m), NEW o \in DOMAIN h, h[o].kind \in Holders,
         NEW x \in Names \cup Nat, NEW v, Means(h, v), h[o].kind = "plain" => Own(h, o, x),
         NEW del \in BOOLEAN
  PROVE  HeapOK(ObjectPut(h, o, x, v, del), m) /\ Grows(h, ObjectPut(h, o, x, v, del))
<1> DEFINE g == ObjectPut(h, o, x, v, del)
<1>1. v \in Values \cup Nat
  BY MeansType DEF HeapOK
<1>2. CASE ~Own(h, o, x)
  <2> DEFINE p == [v |-> v, del |-> del, ro |-> FALSE]
  <2>1. p \in Attributes /\ p.v = v
    BY <1>1 DEF Attributes
  <2>2. g = SetProperty(h, o, x, p)
    BY <1>2 DEF ObjectPut
  <2>3. x \notin Lasting(h[o].props)
    BY <1>2 DEF Lasting, Own
  <2> HIDE DEF p
  <2>4. QED BY <2>1, <2>2, <2>3, SetPropertyOK
<1>3. CASE Own(h, o, x) /\ h[o].props[x].ro
  BY <1>3, GrowsNot DEF ObjectPut
<1>4. CASE Own(h, o, x) /\ ~h[o].props[x].ro
  <2> DEFINE q == [h[o].props EXCEPT ![x].v = v]
  <2>1. g = [h EXCEPT ![o].props[x].v = v]
    BY <1>4 DEF ObjectPut
  <2>2. g = [h EXCEPT ![o].props = q]
    BY <2>1
  <2>3. /\ h[o].props = [y \in DOMAIN h[o].props |-> h[o].props[y]]
        /\ DOMAIN h[o].props \subseteq Names \cup Nat
        /\ \A y \in DOMAIN h[o].props : h[o].props[y] \in Attributes /\ Means(h, h[o].props[y].v)
    BY HolderFacts
  <2>4. DOMAIN q = DOMAIN h[o].props /\ q = [y \in DOMAIN q |-> q[y]]
        /\ \A y \in DOMAIN q : q[y] = IF y = x THEN [h[o].props[x] EXCEPT !.v = v] ELSE h[o].props[y]
    BY <2>3
  <2>5. x \in DOMAIN h[o].props
    BY <1>4 DEF Own
  <2>6. [h[o].props[x] EXCEPT !.v = v] \in Attributes /\ [h[o].props[x] EXCEPT !.v = v].v = v
        /\ [h[o].props[x] EXCEPT !.v = v].del = h[o].props[x].del
    BY <1>1, <2>3, <2>5 DEF Attributes
  <2> HIDE DEF q
  <2>7. \A y \in DOMAIN q : q[y] \in Attributes /\ Means(h, q[y].v)
    BY <2>3, <2>4, <2>6
  <2>8. q \in PropertyMaps
    BY <2>3, <2>4, <2>7, MapType
  <2>9. \A y \in DOMAIN q : Means(h, q[y].v)
    BY <2>7
  <2>10. DOMAIN q = DOMAIN h[o].props
    BY <2>4
  <2>11. Lasting(h[o].props) \subseteq Lasting(q)
    BY <2>4, <2>6 DEF Lasting
  <2>12. QED BY <2>2, <2>8, <2>9, <2>10, <2>11, PropsReplaced
<1>5. QED BY <1>2, <1>3, <1>4

\* put, of an activation too
LEMMA PutOK ==
  ASSUME NEW h, NEW m, HeapOK(h, m), NEW o, Is(h, o, Environments),
         NEW x \in Names, NEW v, Means(h, v), h[o].kind = "plain" => Own(h, o, x)
  PROVE  HeapOK(Put(h, o, x, v), m) /\ Grows(h, Put(h, o, x, v))
<1>1. o \in DOMAIN h /\ h[o].kind \in Environments /\ h[o].kind \in Holders
  BY DEF Is, Holders
<1>2. CASE Alias(h, o, x) = 0
  BY <1>1, <1>2, ObjectPutOK DEF Put
<1>3. CASE Alias(h, o, x) # 0
  <2> DEFINE a == Alias(h, o, x)
             r == h[o].args
  <2>1. h[o].kind = "activation" /\ a = LastPlace(h[o].params, x)
    BY <1>3 DEF Alias
  <2>2. h[o].params \in Seq(Names) /\ Refers(h, h[o])
    BY <1>1, <2>1, HeapTypes, ThingFacts DEF HeapOK
  <2>3. Len(h[o].params) \in Nat
    BY <2>2, LenProperties
  <2>4. a \in 0 .. Len(h[o].params)
    BY <2>1, <2>3, LastPlaceFacts
  <2>5. a \in Names \cup Nat
    BY <2>3, <2>4
  <2>6. r \in DOMAIN h /\ h[r].kind = "arguments" /\ h[r].kind \in Holders
    BY <2>1, <2>2 DEF Refers, Is, Holders
  <2>7. Put(h, o, x, v) = ObjectPut(h, r, a, v, TRUE)
    BY <1>3 DEF Put
  <2> HIDE DEF a, r
  <2>8. QED BY <2>5, <2>6, <2>7, ObjectPutOK
<1>4. QED BY <1>2, <1>3

\* A parameter that is an alias is a property of its activation
LEMMA AliasOwn ==
  ASSUME NEW h, NEW m, HeapOK(h, m), NEW o, Is(h, o, Environments), NEW x, Alias(h, o, x) # 0
  PROVE  Own(h, o, x)
<1> DEFINE ps == h[o].params
<1>1. h[o].kind = "activation" /\ LastPlace(ps, x) # 0
  BY DEF Alias
<1>2. h[o] \in Things
  BY HeapTypes DEF HeapOK, Is
<1>3. ps \in Seq(Names) /\ ToSet(ps) \subseteq Lasting(h[o].props)
  BY <1>1, <1>2 DEF Things, Activations
<1>4. Len(ps) \in Nat /\ DOMAIN ps = 1 .. Len(ps)
  BY <1>3, LenProperties
<1> DEFINE k == LastPlace(ps, x)
<1>5. k \in 0 .. Len(ps) /\ k # 0 /\ ps[k] = x
  BY <1>1, <1>4, LastPlaceFacts
<1> HIDE DEF k
<1>6. x \in ToSet(ps)
  BY <1>4, <1>5 DEF ToSet
<1>7. QED BY <1>3, <1>6 DEF Lasting, Own

\* A property is deleted
LEMMA DeleteOK ==
  ASSUME NEW h, NEW m, HeapOK(h, m), NEW o \in DOMAIN h, h[o].kind \in Holders, NEW x,
         h[o].kind = "activation" => x \notin Lasting(h[o].props)
  PROVE  LET g == [h EXCEPT ![o].props = [y \in DOMAIN @ \ {x} |-> @[y]]]
         IN  HeapOK(g, m) /\ Grows(h, g)
<1> DEFINE q == [y \in DOMAIN h[o].props \ {x} |-> h[o].props[y]]
<1>1. /\ DOMAIN q \subseteq DOMAIN h[o].props /\ q = [y \in DOMAIN q |-> q[y]]
      /\ \A y \in DOMAIN q : q[y] \in Attributes /\ Means(h, q[y].v)
      /\ DOMAIN q \subseteq Names \cup Nat
  BY HolderFacts
<1>2. [h EXCEPT ![o].props = [y \in DOMAIN @ \ {x} |-> @[y]]] = [h EXCEPT ![o].props = q]
  OBVIOUS
<1>a. h[o].kind = "activation" => Lasting(h[o].props) \subseteq Lasting(q)
  BY DEF Lasting
<1> HIDE DEF q
<1>3. q \in PropertyMaps
  BY <1>1, MapType
<1>4. \A y \in DOMAIN q : Means(h, q[y].v)
  BY <1>1
<1>5. QED BY <1>a, <1>1, <1>2, <1>3, <1>4, PropsReplaced

\* What a name or a property means
LEMMA GetMeans ==
  ASSUME NEW h, NEW m, HeapOK(h, m), NEW o, Is(h, o, Environments), NEW x
  PROVE  Means(h, Get(h, o, x))
<1>1. o \in DOMAIN h /\ h[o].kind \in Environments /\ h[o].kind \in Holders /\ Refers(h, h[o])
  BY DEF Is, Holders, HeapOK
<1>2. Means(h, Undefined)
  BY ScopesAssumption DEF Means
<1>3. \A y \in DOMAIN h[o].props : Means(h, h[o].props[y].v)
  BY <1>1, HolderFacts
<1>4. CASE Alias(h, o, x) = 0
  BY <1>2, <1>3, <1>4 DEF Get
<1>5. CASE Alias(h, o, x) # 0
  <2>1. h[o].kind = "activation"
    BY <1>5 DEF Alias
  <2>2. h[o].args \in DOMAIN h /\ h[h[o].args].kind \in Holders
    BY <1>1, <2>1 DEF Refers, Is, Holders
  <2>3. \A y \in DOMAIN h[h[o].args].props : Means(h, h[h[o].args].props[y].v)
    BY <2>2, HolderFacts
  <2>4. QED BY <1>2, <1>5, <2>3 DEF Get
<1>6. QED BY <1>4, <1>5
-----------------------------------------------------------------------------
(* What a scope remembers.                                                 *)

LEMMA ForgetOK ==
  ASSUME NEW h, NEW s, NEW m, NEW r, r.funcs \in Seq(Addresses), r.vals \in Seq(Nat),
         CacheOK(h, s, r, m), NEW i \in 1 .. Len(r.funcs), NEW q, q = Forget(r, i)
  PROVE  /\ q.funcs \in Seq(Addresses) /\ q.vals \in Seq(Nat) /\ CacheOK(h, s, q, m)
         /\ ToSet(q.vals) \subseteq ToSet(r.vals)
         /\ \A k \in 1 .. Len(q.funcs) : q.funcs[k] # r.funcs[i]
<1> DEFINE n == Len(r.funcs)
           at(j) == IF j < i THEN j ELSE j + 1
<1>1. n \in Nat /\ Len(r.vals) = n /\ i \in 1 .. n /\ DOMAIN r.funcs = 1 .. n /\ DOMAIN r.vals = 1 .. n
  BY LenProperties DEF CacheOK
<1>2. q.funcs = RemoveAt(r.funcs, i) /\ q.vals = RemoveAt(r.vals, i)
  BY DEF Forget
<1>3. /\ q.funcs \in Seq(Addresses) /\ Len(q.funcs) = n - 1
      /\ \A j \in 1 .. n - 1 : q.funcs[j] = r.funcs[at(j)]
  <2> DEFINE t == r.funcs
  <2>1. t \in Seq(Addresses) /\ i \in 1 .. Len(t) /\ n = Len(t)
    OBVIOUS
  <2> HIDE DEF t, n
  <2>2. /\ RemoveAt(t, i) \in Seq(Addresses) /\ Len(RemoveAt(t, i)) = Len(t) - 1
        /\ \A j \in 1 .. Len(t) - 1 : RemoveAt(t, i)[j] = t[IF j < i THEN j ELSE j + 1]
    BY <2>1, RemoveAtFacts
  <2>3. QED BY <1>2, <2>1, <2>2 DEF t
<1>4. /\ q.vals \in Seq(Nat) /\ Len(q.vals) = n - 1
      /\ \A j \in 1 .. n - 1 : q.vals[j] = r.vals[at(j)]
  <2> DEFINE t == r.vals
  <2>1. t \in Seq(Nat) /\ i \in 1 .. Len(t) /\ n = Len(t)
    BY <1>1
  <2> HIDE DEF t, n
  <2>2. /\ RemoveAt(t, i) \in Seq(Nat) /\ Len(RemoveAt(t, i)) = Len(t) - 1
        /\ \A j \in 1 .. Len(t) - 1 : RemoveAt(t, i)[j] = t[IF j < i THEN j ELSE j + 1]
    BY <2>1, RemoveAtFacts
  <2>3. QED BY <1>2, <2>1, <2>2 DEF t
<1>5. DOMAIN q.funcs = 1 .. n - 1 /\ DOMAIN q.vals = 1 .. n - 1
  BY <1>3, <1>4, LenProperties
<1>6. \A j \in 1 .. n - 1 : at(j) \in 1 .. n /\ at(j) # i
  BY <1>1
<1>7. \A j, k \in 1 .. n - 1 : at(j) = at(k) => j = k
  BY <1>1
<1> HIDE DEF at, n
<1>8. \A j, k \in 1 .. n : r.funcs[j] = r.funcs[k] => j = k
  BY <1>1 DEF CacheOK, IsInjective
<1>9. IsInjective(q.funcs)
  BY SMTT(30), <1>3, <1>5, <1>6, <1>7, <1>8 DEF IsInjective
<1>10. ASSUME NEW k \in DOMAIN q.vals, q.vals[k] # Null
       PROVE  h[q.vals[k]].scope = s /\ Stands(m, q.funcs[k], h[q.vals[k]].code)
  <2>1. at(k) \in DOMAIN r.vals /\ q.vals[k] = r.vals[at(k)] /\ q.funcs[k] = r.funcs[at(k)]
    BY <1>1, <1>3, <1>4, <1>5, <1>6
  <2>2. QED BY <1>10, <2>1 DEF CacheOK
<1>11. CacheOK(h, s, q, m)
  BY <1>3, <1>4, <1>9, <1>10 DEF CacheOK
<1>12. ToSet(q.vals) \subseteq ToSet(r.vals)
  BY ZenonT(30), <1>1, <1>4, <1>5, <1>6 DEF ToSet
<1>13. \A k \in 1 .. n - 1 : q.funcs[k] # r.funcs[i]
  BY <1>1, <1>3, <1>6, <1>8
<1>14. QED BY <1>3, <1>4, <1>11, <1>12, <1>13

LEMMA AppendRange ==
  ASSUME NEW S, NEW t \in Seq(S), NEW v \in S
  PROVE  \A y \in ToSet(Append(t, v)) : y \in ToSet(t) \/ y = v
<1>1. /\ Append(t, v) \in Seq(S) /\ Len(Append(t, v)) = Len(t) + 1
      /\ \A j \in 1 .. Len(t) : Append(t, v)[j] = t[j]
      /\ Append(t, v)[Len(t) + 1] = v
  BY AppendProperties
<1>2. Len(t) \in Nat /\ DOMAIN t = 1 .. Len(t) /\ DOMAIN Append(t, v) = 1 .. Len(t) + 1
  BY <1>1, LenProperties
<1>3. 1 .. Len(t) + 1 = (1 .. Len(t)) \cup {Len(t) + 1}
  BY <1>2
<1>4. QED BY <1>1, <1>2, <1>3 DEF ToSet

\* Function v of scope s for a definition or an address, and a cache with one more
MadeFor(h, v, s, d) == h[v].scope = s /\ h[v].code = d
MadeBy(h, v, s, m, node) == h[v].scope = s /\ Stands(m, node, h[v].code)
Remembers(q, r, node, v) == q.funcs = Append(r.funcs, node) /\ q.vals = Append(r.vals, v)

LEMMA RememberOK ==
  ASSUME NEW h, NEW s, NEW m, NEW r, r.funcs \in Seq(Addresses), r.vals \in Seq(Nat),
         CacheOK(h, s, r, m), NEW node \in Addresses, node \notin ToSet(r.funcs),
         NEW v \in Nat, MadeBy(h, v, s, m, node), NEW q, Remembers(q, r, node, v)
  PROVE  /\ q.funcs \in Seq(Addresses) /\ q.vals \in Seq(Nat) /\ CacheOK(h, s, q, m)
<1> DEFINE n == Len(r.funcs)
<1>1. n \in Nat /\ Len(r.vals) = n /\ DOMAIN r.funcs = 1 .. n /\ DOMAIN r.vals = 1 .. n
  BY LenProperties DEF CacheOK
<1>2. /\ q.funcs \in Seq(Addresses) /\ Len(q.funcs) = n + 1
      /\ \A j \in 1 .. n : q.funcs[j] = r.funcs[j]
      /\ q.funcs[n + 1] = node
  BY AppendProperties DEF Remembers
<1>3. /\ q.vals \in Seq(Nat) /\ Len(q.vals) = n + 1
      /\ \A j \in 1 .. n : q.vals[j] = r.vals[j]
      /\ q.vals[n + 1] = v
  BY <1>1, AppendProperties DEF Remembers
<1>4. DOMAIN q.funcs = 1 .. n + 1 /\ DOMAIN q.vals = 1 .. n + 1
  BY <1>2, <1>3, LenProperties
<1>5. 1 .. n + 1 = (1 .. n) \cup {n + 1} /\ n + 1 \notin 1 .. n
  BY <1>1
<1>6. \A j \in 1 .. n : r.funcs[j] # node
  BY <1>1 DEF ToSet
<1> HIDE DEF n
<1>7. IsInjective(q.funcs)
  <2>1. \A j, k \in 1 .. n : r.funcs[j] = r.funcs[k] => j = k
    BY <1>1 DEF CacheOK, IsInjective
  <2>2. \A j, k \in 1 .. n : q.funcs[j] = q.funcs[k] => j = k
    BY <1>2, <2>1
  <2>3. \A j \in 1 .. n : q.funcs[j] # q.funcs[n + 1]
    BY <1>2, <1>6
  <2>4. QED BY <1>4, <1>5, <2>2, <2>3 DEF IsInjective
<1>8. ASSUME NEW k \in DOMAIN q.vals, q.vals[k] # Null
      PROVE  h[q.vals[k]].scope = s /\ Stands(m, q.funcs[k], h[q.vals[k]].code)
  <2>1. CASE k \in 1 .. n
    <3>1. k \in DOMAIN r.vals /\ q.vals[k] = r.vals[k] /\ q.funcs[k] = r.funcs[k]
      BY <1>1, <1>2, <1>3, <2>1
    <3>2. QED BY <1>8, <3>1 DEF CacheOK
  <2>2. CASE k = n + 1
    BY <1>2, <1>3, <2>2 DEF MadeBy
  <2>3. QED BY <1>4, <1>5, <2>1, <2>2
<1>9. CacheOK(h, s, q, m)
  BY <1>2, <1>3, <1>7, <1>8 DEF CacheOK
<1>10. QED BY <1>2, <1>3, <1>9
-----------------------------------------------------------------------------
(* Scopes and functions are made, names get values in them.                *)

LEMMA NewScopeOK ==
  ASSUME NEW h, NEW m, HeapOK(h, m), NEW env, Is(h, env, Environments), NEW prev,
         (prev = Null /\ env = Global) \/ prev \in ScopesOf(h)
  PROVE  LET n == NewScope(h, env, prev)
         IN  /\ HeapOK(n.h, m) /\ Grows(h, n.h) /\ n.id \in ScopesOf(n.h)
             /\ n.h[n.id].env = env /\ n.h[n.id].prev = prev
<1> DEFINE x == [kind |-> "scope", env |-> env, prev |-> prev, funcs |-> <<>>, vals |-> <<>>]
<1>1. prev \in Nat /\ env \in Nat
  BY HeapTypes, ScopeFacts DEF HeapOK, Null, Is, ScopesOf
<1>2. x \in Things
  BY <1>1 DEF Things
<1>3. prev # Null => Is(h, prev, {"scope"})
  BY DEF ScopesOf, Is
<1>4. x.vals = <<>> /\ ToSet(x.vals) = {}
  BY DEF ToSet
<1>5. Refers(h, x)
  BY <1>3, <1>4 DEF Refers, Environments
<1>6. x.kind = "scope" => x.funcs = <<>> /\ x.vals = <<>> /\ (x.prev = Null => x.env = Global)
  BY ScopeFacts
<1>7. NewScope(h, env, prev) = New(h, x)
  BY DEF NewScope
<1>8. x.env = env /\ x.prev = prev /\ x.kind = "scope"
  OBVIOUS
<1> HIDE DEF x
<1>9. /\ HeapOK(New(h, x).h, m) /\ Grows(h, New(h, x).h)
      /\ New(h, x).id \in DOMAIN New(h, x).h /\ New(h, x).h[New(h, x).id] = x
  BY <1>2, <1>5, <1>6, Add
<1>10. QED BY <1>7, <1>8, <1>9 DEF ScopesOf

LEMMA NewFunctionOK ==
  ASSUME NEW h, NEW m, HeapOK(h, m), NEW code \in DOMAIN Codes, NEW s \in ScopesOf(h)
  PROVE  LET n == NewFunction(h, code, s)
         IN  /\ HeapOK(n.h, m) /\ Grows(h, n.h) /\ n.id \notin DOMAIN h /\ Is(n.h, n.id, {"function"})
             /\ n.h[n.id].scope = s /\ n.h[n.id].code = code /\ \A i \in DOMAIN h : n.h[i] = h[i]
<1> DEFINE x == [kind |-> "function", code |-> code, scope |-> s]
<1>1. s \in Nat /\ Is(h, s, {"scope"})
  BY HeapTypes DEF HeapOK, Is, ScopesOf
<1>2. x \in Things
  BY <1>1 DEF Things
<1>3. Refers(h, x)
  BY <1>1 DEF Refers, Environments
<1>4. NewFunction(h, code, s) = New(h, x)
  BY DEF NewFunction
<1>5. x.kind = "function" /\ x.scope = s /\ x.code = code
  OBVIOUS
<1> HIDE DEF x
<1>6. x.kind # "scope"
  BY <1>5
<1>7. /\ HeapOK(New(h, x).h, m) /\ Grows(h, New(h, x).h) /\ New(h, x).id \notin DOMAIN h
      /\ New(h, x).id \in DOMAIN New(h, x).h /\ New(h, x).h[New(h, x).id] = x
      /\ \A i \in DOMAIN h : New(h, x).h[i] = h[i]
  BY <1>2, <1>3, <1>6, Add
<1>8. QED BY <1>4, <1>5, <1>7 DEF Is

LEMMA LookupFacts ==
  ASSUME NEW h, NEW m, HeapOK(h, m), NEW s \in ScopesOf(h), NEW x
  PROVE  Lookup(h, s, x) # Null =>
           Is(h, Lookup(h, s, x), Environments) /\ Own(h, Lookup(h, s, x), x)
<1> DEFINE t == FirstScope(h, s, Naming(h, x))
<1>1. t \in (Naming(h, x) \cap ScopesOf(h)) \cup {Null}
  BY FirstFacts
<1>2. Lookup(h, s, x) = IF t = Null THEN Null ELSE h[t].env
  BY DEF Lookup
<1> HIDE DEF t
<1>3. QED BY <1>1, <1>2, ScopeFacts DEF Naming

LEMMA PutLocalOK ==
  ASSUME NEW h, NEW m, HeapOK(h, m), NEW s \in ScopesOf(h), NEW x \in Names, NEW v, Means(h, v)
  PROVE  HeapOK(PutLocal(h, s, x, v), m) /\ Grows(h, PutLocal(h, s, x, v))
<1> DEFINE declaring == {i \in ScopesOf(h) : h[h[i].env].kind \in {"activation", "global"}}
           ts == declaring \cup Naming(h, x)
           t == FirstScope(h, s, ts)
           o == h[t].env
<1>1. \A i \in ScopesOf(h) : h[i].prev = Null => i \in ts
  <2>1. ASSUME NEW i \in ScopesOf(h), h[i].prev = Null PROVE i \in declaring
    <3>1. h[i].env = Global /\ h[Global].kind = "global"
      BY <2>1, ScopeFacts DEF HeapOK, Is
    <3>2. QED BY <3>1
  <2>2. QED BY <2>1
<1>2. s # Null
  BY ScopeFacts
<1> HIDE DEF ts
<1>3. t \in ts \cap ScopesOf(h)
  BY <1>1, <1>2, FirstFacts
<1>4. PutLocal(h, s, x, v) = Redefine(h, o, x, v)
  BY DEF PutLocal, ts
<1> HIDE DEF t
<1>5. o \in DOMAIN h /\ h[o].kind \in Holders
  BY <1>3, ScopeFacts DEF Is, Holders
<1>6. h[o].kind = "plain" => Own(h, o, x)
  BY <1>3 DEF ts, Naming
<1> HIDE DEF o
<1>7. QED BY <1>4, <1>5, <1>6, RedefineOK

\* What a name means after it was put, unless it is that of an argument
Meant(g, s, x, v) == LET o == Lookup(g, s, x) IN Alias(g, o, x) # 0 \/ Get(g, o, x) = v

LEMMA PutLocalMeans ==
  ASSUME NEW h, NEW m, HeapOK(h, m), NEW s \in ScopesOf(h), NEW x \in Names, NEW v, Means(h, v)
  PROVE  Meant(PutLocal(h, s, x, v), s, x, v)
<1> DEFINE declaring == {i \in ScopesOf(h) : h[h[i].env].kind \in {"activation", "global"}}
           ts == declaring \cup Naming(h, x)
           t == FirstScope(h, s, ts)
           o == h[t].env
           g == PutLocal(h, s, x, v)
           us == Naming(g, x)
           p == [v |-> v, del |-> FALSE, ro |-> FALSE]
           q == [y \in DOMAIN h[o].props \cup {x} |-> IF y = x THEN p ELSE h[o].props[y]]
<1>1. \A i \in ScopesOf(h) : h[i].prev = Null => i \in ts
  <2>1. ASSUME NEW i \in ScopesOf(h), h[i].prev = Null PROVE i \in declaring
    <3>1. h[i].env = Global /\ h[Global].kind = "global"
      BY <2>1, ScopeFacts DEF HeapOK, Is
    <3>2. QED BY <3>1
  <2>2. QED BY <2>1
<1>2. s # Null
  BY ScopeFacts
<1>3. t \in ts \cap ScopesOf(h)
  <2> HIDE DEF ts
  <2>1. QED BY <1>1, <1>2, FirstFacts
<1>4. g = [h EXCEPT ![o].props = q]
  BY DEF PutLocal, Redefine, SetProperty
<1>5. o \in DOMAIN h /\ h[o].kind \in Environments /\ h[o].kind # "scope" /\ h[o] \in Things
  <2>1. Is(h, o, Environments)
    BY <1>3, ScopeFacts
  <2> HIDE DEF o
  <2>2. h \in Heaps
    BY DEF HeapOK
  <2>3. QED BY <2>1, <2>2, HeapTypes DEF Is, Environments
<1>6. h = [i \in DOMAIN h |-> h[i]]
  BY HeapTypes DEF HeapOK
<1>7. HeapOK(g, m) /\ Grows(h, g)
  BY PutLocalOK
<1>8. q[x].v = v /\ x \in DOMAIN q
  OBVIOUS
<1> HIDE DEF g, q, t
<1>9. g[o].props = q /\ (\A i \in DOMAIN h : i # o => g[i] = h[i]) /\ DOMAIN g = DOMAIN h
  <2>1. "props" \in DOMAIN h[o]
    BY <1>5 DEF Things, Activations, Environments
  <2>2. QED BY <1>4, <1>5, <1>6, <2>1
<1>10. ASSUME NEW i \in us \cap ScopesOf(h) PROVE i \in ts
  <2>1. i \in DOMAIN h /\ h[i].env \in DOMAIN h /\ g[i].env = h[i].env /\ x \in DOMAIN g[h[i].env].props
    <3>1. i \in ScopesOf(h) /\ Own(g, g[i].env, x)
      BY DEF Naming
    <3>2. g[i].env = h[i].env /\ h[i].env \in DOMAIN h /\ i \in DOMAIN h
      BY <1>7, <3>1, ScopeKept, ScopeFacts DEF Is
    <3>3. QED BY <3>1, <3>2 DEF Own
  <2>2. CASE h[i].env = o
    BY <1>3, <2>2 DEF Naming, Own
  <2>3. CASE h[i].env # o
    <3>1. Own(h, h[i].env, x)
      BY <1>9, <2>1, <2>3 DEF Own
    <3>2. QED BY <3>1 DEF Naming
  <2>4. QED BY <2>2, <2>3
<1>11. t \in us /\ g[t].env = o
  <2>1. t \in ScopesOf(g) /\ g[t].env = o
    BY <1>3, <1>7, ScopeKept
  <2>2. QED BY <1>8, <1>9, <2>1 DEF Naming, Own
<1>12. Null \notin us /\ t # Null
  BY <1>7, <1>11, ScopeFacts DEF Naming
<1> HIDE DEF ts, us, o
<1>13. FirstScope(h, s, ts) \in us /\ us \cap ScopesOf(h) \subseteq ts
  BY <1>10, <1>11 DEF t
<1>14. FirstScope(g, s, us) = t
  BY <1>7, <1>12, <1>13, FirstSame DEF t
<1>15. Lookup(g, s, x) = o
  BY <1>11, <1>12, <1>14 DEF Lookup, us
<1>16. Alias(g, o, x) = 0 => Get(g, o, x) = v
  BY <1>8, <1>9 DEF Get
<1>17. Meant(g, s, x, v)
  BY <1>15, <1>16 DEF Meant
<1>18. QED BY <1>17 DEF g

\* A definition is made unless the scope remembers it
LEMMA FunctionMade ==
  ASSUME NEW h, NEW m, HeapOK(h, m), NEW s \in ScopesOf(h), NEW d \in DOMAIN Codes, Codes[d].id \in Names,
         NEW node \in Addresses, Stands(m, node, d),
         ~(Place(h[s].funcs, node) # 0 /\ StillThere(h, s, Place(h[s].funcs, node), Codes[d].id))
  PROVE  \E g, v : /\ PutLocalFunction(h, s, d, node) = PutLocal(g, s, Codes[d].id, v)
                  /\ HeapOK(g, m) /\ Grows(h, g) /\ Is(g, v, {"function"}) /\ MadeFor(g, v, s, d)
<1> DEFINE x == Codes[d].id
           i == Place(h[s].funcs, node)
           old == IF i = 0 THEN Made(h, s) ELSE Forget(Made(h, s), i)
           f == NewFunction(h, d, s)
           y == [f.h[s] EXCEPT !.funcs = Append(old.funcs, node), !.vals = Append(old.vals, f.id)]
           made == [f.h EXCEPT ![s] = y]
<1>1. PutLocalFunction(h, s, d, node) = PutLocal(made, s, x, f.id)
  BY DEF PutLocalFunction
<1>2. /\ s \in DOMAIN h /\ h[s].kind = "scope" /\ h[s] \in Things /\ CacheOK(h, s, h[s], m)
      /\ h[s].funcs \in Seq(Addresses) /\ h[s].vals \in Seq(Nat) /\ Refers(h, h[s])
  BY ScopeFacts DEF HeapOK
<1>3. Made(h, s).funcs = h[s].funcs /\ Made(h, s).vals = h[s].vals
  BY DEF Made
<1>4. CacheOK(h, s, Made(h, s), m)
  BY <1>2, <1>3 DEF CacheOK
<1>5. Len(h[s].funcs) \in Nat
  BY <1>2, LenProperties
<1>6. /\ i \in 0 .. Len(h[s].funcs)
      /\ i # 0 => h[s].funcs[i] = node
      /\ i = 0 => \A k \in 1 .. Len(h[s].funcs) : h[s].funcs[k] # node
  BY <1>5, PlaceFacts
<1> HIDE DEF i
<1>7. /\ old.funcs \in Seq(Addresses) /\ old.vals \in Seq(Nat) /\ CacheOK(h, s, old, m)
      /\ ToSet(old.vals) \subseteq ToSet(h[s].vals)
      /\ \A k \in 1 .. Len(old.funcs) : old.funcs[k] # node
  <2>1. CASE i = 0
    BY <1>2, <1>3, <1>4, <1>6, <2>1
  <2>2. CASE i # 0
    <3> DEFINE r == Made(h, s)
    <3>1. old = Forget(r, i)
      BY <2>2
    <3>2. r.funcs \in Seq(Addresses) /\ r.vals \in Seq(Nat) /\ CacheOK(h, s, r, m)
          /\ i \in 1 .. Len(r.funcs) /\ r.funcs[i] = node /\ ToSet(r.vals) = ToSet(h[s].vals)
      BY <1>2, <1>3, <1>4, <1>5, <1>6, <2>2
    <3> HIDE DEF r, old
    <3>3. QED BY <3>1, <3>2, ForgetOK
  <2>3. QED BY <2>1, <2>2
<1> HIDE DEF old
<1>8. /\ HeapOK(f.h, m) /\ Grows(h, f.h) /\ f.id \notin DOMAIN h /\ Is(f.h, f.id, {"function"})
      /\ f.h[f.id].scope = s /\ f.h[f.id].code = d /\ f.h[s] = h[s] /\ s \in DOMAIN f.h
  BY <1>2, NewFunctionOK DEF Grows
<1> HIDE DEF f
<1>9. f.id \in Nat /\ f.id \in DOMAIN f.h
  BY <1>8, HeapTypes DEF HeapOK, Is
<1>10. \A v \in ToSet(old.vals) \ {Null} : Is(h, v, {"function"})
  BY <1>2, <1>7 DEF Refers
<1>11. CacheOK(f.h, s, old, m)
  BY <1>7, <1>8, <1>10, CacheOn
<1>12. y.funcs = Append(old.funcs, node) /\ y.vals = Append(old.vals, f.id)
       /\ y.kind = "scope" /\ y.env = h[s].env /\ y.prev = h[s].prev
  <2>1. h[s] \in [kind : {"scope"}, env : Nat, prev : Nat, funcs : Seq(Addresses), vals : Seq(Nat)]
    BY <1>2 DEF Things, Activations, Holders, Environments
  <2>2. QED BY <1>8, <2>1
<1>13. y.funcs \in Seq(Addresses) /\ y.vals \in Seq(Nat) /\ CacheOK(f.h, s, y, m)
       /\ \A z \in ToSet(y.vals) : z \in ToSet(old.vals) \/ z = f.id
  <2> DEFINE g == f.h
             v == f.id
  <2>1. v \in Nat /\ MadeBy(g, v, s, m, node) /\ CacheOK(g, s, old, m)
    BY <1>8, <1>9, <1>11 DEF MadeBy
  <2>2. Remembers(y, old, node, v)
    BY <1>12 DEF Remembers
  <2>3. old.funcs \in Seq(Addresses) /\ old.vals \in Seq(Nat) /\ node \notin ToSet(old.funcs)
    <3>1. DOMAIN old.funcs = 1 .. Len(old.funcs)
      BY <1>7, LenProperties
    <3>2. QED BY <1>7, <3>1 DEF ToSet
  <2> HIDE DEF g, v, y
  <2>4. y.funcs \in Seq(Addresses) /\ y.vals \in Seq(Nat) /\ CacheOK(g, s, y, m)
     <3>1. node \in Addresses
      OBVIOUS
    <3>2. QED BY ONLY <2>1, <2>2, <2>3, <3>1, RememberOK
  <2>5. \A z \in ToSet(y.vals) : z \in ToSet(old.vals) \/ z = v
    <3> DEFINE t == old.vals
    <3>1. y.vals = Append(t, v) /\ t \in Seq(Nat)
      BY <2>2, <2>3 DEF Remembers
    <3> HIDE DEF t
    <3>2. \A z \in ToSet(Append(t, v)) : z \in ToSet(t) \/ z = v
      BY <2>1, <3>1, AppendRange
    <3>3. QED BY <3>1, <3>2 DEF t
  <2>6. QED BY <2>4, <2>5 DEF g, v
<1>14. y \in Things
  <2>1. h[s] \in [kind : {"scope"}, env : Nat, prev : Nat, funcs : Seq(Addresses), vals : Seq(Nat)]
    BY <1>2 DEF Things, Activations, Holders, Environments
  <2>2. Append(old.funcs, node) \in Seq(Addresses) /\ Append(old.vals, f.id) \in Seq(Nat)
    BY <1>12, <1>13
  <2>3. y \in [kind : {"scope"}, env : Nat, prev : Nat, funcs : Seq(Addresses), vals : Seq(Nat)]
    BY <1>8, <2>1, <2>2
  <2> HIDE DEF y
  <2>4. QED BY <2>3 DEF Things
<1> HIDE DEF y
<1>15. Refers(f.h, y)
  <2>1. Refers(f.h, h[s])
    BY <1>2, <1>8, RefersKept
  <2>2. Is(f.h, y.env, Environments) /\ (y.prev # Null => Is(f.h, y.prev, {"scope"}))
    BY <1>2, <1>12, <2>1 DEF Refers
  <2>3. \A v \in ToSet(y.vals) \ {Null} : Is(f.h, v, {"function"})
    BY <1>8, <1>10, <1>13, IsKept
  <2>4. QED BY <1>12, <2>2, <2>3 DEF Refers, Environments
<1>16. Keeps(f.h[s], y)
  BY <1>2, <1>8, <1>12 DEF Keeps
<1>17. HeapOK(made, m) /\ Grows(f.h, made)
  BY <1>8, <1>13, <1>14, <1>15, <1>16, Replace
<1> HIDE DEF made
<1>18. Grows(h, made) /\ Is(made, f.id, {"function"}) /\ Keeps(f.h[f.id], made[f.id])
  BY <1>8, <1>9, <1>17, GrowsOn, IsKept DEF Grows
<1>19. made[f.id].scope = s /\ made[f.id].code = d
  BY <1>8, <1>18 DEF Keeps, Is
<1>20. QED BY <1>1, <1>17, <1>18, <1>19 DEF MadeFor

\* A definition whose address means it is made, or remembered
LEMMA PutLocalFunctionOK ==
  ASSUME NEW h, NEW m, HeapOK(h, m), NEW s \in ScopesOf(h), NEW d \in DOMAIN Codes, Codes[d].id \in Names,
         NEW node \in Addresses, Stands(m, node, d)
  PROVE  HeapOK(PutLocalFunction(h, s, d, node), m) /\ Grows(h, PutLocalFunction(h, s, d, node))
<1> DEFINE x == Codes[d].id
           i == Place(h[s].funcs, node)
           q == PutLocalFunction(h, s, d, node)
<1>1. CASE i # 0 /\ StillThere(h, s, i, x)
  BY <1>1, GrowsNot DEF PutLocalFunction
<1>2. CASE ~(i # 0 /\ StillThere(h, s, i, x))
  <2>1. PICK g, v : /\ q = PutLocal(g, s, x, v) /\ HeapOK(g, m) /\ Grows(h, g)
                    /\ Is(g, v, {"function"}) /\ MadeFor(g, v, s, d)
    BY <1>2, FunctionMade
  <2> HIDE DEF q
  <2>2. s \in ScopesOf(g) /\ Means(g, v)
    BY <2>1, ScopeKept DEF Means
  <2>3. HeapOK(q, m) /\ Grows(g, q)
    BY <2>1, <2>2, PutLocalOK
  <2>4. Grows(h, q)
    BY <2>1, <2>3, GrowsOn
  <2>5. QED BY <2>3, <2>4 DEF q
<1>3. QED BY <1>1, <1>2
\* The name of a definition means a function that the scope made of it
DefinitionHolds(h, s, d, x) ==
    LET o == Lookup(h, s, x)
        now == Get(h, o, x)
    IN  Alias(h, o, x) # 0 \/ (now \in DOMAIN h /\ h[now].code = d /\ h[now].scope = s)

LEMMA FunctionHolds ==
  ASSUME NEW h, NEW m, HeapOK(h, m), NEW s \in ScopesOf(h), NEW d \in DOMAIN Codes, Codes[d].id \in Names,
         NEW node \in Addresses, ~TreesReused, Stands(m, node, d)
  PROVE  DefinitionHolds(PutLocalFunction(h, s, d, node), s, d, Codes[d].id)
<1> DEFINE x == Codes[d].id
           i == Place(h[s].funcs, node)
           q == PutLocalFunction(h, s, d, node)
           o == h[s].env
           v == h[s].vals[i]
<1>1. /\ h[s] \in Things /\ h[s].kind = "scope" /\ CacheOK(h, s, h[s], m) /\ Refers(h, h[s])
      /\ h[s].funcs \in Seq(Addresses) /\ h[s].vals \in Seq(Nat) /\ Is(h, o, Environments)
  BY ScopeFacts DEF HeapOK
<1>2. CASE i # 0 /\ StillThere(h, s, i, x)
  <2>1. q = h /\ v # Null /\ Get(h, o, x) = v
    BY <1>2 DEF PutLocalFunction, StillThere
  <2>2. i \in DOMAIN h[s].vals /\ h[s].funcs[i] = node
    <3>1. Len(h[s].funcs) \in Nat /\ DOMAIN h[s].vals = 1 .. Len(h[s].funcs)
      BY <1>1, LenProperties DEF CacheOK
    <3>2. i \in 0 .. Len(h[s].funcs) /\ (i # 0 => h[s].funcs[i] = node)
      BY <3>1, PlaceFacts
    <3> HIDE DEF i
    <3>3. QED BY <1>2, <3>1, <3>2
  <2> HIDE DEF i
  <2>3. h[v].scope = s /\ h[v].code = d
    BY <1>1, <2>1, <2>2 DEF CacheOK, Stands
  <2>4. v \in DOMAIN h /\ v \in Nat
    <3>1. v \in ToSet(h[s].vals)
      BY <2>2 DEF ToSet
    <3>2. Is(h, v, {"function"})
      BY <1>1, <2>1, <3>1 DEF Refers
    <3> HIDE DEF v
    <3>3. QED BY <3>2, HeapTypes DEF Is, HeapOK
  <2> HIDE DEF v, q
  <2>5. v # Undefined
    BY <2>4, ScopesAssumption
  <2>6. Own(h, o, x)
    <3>1. CASE Alias(h, o, x) = 0
      BY <2>1, <2>5, <3>1 DEF Get, Own
    <3>2. CASE Alias(h, o, x) # 0
      BY <1>1, <3>2, AliasOwn
    <3>3. QED BY <3>1, <3>2
  <2>7. s \in Naming(h, x)
    BY <2>6 DEF Naming
  <2>8. FirstScope(h, s, Naming(h, x)) = s /\ s # Null
    <3> DEFINE ts == Naming(h, x)
    <3>1. s \in ts
      BY <2>7
    <3> HIDE DEF ts
    <3>2. FirstScope(h, s, ts) = s
      BY <3>1, FirstStep
    <3>3. QED BY <3>2, ScopeFacts DEF ts
  <2>9. Lookup(h, s, x) = o
    BY <2>8 DEF Lookup
  <2> HIDE DEF o
  <2>10. QED BY <2>1, <2>3, <2>4, <2>9 DEF DefinitionHolds, q
<1>3. CASE ~(i # 0 /\ StillThere(h, s, i, x))
  <2>1. PICK g, w : /\ q = PutLocal(g, s, x, w) /\ HeapOK(g, m) /\ Grows(h, g)
                    /\ Is(g, w, {"function"}) /\ MadeFor(g, w, s, d)
    BY <1>3, FunctionMade
  <2> HIDE DEF q
  <2>2. s \in ScopesOf(g) /\ Means(g, w)
    BY <2>1, ScopeKept DEF Means
  <2>3. Meant(q, s, x, w)
    BY <2>1, <2>2, PutLocalMeans
  <2>4. Grows(g, q)
    BY <2>1, <2>2, PutLocalOK
  <2>5. w \in DOMAIN q /\ q[w].code = d /\ q[w].scope = s
    BY <2>1, <2>4 DEF Grows, Keeps, Is, MadeFor
  <2>6. DefinitionHolds(q, s, d, x)
    BY <2>3, <2>5 DEF Meant, DefinitionHolds
  <2>7. QED BY <2>6 DEF q
<1>4. QED BY <1>2, <1>3
-----------------------------------------------------------------------------
(* Hoisting.                                                               *)

LEMMA CodeFacts ==
  ASSUME NEW code \in DOMAIN Codes
  PROVE  /\ Codes[code].id \in Names \cup {""} /\ Codes[code].params \in Seq(Names)
         /\ Codes[code].strict \in BOOLEAN /\ Codes[code].decls \in Seq(ToSet(Codes[code].decls))
         /\ \A d \in ToSet(Codes[code].decls) : d.var \in BOOLEAN /\ Declares(d)
         /\ \A d \in Definitions(code) : d \in DOMAIN Codes /\ Codes[d].id \in Names
<1>1. \A d \in ToSet(Codes[code].decls) : d.var \in BOOLEAN /\ Declares(d)
  BY ScopesAssumption
<1>2. \A d \in Definitions(code) : d \in DOMAIN Codes /\ Codes[d].id \in Names
  BY <1>1 DEF Definitions, Declares
<1>3. QED BY <1>1, <1>2, ScopesAssumption

LEMMA ScanFacts ==
  ASSUME NEW code \in DOMAIN Codes
  PROVE  LET r == Scan(Codes[code].decls)
         IN  r.ids \in Seq(Names) /\ r.funcs \in Seq(Definitions(code))
<1> DEFINE S == [ids : Seq(Names), funcs : Seq(Definitions(code))]
           e == Codes[code].decls
           n == Len(e)
           base == [ids |-> <<>>, funcs |-> <<>>]
<1>1. n \in Nat /\ DOMAIN e = 1 .. n /\ \A k \in 1 .. n : e[k] \in ToSet(e)
  BY CodeFacts, LenProperties DEF ToSet
<1>2. base \in S
  BY EmptySeq
<1>3. ASSUME NEW k \in 1 .. n, NEW r \in S
      PROVE  ScanDeclaration(r, e[k]) \in S
  <2> DEFINE d == e[k]
  <2>1. d \in ToSet(e) /\ d.var \in BOOLEAN /\ Declares(d)
    BY <1>1, CodeFacts
  <2>2. CASE d.var
    <3>1. d.id \in Names
      BY <2>1, <2>2 DEF Declares
    <3> DEFINE t == Append(r.ids, d.id)
    <3>2. t \in Seq(Names)
      BY <3>1, AppendProperties
    <3>3. ScanDeclaration(r, d) = [r EXCEPT !.ids = t]
      BY <2>2 DEF ScanDeclaration
    <3> HIDE DEF t
    <3>4. QED BY <3>2, <3>3
  <2>3. CASE ~d.var
    <3> DEFINE x == Codes[d.code].id
    <3>1. d.code \in Definitions(code)
      BY <2>1, <2>3 DEF Definitions
    <3>2. x \in Names
      BY <3>1, CodeFacts
    <3>3. CASE Contains(r.ids, x)
      BY <2>3, <3>3 DEF ScanDeclaration
    <3>4. CASE ~Contains(r.ids, x)
      <4> DEFINE t == Append(r.ids, x)
                 u == Append(r.funcs, d.code)
      <4>1. t \in Seq(Names) /\ u \in Seq(Definitions(code))
        BY <3>1, <3>2, AppendProperties
      <4>2. ScanDeclaration(r, d) = [ids |-> t, funcs |-> u]
        BY <2>3, <3>4 DEF ScanDeclaration
      <4> HIDE DEF t, u
      <4>3. QED BY <4>1, <4>2
    <3>5. QED BY <3>3, <3>4
  <2>4. QED BY <2>1, <2>2, <2>3
<1>4. Scan(e) = ScanFold!Folded(base, e)
  BY DEF Scan, FoldLeft, MapThenFoldSet, Max, ScanFold!Folded, ScanFold!Greatest
<1>5. \A k \in 1 .. n : \A r \in S : ScanDeclaration(r, e[k]) \in S
  BY <1>3
<1> HIDE DEF S, e, n, base
<1>6. ScanFold!Folded(base, e) \in S
  BY <1>1, <1>2, <1>5, ScanFold!FoldKeeps
<1>7. QED BY <1>4, <1>6 DEF S, e

\* The heaps that another may become, with the same meanings
Later(h, m) == {g \in Heaps : HeapOK(g, m) /\ Grows(h, g)}

LEMMA HoistOK ==
  ASSUME NEW h, NEW m, HeapOK(h, m), NEW s \in ScopesOf(h), NEW code \in DOMAIN Codes,
         NEW at \in [Definitions(code) -> Addresses], \A d \in Definitions(code) : Stands(m, at[d], d)
  PROVE  HeapOK(Hoist(h, s, code, at), m) /\ Grows(h, Hoist(h, s, code, at))
<1> DEFINE r == Scan(Codes[code].decls)
           vs == [k \in DOMAIN r.ids |-> <<s, r.ids[k]>>]
           ds == [k \in DOMAIN r.funcs |-> <<s, r.funcs[k], at[r.funcs[k]]>>]
           S == Later(h, m)
           middle == FoldLeft(HoistVariable, h, vs)
<1>1. Hoist(h, s, code, at) = FoldLeft(HoistDefinition, middle, ds)
  BY DEF Hoist
<1>2. r.ids \in Seq(Names) /\ r.funcs \in Seq(Definitions(code))
  BY ScanFacts
<1> HIDE DEF r
<1> DEFINE i == Len(r.ids)
           n == Len(r.funcs)
<1>3. /\ i \in Nat /\ DOMAIN r.ids = 1 .. i /\ \A k \in 1 .. i : r.ids[k] \in Names
      /\ n \in Nat /\ DOMAIN r.funcs = 1 .. n /\ \A k \in 1 .. n : r.funcs[k] \in Definitions(code)
  BY <1>2, LenProperties, ElementOfSeq
<1>4. DOMAIN vs = 1 .. i /\ DOMAIN ds = 1 .. n
  BY <1>3
<1>5. h \in S
  BY GrowsNot DEF Later, HeapOK
<1>6. ASSUME NEW k \in 1 .. i, NEW g \in S
      PROVE  HoistVariable(g, vs[k]) \in S
  <2> DEFINE x == r.ids[k]
  <2>1. x \in Names /\ HoistVariable(g, vs[k]) =
          (IF HasProperty(g, s, x) THEN g ELSE PutLocal(g, s, x, Undefined))
    BY <1>3 DEF HoistVariable
  <2>2. HeapOK(g, m) /\ Grows(h, g) /\ s \in ScopesOf(g)
    BY ScopeKept DEF Later
  <2>3. Means(g, Undefined)
    BY ScopesAssumption DEF Means
  <2> HIDE DEF x
  <2>4. HeapOK(PutLocal(g, s, x, Undefined), m) /\ Grows(g, PutLocal(g, s, x, Undefined))
    BY <2>1, <2>2, <2>3, PutLocalOK
  <2>5. PutLocal(g, s, x, Undefined) \in S
    BY <2>2, <2>4, GrowsOn DEF Later, HeapOK
  <2>6. QED BY <2>1, <2>5
<1>7. ASSUME NEW k \in 1 .. n, NEW g \in S
      PROVE  HoistDefinition(g, ds[k]) \in S
  <2> DEFINE d == r.funcs[k]
             a == at[d]
  <2>1. d \in Definitions(code) /\ HoistDefinition(g, ds[k]) = PutLocalFunction(g, s, d, a)
    BY <1>3 DEF HoistDefinition
  <2>2. d \in DOMAIN Codes /\ Codes[d].id \in Names
    BY <2>1, CodeFacts
  <2>3. a \in Addresses /\ Stands(m, a, d)
    BY <2>1
  <2>4. HeapOK(g, m) /\ Grows(h, g) /\ s \in ScopesOf(g)
    BY ScopeKept DEF Later
  <2> HIDE DEF d, a
  <2>5. HeapOK(PutLocalFunction(g, s, d, a), m) /\ Grows(g, PutLocalFunction(g, s, d, a))
    BY <2>2, <2>3, <2>4, PutLocalFunctionOK
  <2>6. PutLocalFunction(g, s, d, a) \in S
    BY <2>4, <2>5, GrowsOn DEF Later, HeapOK
  <2>7. QED BY <2>1, <2>6
<1>8. middle = VariableFold!Folded(h, vs)
  BY DEF FoldLeft, MapThenFoldSet, Max, VariableFold!Folded, VariableFold!Greatest
<1>9. FoldLeft(HoistDefinition, middle, ds) = DefinitionFold!Folded(middle, ds)
  BY DEF FoldLeft, MapThenFoldSet, Max, DefinitionFold!Folded, DefinitionFold!Greatest
<1>10. (\A k \in 1 .. i : \A g \in S : HoistVariable(g, vs[k]) \in S)
       /\ (\A k \in 1 .. n : \A g \in S : HoistDefinition(g, ds[k]) \in S)
  BY <1>6, <1>7
<1> HIDE DEF vs, ds, S, middle, i, n
<1>11. VariableFold!Folded(h, vs) \in S
  BY <1>3, <1>4, <1>5, <1>10, VariableFold!FoldKeeps
<1>12. middle \in S
  BY <1>8, <1>11
<1>13. DefinitionFold!Folded(middle, ds) \in S
  BY <1>3, <1>4, <1>10, <1>12, DefinitionFold!FoldKeeps
<1>14. QED BY <1>1, <1>9, <1>13 DEF S, Later
-----------------------------------------------------------------------------
(* Activations.                                                            *)

LEMMA PropertyFacts ==
  ASSUME NEW h \in Heaps, NEW v, Means(h, v)
  PROVE  /\ Property(v) \in Attributes /\ Property(v).v = v /\ ~Property(v).del
         /\ [Property(v) EXCEPT !.del = TRUE] \in Attributes /\ [Property(v) EXCEPT !.del = TRUE].v = v
<1>1. v \in Values \cup Nat
  BY MeansType
<1>2. QED BY <1>1 DEF Property, Attributes

\* What the arguments of a call are and an activation has
Arrives(h, args) == args \in Seq(Values \cup Nat) /\ \A i \in DOMAIN args : Means(h, args[i])

LEMMA NewActivationOK ==
  ASSUME NEW h, NEW m, HeapOK(h, m), NEW ps \in Seq(Names), NEW args, Arrives(h, args),
         NEW isStrict \in BOOLEAN
  PROVE  LET n == NewActivation(h, ps, args, isStrict)
         IN  HeapOK(n.h, m) /\ Grows(h, n.h) /\ Is(n.h, n.id, {"activation"})
<1> DEFINE n == IF Len(ps) < Len(args) THEN Len(ps) ELSE Len(args)
           cut == SubSeq(ps, 1, n)
           given(x) == LastPlace(SubSeq(ps, 1, n), x)
           p == [i \in DOMAIN args |-> [Property(args[i]) EXCEPT !.del = TRUE]]
           x == [kind |-> "arguments", props |-> p]
           a == New(h, x)
           params == IF isStrict THEN <<>> ELSE cut
           q == [y \in ToSet(ps) |-> Property(IF isStrict /\ given(y) # 0 THEN args[given(y)] ELSE Undefined)]
           z == [kind |-> "activation", params |-> params, args |-> a.id, props |-> q]
<1>1. NewActivation(h, ps, args, isStrict) = New(a.h, z)
  BY DEF NewActivation
<1>2. /\ args \in Seq(Values \cup Nat) /\ Len(args) \in Nat /\ DOMAIN args = 1 .. Len(args)
      /\ Len(ps) \in Nat /\ DOMAIN ps = 1 .. Len(ps) /\ \A i \in DOMAIN args : Means(h, args[i])
  BY LenProperties DEF Arrives
<1>3. n \in Nat /\ n <= Len(ps) /\ n <= Len(args)
  BY <1>2
<1> HIDE DEF n
<1>4. cut \in Seq(Names) /\ Len(cut) = n /\ \A i \in 1 .. n : cut[i] = ps[i]
  <2>1. \A i \in 1 .. n : ps[i] \in Names
    BY <1>2, <1>3, ElementOfSeq
  <2>2. 1 \in Int /\ n \in Int
    BY <1>3
  <2>3. cut \in Seq(Names) /\ (Len(cut) = IF 1 <= n THEN n - 1 + 1 ELSE 0)
        /\ \A i \in 1 .. n - 1 + 1 : cut[i] = ps[1 + i - 1]
    BY <2>1, <2>2, SubSeqProperties
  <2>4. n - 1 + 1 = n /\ \A i \in 1 .. n : 1 + i - 1 = i
    BY <1>3
  <2> HIDE DEF cut
  <2>5. QED BY <1>3, <2>3, <2>4
<1>5. ASSUME NEW y, given(y) # 0
      PROVE  given(y) \in DOMAIN args
  <2> DEFINE k == given(y)
  <2>1. k \in 0 .. Len(cut)
    BY <1>3, <1>4, LastPlaceFacts
  <2>2. k # 0
    BY <1>5
  <2> HIDE DEF k
  <2>3. k \in DOMAIN args
    BY <1>2, <1>3, <1>4, <2>1, <2>2
  <2>4. QED BY <2>3 DEF k
<1>6. h \in Heaps
  BY DEF HeapOK
<1>7. /\ DOMAIN p = DOMAIN args /\ p = [i \in DOMAIN p |-> p[i]] /\ DOMAIN p \subseteq Names \cup Nat
      /\ \A i \in DOMAIN p : p[i] = [Property(args[i]) EXCEPT !.del = TRUE]
  BY <1>2
<1>8. x.kind = "arguments" /\ x.props = p /\ x = [kind |-> "arguments", props |-> p]
  OBVIOUS
<1> HIDE DEF p, x
<1>9. \A i \in DOMAIN p : p[i] \in Attributes /\ Means(h, p[i].v)
  <2> SUFFICES ASSUME NEW i \in DOMAIN p PROVE p[i] \in Attributes /\ Means(h, p[i].v)
    OBVIOUS
  <2> DEFINE v == args[i]
  <2>1. Means(h, v) /\ p[i] = [Property(v) EXCEPT !.del = TRUE]
    BY <1>2, <1>7
  <2> HIDE DEF v
  <2>2. p[i] \in Attributes /\ p[i].v = v
    BY <1>6, <2>1, PropertyFacts
  <2>3. QED BY <2>1, <2>2
<1>10. p \in PropertyMaps
  BY <1>7, <1>9, MapType
<1>11. x \in Things
  BY <1>8, <1>10 DEF Things
<1>12. Refers(h, x) /\ x.kind # "scope"
  BY <1>8, <1>9 DEF Refers, Means, Environments
<1>13. /\ HeapOK(a.h, m) /\ Grows(h, a.h) /\ a.id \in DOMAIN a.h /\ a.h[a.id] = x
  BY <1>11, <1>12, Add
<1>14. a.id \in Nat /\ Is(a.h, a.id, {"arguments"}) /\ a.h \in Heaps
  <2>1. a.h \in Heaps
    BY <1>13 DEF HeapOK
  <2> HIDE DEF a
  <2>2. QED BY <1>8, <1>13, <2>1, HeapTypes DEF Is
<1> DEFINE g == a.h
           id == a.id
<1>15. HeapOK(g, m) /\ Grows(h, g) /\ id \in Nat /\ Is(g, id, {"arguments"}) /\ g \in Heaps
  BY <1>13, <1>14
<1>16. z = [kind |-> "activation", params |-> params, args |-> id, props |-> q]
       /\ New(a.h, z) = New(g, z)
  OBVIOUS
<1>17. z.kind = "activation" /\ z.args = id /\ z.props = q /\ z.params = params
  OBVIOUS
<1> HIDE DEF a, g, id, z
<1>18. ASSUME NEW y \in ToSet(ps)
       PROVE  q[y] \in Attributes /\ Means(g, q[y].v) /\ ~q[y].del
  <2> DEFINE v == IF isStrict /\ given(y) # 0 THEN args[given(y)] ELSE Undefined
  <2>1. Means(h, v)
    BY <1>2, <1>5, ScopesAssumption DEF Means
  <2>2. q[y] = Property(v)
    OBVIOUS
  <2> HIDE DEF v, q
  <2>3. Means(g, v)
    BY <1>15, <2>1, MeansKept
  <2>4. Property(v) \in Attributes /\ Property(v).v = v /\ ~Property(v).del
    BY <1>6, <2>1, PropertyFacts
  <2>5. QED BY <2>2, <2>3, <2>4
<1>19. DOMAIN q = ToSet(ps) /\ q = [y \in DOMAIN q |-> q[y]]
  OBVIOUS
<1>20. ToSet(ps) \subseteq Names
  BY <1>2, ElementOfSeq DEF ToSet
<1> HIDE DEF q
<1>21. q \in PropertyMaps
  <2>1. DOMAIN q \subseteq Names \cup Nat
    BY <1>19, <1>20
  <2>2. \A y \in DOMAIN q : q[y] \in Attributes
    BY <1>18, <1>19
  <2>3. QED BY <1>19, <2>1, <2>2, MapType
<1>22. params \in Seq(Names) /\ ToSet(params) \subseteq ToSet(ps)
  <2>1. <<>> \in Seq(Names) /\ ToSet(<<>>) = {}
    BY EmptySeq DEF ToSet
  <2>2. ToSet(cut) \subseteq ToSet(ps)
    <3>1. DOMAIN cut = 1 .. n /\ 1 .. n \subseteq DOMAIN ps
      BY <1>2, <1>3, <1>4, LenProperties
    <3> HIDE DEF cut
    <3>2. QED BY <1>4, <3>1 DEF ToSet
  <2> HIDE DEF cut
  <2>3. QED BY <1>4, <2>1, <2>2
<1> HIDE DEF params
<1>a. ToSet(z.params) \subseteq Lasting(z.props)
  BY <1>17, <1>18, <1>19, <1>22 DEF Lasting
<1>23. z \in Things
  <2>1. z \in [kind : {"activation"}, params : Seq(Names), args : Nat, props : PropertyMaps]
    BY <1>15, <1>16, <1>21, <1>22
  <2>2. QED BY <1>a, <2>1 DEF Things, Activations
<1>24. Refers(g, z) /\ z.kind # "scope"
  BY <1>15, <1>17, <1>18, <1>19 DEF Refers, Means, Environments
<1>25. HeapOK(New(g, z).h, m) /\ Grows(g, New(g, z).h)
       /\ New(g, z).id \in DOMAIN New(g, z).h /\ New(g, z).h[New(g, z).id] = z
  BY <1>15, <1>23, <1>24, Add
<1>26. Is(New(g, z).h, New(g, z).id, {"activation"})
  BY <1>17, <1>25 DEF Is
<1>27. Grows(h, New(g, z).h)
  BY <1>15, <1>25, GrowsOn
<1>28. NewActivation(h, ps, args, isStrict) = New(g, z)
  BY <1>1, <1>16
<1>29. QED BY <1>25, <1>26, <1>27, <1>28

LEMMA NamedOK ==
  ASSUME NEW h, NEW m, HeapOK(h, m), NEW o, Is(h, o, {"activation"}), NEW f, Is(h, f, {"function"})
  PROVE  HeapOK(Named(h, o, f), m) /\ Grows(h, Named(h, o, f))
<1> DEFINE id == Codes[h[f].code].id
           p == [v |-> f, del |-> FALSE, ro |-> TRUE]
<1>1. h[f].code \in DOMAIN Codes /\ f \in Nat
  BY HeapTypes, ThingFacts DEF HeapOK, Is
<1>2. id \in Names \cup {""}
  BY <1>1, CodeFacts
<1>3. CASE id = ""
  BY <1>3, GrowsNot DEF Named
<1>4. CASE id # ""
  <2>1. Named(h, o, f) = SetProperty(h, o, id, p)
    BY <1>4 DEF Named
  <2>2. p \in Attributes /\ p.v = f /\ ~p.del
    BY <1>1 DEF Attributes
  <2>3. o \in DOMAIN h /\ h[o].kind \in Holders /\ h[o].kind # "plain"
    BY DEF Is, Holders, Environments
  <2>4. id \in Names \cup Nat /\ Means(h, f)
    BY <1>2, <1>4 DEF Means
  <2> HIDE DEF id, p
  <2>5. QED BY <2>1, <2>2, <2>3, <2>4, SetPropertyOK
<1>5. QED BY <1>3, <1>4
-----------------------------------------------------------------------------
(* A collection.                                                           *)

\* What is in s refers only to what is in s
Closed(h, s) == \A i \in s : References(h, i) \cap DOMAIN h \subseteq s

LEMMA TraverseFacts ==
  ASSUME NEW s, NEW h, NEW y
  PROVE  y \in Traverse(s, h) <=> y \in s \/ (y \in DOMAIN h /\ \E i \in s : y \in References(h, i))
<1> DEFINE U == UNION {References(h, i) : i \in s}
<1>1. y \in U <=> \E i \in s : y \in References(h, i)
  OBVIOUS
<1>2. Traverse(s, h) = s \cup (DOMAIN h \cap U)
  BY DEF Traverse
<1> HIDE DEF U
<1>3. QED BY <1>1, <1>2

(* Each round of the traversal adds something or finds nothing to add.     *)
LEMMA ReachableFacts ==
  ASSUME IsFiniteSet(DOMAIN heap), Roots \subseteq DOMAIN heap
  PROVE  Roots \subseteq Reachable /\ Reachable \subseteq DOMAIN heap /\ Closed(heap, Reachable)
<1> DEFINE h == heap
           D == DOMAIN h
           R == Roots
           n == Cardinality(D)
           e == [k \in 1 .. n |-> h]
           Good(s) == R \subseteq s /\ s \subseteq D
           J == [k \in 0 .. n |-> {s \in SUBSET D : Good(s) /\ (Closed(h, s) \/ k <= Cardinality(s))}]
<1>1. n \in Nat /\ IsFiniteSet(D) /\ R \subseteq D
  BY FS_CardinalityType
<1>2. DOMAIN e = 1 .. n /\ \A k \in 1 .. n : e[k] = h
  OBVIOUS
<1>3. Reachable = TraverseFold!Folded(R, e)
  BY DEF Reachable, FoldLeft, MapThenFoldSet, Max, TraverseFold!Folded, TraverseFold!Greatest
<1> HIDE DEF h, R, e, n
<1>4. \A s \in SUBSET D : IsFiniteSet(s) /\ Cardinality(s) \in Nat
  BY <1>1, FS_Subset, FS_CardinalityType
<1>5. R \in J[0]
  <2>1. 0 \in 0 .. n
    BY <1>1
  <2>2. 0 <= Cardinality(R)
    BY <1>1, <1>4
  <2>3. QED BY <1>1, <2>1, <2>2
<1>6. ASSUME NEW k \in 1 .. n, NEW s \in J[k - 1]
      PROVE  Traverse(s, e[k]) \in J[k]
  <2> DEFINE t == Traverse(s, h)
             j == k - 1
  <2>1. j \in 0 .. n /\ k \in 0 .. n /\ j \in Nat /\ k \in Nat /\ k = j + 1
    BY <1>1
  <2> HIDE DEF j
  <2>2. s \in J[j]
    BY <2>1
  <2>3. s \in SUBSET D /\ Good(s) /\ (Closed(h, s) \/ j <= Cardinality(s))
    BY <2>1, <2>2
  <2>4. \A y : y \in t <=> y \in s \/ (y \in D /\ \E i \in s : y \in References(h, i))
    BY TraverseFacts
  <2> HIDE DEF t
  <2>5. s \subseteq t /\ t \in SUBSET D /\ Good(t)
    BY <2>3, <2>4
  <2>6. Closed(h, t) \/ k <= Cardinality(t)
    <3>1. CASE Closed(h, s)
      <4>1. \A y : y \in t <=> y \in s
        BY <2>4, <3>1 DEF Closed
      <4>2. t = s
        BY <4>1
      <4>3. QED BY <3>1, <4>2
    <3>2. CASE ~Closed(h, s)
      <4>1. PICK y \in D : y \in t /\ y \notin s
        BY <2>4, <3>2 DEF Closed
      <4>2. j <= Cardinality(s) /\ IsFiniteSet(s) /\ Cardinality(s) \in Nat
        BY <1>4, <2>3, <3>2
      <4>3. Cardinality(s \cup {y}) = Cardinality(s) + 1
        BY <4>1, <4>2, FS_AddElement
      <4>4. s \cup {y} \subseteq t /\ IsFiniteSet(t) /\ Cardinality(t) \in Nat
        BY <1>4, <2>5, <4>1
      <4>5. Cardinality(s \cup {y}) <= Cardinality(t)
        BY <4>4, FS_Subset
      <4>6. QED BY <2>1, <4>2, <4>3, <4>4, <4>5
    <3>3. QED BY <3>1, <3>2
  <2> HIDE DEF t, Good
  <2>7. t \in J[k]
    BY <2>1, <2>5, <2>6
  <2>8. QED BY <1>2, <2>7 DEF t
<1>7. \A k \in 1 .. n : \A s \in J[k - 1] : Traverse(s, e[k]) \in J[k]
  BY <1>6
<1>8. \A s \in J[n] : Good(s) /\ Closed(h, s)
  <2> SUFFICES ASSUME NEW s \in J[n] PROVE Good(s) /\ Closed(h, s)
    OBVIOUS
  <2>1. n \in 0 .. n
    BY <1>1
  <2>2. Good(s) /\ (Closed(h, s) \/ n <= Cardinality(s)) /\ s \in SUBSET D
    BY <2>1
  <2>3. CASE n <= Cardinality(s)
    <3>1. Cardinality(s) <= Cardinality(D) /\ Cardinality(s) \in Nat
      BY <1>1, <1>4, <2>2, FS_Subset
    <3>2. Cardinality(s) = Cardinality(D)
      BY <1>1, <2>3, <3>1 DEF n
    <3>3. s = D
      BY <1>1, <2>2, <3>2, FS_Subset
    <3>4. QED BY <2>2, <3>3 DEF Closed
  <2>4. QED BY <2>2, <2>3
<1> HIDE DEF J
<1>9. TraverseFold!Folded(R, e) \in J[n]
  BY <1>1, <1>2, <1>5, <1>7, TraverseFold!FoldInduction
<1>10. QED BY <1>3, <1>8, <1>9 DEF R, h

\* What is left of a heap
Collected(h, r) ==
  [i \in r |-> IF h[i].kind = "scope" THEN [h[i] EXCEPT !.vals = Kept(@, r)] ELSE h[i]]

LEMMA KeptFacts ==
  ASSUME NEW t \in Seq(Nat), NEW r
  PROVE  /\ Kept(t, r) \in Seq(Nat) /\ Len(Kept(t, r)) = Len(t) /\ DOMAIN Kept(t, r) = DOMAIN t
         /\ \A k \in DOMAIN t : Kept(t, r)[k] # Null => Kept(t, r)[k] = t[k] /\ t[k] \in r
<1>1. Len(t) \in Nat /\ DOMAIN t = 1 .. Len(t) /\ \A k \in 1 .. Len(t) : t[k] \in Nat
  BY LenProperties, ElementOfSeq
<1>2. Kept(t, r) = [k \in 1 .. Len(t) |-> IF t[k] \in r THEN t[k] ELSE Null]
  BY <1>1 DEF Kept
<1>3. Kept(t, r) \in [1 .. Len(t) -> Nat]
  BY <1>1, <1>2 DEF Null
<1>4. Kept(t, r) \in Seq(Nat)
  BY <1>1, <1>3, SeqDef
<1>5. QED BY <1>1, <1>2, <1>3, <1>4, LenProperties

LEMMA CollectedOK ==
  ASSUME NEW h, NEW m, HeapOK(h, m), NEW r \in SUBSET DOMAIN h, Closed(h, r),
         {Global} \cup DOMAIN Plain \subseteq r, NEW g, g = Collected(h, r)
  PROVE  /\ HeapOK(g, m) /\ DOMAIN g = r /\ \A i \in r : Keeps(h[i], g[i])
         /\ \A s \in ScopesOf(g) : g[s].env \in r
<1>1. /\ h \in Heaps /\ IsFiniteSet(DOMAIN h) /\ DOMAIN h \subseteq Nat \ {Null}
      /\ \A i \in DOMAIN h : h[i] \in Things /\ Refers(h, h[i])
  BY HeapTypes DEF HeapOK
<1>2. DOMAIN g = r /\ g = [i \in DOMAIN g |-> g[i]] /\ IsFiniteSet(r)
  BY <1>1, FS_Subset DEF Collected
<1>3. \A i \in r : h[i].kind # "scope" => g[i] = h[i]
  BY DEF Collected
<1>4. ASSUME NEW i \in r, h[i].kind = "scope"
      PROVE  /\ g[i] \in Things /\ g[i].kind = "scope" /\ g[i].env = h[i].env /\ g[i].prev = h[i].prev
             /\ g[i].funcs = h[i].funcs /\ g[i].vals = Kept(h[i].vals, r)
  <2>1. h[i] \in [kind : {"scope"}, env : Nat, prev : Nat, funcs : Seq(Addresses), vals : Seq(Nat)]
    BY <1>1, <1>4 DEF Things, Activations, Holders, Environments
  <2> DEFINE k == Kept(h[i].vals, r)
             x == [h[i] EXCEPT !.vals = k]
  <2>2. g[i] = x
    BY <1>4 DEF Collected
  <2>3. k \in Seq(Nat)
    BY <2>1, KeptFacts
  <2> HIDE DEF k
  <2>4. x \in [kind : {"scope"}, env : Nat, prev : Nat, funcs : Seq(Addresses), vals : Seq(Nat)]
        /\ x.kind = "scope" /\ x.env = h[i].env /\ x.prev = h[i].prev
        /\ x.funcs = h[i].funcs /\ x.vals = k
    BY <2>1, <2>3
  <2> HIDE DEF x
  <2>5. QED BY <2>2, <2>4 DEF Things, k
<1>5. \A i \in r : g[i] \in Things
  BY <1>1, <1>3, <1>4
<1>6. \A i \in r : Keeps(h[i], g[i])
  <2> SUFFICES ASSUME NEW i \in r PROVE Keeps(h[i], g[i])
    OBVIOUS
  <2>1. CASE h[i].kind = "scope"
    BY <1>4, <2>1 DEF Keeps
  <2>2. CASE h[i].kind # "scope"
    BY <1>3, <2>2, KeepsItself
  <2>3. QED BY <2>1, <2>2
<1>7. \A i \in r : \A kinds : Is(h, i, kinds) => Is(g, i, kinds)
  BY <1>2, <1>6 DEF Is, Keeps
<1>8. g \in Heaps
  <2>1. DOMAIN g \subseteq Nat \ {Null} /\ \A i \in DOMAIN g : g[i] \in Things
    BY <1>1, <1>2, <1>5
  <2>2. QED BY <1>2, <2>1, HeapType
<1>9. \A i \in r : References(h, i) \cap DOMAIN h \subseteq r
  BY DEF Closed
<1>10. ASSUME NEW i \in r, h[i].kind = "scope"
       PROVE  /\ h[i].env \in r /\ Is(h, h[i].env, Environments)
              /\ h[i].prev # Null => h[i].prev \in r /\ Is(h, h[i].prev, {"scope"})
              /\ \A v \in ToSet(h[i].vals) \ {Null} : Is(h, v, {"function"})
              /\ h[i].vals \in Seq(Nat) /\ h[i].funcs \in Seq(Addresses)
  <2>1. References(h, i) = {h[i].env, h[i].prev}
    BY <1>10 DEF References
  <2>2. Refers(h, h[i]) /\ h[i] \in Things
    BY <1>1
  <2>3. Is(h, h[i].env, Environments) /\ (h[i].prev # Null => Is(h, h[i].prev, {"scope"}))
        /\ \A v \in ToSet(h[i].vals) \ {Null} : Is(h, v, {"function"})
    BY <1>10, <2>2 DEF Refers
  <2>4. QED BY <1>9, <1>10, <2>1, <2>2, <2>3, ThingFacts DEF Is
<1>11. ASSUME NEW i \in r PROVE Refers(g, g[i])
  <2>1. CASE h[i].kind = "scope"
    <3>1. Is(g, g[i].env, Environments) /\ (g[i].prev # Null => Is(g, g[i].prev, {"scope"}))
      BY <1>4, <1>7, <1>10, <2>1
    <3>2. ASSUME NEW v \in ToSet(g[i].vals) \ {Null} PROVE Is(g, v, {"function"})
      <4> DEFINE t == h[i].vals
      <4>1. t \in Seq(Nat) /\ g[i].vals = Kept(t, r) /\ \A u \in ToSet(t) \ {Null} : Is(h, u, {"function"})
        BY <1>4, <1>10, <2>1
      <4> HIDE DEF t
      <4>2. PICK k \in DOMAIN t : v = Kept(t, r)[k]
        BY <3>2, <4>1, KeptFacts DEF ToSet
      <4>3. v = t[k] /\ v \in r /\ v \in ToSet(t) \ {Null}
        BY <3>2, <4>1, <4>2, KeptFacts DEF ToSet
      <4>4. QED BY <1>7, <4>1, <4>3
    <3>3. g[i].kind = "scope"
      BY <1>4, <2>1
    <3>4. QED BY <3>1, <3>2, <3>3 DEF Refers, Environments
  <2>2. CASE h[i].kind = "function"
    <3>1. References(h, i) = {h[i].scope} /\ g[i] = h[i]
      BY <1>3, <2>2 DEF References
    <3>2. Is(h, h[i].scope, {"scope"})
      BY <1>1, <2>2 DEF Refers
    <3>3. h[i].scope \in r
      BY <1>9, <3>1, <3>2 DEF Is
    <3>4. Is(g, g[i].scope, {"scope"})
      BY <1>7, <3>1, <3>2, <3>3
    <3>5. QED BY <2>2, <3>1, <3>4 DEF Refers, Environments
  <2>3. CASE h[i].kind \in Holders
    <3>1. References(h, i) = {h[i].props[x].v : x \in DOMAIN h[i].props}
            \cup (IF h[i].kind = "activation" THEN {h[i].args} ELSE {}) /\ g[i] = h[i]
      BY <1>3, <2>3 DEF References, Holders, Environments
    <3>2. h[i].kind = "activation" => Is(h, h[i].args, {"arguments"})
      BY <1>1 DEF Refers
    <3>3. h[i].kind = "activation" => Is(g, h[i].args, {"arguments"})
      BY <1>7, <1>9, <3>1, <3>2 DEF Is
    <3>4. ASSUME NEW y \in DOMAIN h[i].props
          PROVE  h[i].props[y].v \in Values \/ Is(g, h[i].props[y].v, {"function"})
      <4> DEFINE v == h[i].props[y].v
      <4>1. v \in Values \/ Is(h, v, {"function"})
        BY <1>1, <2>3 DEF Refers, Holders
      <4>2. v \in References(h, i)
        BY <3>1
      <4> HIDE DEF v
      <4>3. Is(h, v, {"function"}) => v \in r
        BY <1>9, <4>2 DEF Is
      <4>4. QED BY <1>7, <4>1, <4>3 DEF v
    <3>5. QED BY <2>3, <3>1, <3>3, <3>4 DEF Refers, Holders, Environments
  <2>4. QED BY <1>1, <2>1, <2>2, <2>3, ThingFacts
<1>12. ScopesOf(g) = ScopesOf(h) \cap r
  <2>1. \A i \in r : g[i].kind = h[i].kind
    BY <1>6 DEF Keeps
  <2>2. QED BY <1>2, <2>1 DEF ScopesOf
<1>13. ASSUME NEW s \in ScopesOf(g)
       PROVE  CacheOK(g, s, g[s], m) /\ (g[s].prev = Null => g[s].env = Global)
  <2> DEFINE t == h[s].vals
  <2>1. s \in r /\ h[s].kind = "scope" /\ s \in ScopesOf(h)
    BY <1>12 DEF ScopesOf
  <2>2. g[s].funcs = h[s].funcs /\ g[s].vals = Kept(t, r) /\ t \in Seq(Nat) /\ g[s].prev = h[s].prev
        /\ g[s].env = h[s].env
    BY <1>4, <1>10, <2>1
  <2>3. CacheOK(h, s, h[s], m) /\ (h[s].prev = Null => h[s].env = Global)
    BY <2>1, ScopeFacts
  <2>4. Len(h[s].funcs) = Len(t) /\ IsInjective(h[s].funcs)
        /\ \A k \in DOMAIN t : t[k] # Null => h[t[k]].scope = s /\ Stands(m, h[s].funcs[k], h[t[k]].code)
    BY <2>3 DEF CacheOK
  <2>5. \A v \in ToSet(t) \ {Null} : Is(h, v, {"function"})
    BY <1>10, <2>1
  <2> HIDE DEF t
  <2>6. /\ Len(Kept(t, r)) = Len(t) /\ DOMAIN Kept(t, r) = DOMAIN t
        /\ \A k \in DOMAIN t : Kept(t, r)[k] # Null => Kept(t, r)[k] = t[k] /\ t[k] \in r
    BY <2>2, KeptFacts
  <2>7. ASSUME NEW k \in DOMAIN g[s].vals, g[s].vals[k] # Null
        PROVE  g[g[s].vals[k]].scope = s /\ Stands(m, g[s].funcs[k], g[g[s].vals[k]].code)
    <3>1. k \in DOMAIN t /\ g[s].vals[k] = t[k] /\ t[k] \in r /\ t[k] # Null
      BY <2>2, <2>6, <2>7
    <3>2. t[k] \in ToSet(t) \ {Null}
      BY <3>1 DEF ToSet
    <3>3. g[t[k]] = h[t[k]]
      BY <1>3, <2>5, <3>1, <3>2 DEF Is
    <3>4. QED BY <2>2, <2>4, <3>1, <3>3
  <2>8. CacheOK(g, s, g[s], m)
    BY <2>2, <2>4, <2>6, <2>7 DEF CacheOK
  <2>9. QED BY <2>2, <2>3, <2>8
<1>14. Ranked(g)
  <2>0. PICK k : \E rank : Ranks(h, k, rank)
    BY DEF HeapOK, Ranked, Ranks
  <2>1. PICK rank : Ranks(h, k, rank)
    BY <2>0
  <2> DEFINE q == [i \in r |-> rank[i]]
  <2>2. q \in [DOMAIN g -> 0 .. k] /\ k \in Nat
    BY <1>2, <2>1 DEF Ranks
  <2>3. ASSUME NEW s \in ScopesOf(g), g[s].prev # Null PROVE q[g[s].prev] < q[s]
    <3>1. s \in r /\ h[s].kind = "scope" /\ s \in ScopesOf(h)
      BY <1>12 DEF ScopesOf
    <3>2. g[s].prev = h[s].prev /\ h[s].prev \in r
      BY <1>4, <1>10, <2>3, <3>1
    <3>3. QED BY <2>1, <2>3, <3>1, <3>2 DEF Ranks
  <2> HIDE DEF q
  <2>4. QED BY <2>2, <2>3 DEF Ranked
<1>15. Is(g, Global, {"global"}) /\ \A o \in DOMAIN Plain : Is(g, o, {"plain"})
  BY <1>7 DEF HeapOK
<1>16. HeapOK(g, m)
  BY <1>2, <1>8, <1>11, <1>13, <1>14, <1>15 DEF HeapOK
<1>17. \A s \in ScopesOf(g) : g[s].env \in r
  BY <1>4, <1>10, <1>12 DEF ScopesOf
<1>18. QED BY <1>2, <1>6, <1>16, <1>17
-----------------------------------------------------------------------------
(* Addresses.                                                              *)

\* The definitions of the frames are at addresses that mean them
MeansFrames(m) == \A k \in DOMAIN frames : \A d \in DOMAIN frames[k].at : Stands(m, frames[k].at[d], d)

LEMMA MeaningFacts ==
  ASSUME NEW m \in Meanings
  PROVE  m \in [Addresses -> Addresses] /\ \A c \in DOMAIN Codes : c \in Addresses /\ m[c] = c
BY DEF Meanings, Addresses

(* A text for eval is parsed to addresses that mean nothing yet, where     *)
(* trees are not reused: they can mean its definitions.                    *)
LEMMA ParsedAnew ==
  ASSUME NEW m \in Meanings, HeapOK(heap, m), MeansFrames(m), \A k \in DOMAIN frames : FrameOK(frames[k]),
         NEW code \in DOMAIN Codes, NEW at \in Parsed(heap, code), ~TreesReused
  PROVE  /\ at \in [Definitions(code) -> Addresses]
         /\ \E n \in Meanings : /\ HeapOK(heap, n) /\ MeansFrames(n)
                                /\ \A d \in Definitions(code) : Stands(n, at[d], d)
<1> DEFINE A == UNION {Range(frames[k].at) : k \in DOMAIN frames}
           B == UNION {ToSet(heap[i].funcs) : i \in ScopesOf(heap)}
           n == [a \in Addresses |-> IF \E d \in Definitions(code) : at[d] = a
                                     THEN CHOOSE d \in Definitions(code) : at[d] = a ELSE m[a]]
<1>1. at \in [Definitions(code) -> Nodes \ (A \cup B)] /\ IsInjective(at)
  BY DEF Parsed
<1>2. \A k \in DOMAIN frames : \A d \in DOMAIN frames[k].at : frames[k].at[d] \in A
  BY DEF Range
<1>3. \A i \in ScopesOf(heap) : \A k \in DOMAIN heap[i].funcs : heap[i].funcs[k] \in B
  BY DEF ToSet
<1> HIDE DEF A, B
<1>4. at \in [Definitions(code) -> Addresses]
  BY <1>1 DEF Addresses
<1>5. \A d \in Definitions(code) : at[d] \in Nodes /\ at[d] \notin A /\ at[d] \notin B
  BY <1>1
<1>6. \A d \in Definitions(code) : d \in Addresses
  BY CodeFacts DEF Addresses
<1>7. DOMAIN n = Addresses
  OBVIOUS
<1>8. \A a \in Addresses : (\A d \in Definitions(code) : at[d] # a) => n[a] = m[a]
  OBVIOUS
<1>9. ASSUME NEW d \in Definitions(code) PROVE n[at[d]] = d
  <2>1. DOMAIN at = Definitions(code) /\ at[d] \in Addresses
    BY <1>4
  <2>2. \A e \in Definitions(code) : at[e] = at[d] => e = d
    BY <1>1, <2>1 DEF IsInjective
  <2>3. (CHOOSE e \in Definitions(code) : at[e] = at[d]) = d
    BY <2>2
  <2>4. QED BY <2>1, <2>3
<1>10. \A a \in Addresses : n[a] \in Addresses
  <2> SUFFICES ASSUME NEW a \in Addresses PROVE n[a] \in Addresses
    OBVIOUS
  <2>1. CASE \E d \in Definitions(code) : at[d] = a
    BY <1>6, <1>9, <2>1
  <2>2. CASE \A d \in Definitions(code) : at[d] # a
    BY <1>8, <2>2, MeaningFacts
  <2>3. QED BY <2>1, <2>2
<1>11. n \in [Addresses -> Addresses]
  <2>1. n = [a \in Addresses |-> n[a]]
    OBVIOUS
  <2> HIDE DEF n
  <2>2. QED BY <1>10, <2>1
<1> HIDE DEF n
<1>12. n \in Meanings
  <2>1. \A c \in DOMAIN Codes : n[c] = m[c]
    <3>1. \A c \in DOMAIN Codes : c \notin Nodes /\ c \in Addresses
      BY ScopesAssumption DEF Addresses
    <3>2. QED BY <1>5, <1>8, <3>1
  <2>2. \A c \in DOMAIN Codes : n[c] = c
    BY <2>1, MeaningFacts
  <2>3. QED BY <1>11, <2>2 DEF Meanings
<1>13. ASSUME NEW s \in ScopesOf(heap) PROVE CacheOK(heap, s, heap[s], n)
  <2> DEFINE x == heap[s]
  <2>1. CacheOK(heap, s, x, m) /\ x.funcs \in Seq(Addresses) /\ x.vals \in Seq(Nat)
    BY ScopeFacts
  <2>2. \A k \in DOMAIN x.funcs : x.funcs[k] \in B
    BY <1>3
  <2> HIDE DEF x
  <2>3. Len(x.funcs) = Len(x.vals) /\ IsInjective(x.funcs)
    BY <2>1 DEF CacheOK
  <2>4. DOMAIN x.funcs = DOMAIN x.vals
    BY <2>1, <2>3, LenProperties
  <2>5. \A k \in DOMAIN x.funcs : x.funcs[k] \in Addresses
    BY <2>1, ElementOfSeq, LenProperties
  <2>6. \A k \in DOMAIN x.funcs : n[x.funcs[k]] = m[x.funcs[k]]
    BY <1>5, <1>8, <2>2, <2>5
  <2>7. CacheOK(heap, s, x, n)
    BY <2>1, <2>3, <2>4, <2>6 DEF CacheOK, Stands
  <2>8. QED BY <2>7 DEF x
<1>14. HeapOK(heap, n)
  BY <1>13 DEF HeapOK
<1>15. MeansFrames(n)
  <2> SUFFICES ASSUME NEW k \in DOMAIN frames, NEW d \in DOMAIN frames[k].at
               PROVE  n[frames[k].at[d]] = d
    BY DEF MeansFrames, Stands
  <2>1. m[frames[k].at[d]] = d /\ frames[k].at[d] \in A
    BY <1>2 DEF MeansFrames, Stands
  <2>2. frames[k].at[d] \in Addresses => n[frames[k].at[d]] = m[frames[k].at[d]]
    BY <1>5, <1>8, <2>1
  <2>3. frames[k].at[d] \in Addresses
    <3> DEFINE f == frames[k]
    <3>1. FrameOK(f) /\ d \in DOMAIN f.at
      OBVIOUS
    <3> HIDE DEF f
    <3>2. f.at[d] \in Addresses
      BY <3>1 DEF FrameOK
    <3>3. QED BY <3>2 DEF f
  <2>4. QED BY <2>1, <2>2, <2>3
<1>16. \A d \in Definitions(code) : Stands(n, at[d], d)
  BY <1>9 DEF Stands
<1>17. QED BY <1>4, <1>12, <1>14, <1>15, <1>16

\* Where they are, what its addresses mean is not said
LEMMA ParsedOK ==
  ASSUME NEW m \in Meanings, HeapOK(heap, m), MeansFrames(m), \A k \in DOMAIN frames : FrameOK(frames[k]),
         NEW code \in DOMAIN Codes, NEW at \in Parsed(heap, code)
  PROVE  /\ at \in [Definitions(code) -> Addresses]
         /\ \E n \in Meanings : /\ HeapOK(heap, n) /\ MeansFrames(n)
                                /\ \A d \in Definitions(code) : Stands(n, at[d], d)
<1>1. CASE ~TreesReused
  BY <1>1, ParsedAnew
<1>2. CASE TreesReused
  <2>1. at \in [Definitions(code) -> Addresses]
    BY DEF Parsed, Addresses
  <2>2. \A d \in Definitions(code) : Stands(m, at[d], d)
    BY <1>2 DEF Stands
  <2>3. QED BY <2>1, <2>2
<1>3. QED BY <1>1, <1>2
-----------------------------------------------------------------------------
(* The frames, as a stack fs over the scope a that runs, in strict mode b. *)

FrameFits(h, fs, k) ==
  /\ FrameOK(fs[k])
  /\ \A s \in ToSet(fs[k].saved) : Is(h, s, {"scope"})
  /\ Suits(h, Head(fs[k].saved), IF k = 1 THEN "program" ELSE fs[k - 1].kind, fs[k].strict)

Stack(h, fs, a, b) ==
  /\ fs \in Seq(ToSet(fs)) /\ b \in BOOLEAN
  /\ Is(h, a, {"scope"}) /\ Suits(h, a, IF fs # <<>> THEN Last(fs).kind ELSE "program", b)
  /\ \A k \in DOMAIN fs : FrameFits(h, fs, k)

LEMMA StackIs ==
  /\ FramesInv => Stack(heap, frames, active, strict)
  /\ Stack(heap', frames', active', strict') => FramesInv'
<1>1. FramesInv => Stack(heap, frames, active, strict)
  BY DEF FramesInv, Stack, FrameFits, Below, CodeInItsScope, Inside
<1>2. Stack(heap', frames', active', strict') => FramesInv'
  BY DEF FramesInv, Stack, FrameFits, Below, CodeInItsScope, Inside
<1>3. QED BY <1>1, <1>2

LEMMA SeqRange ==
  ASSUME NEW S, NEW t \in Seq(S)
  PROVE  t \in Seq(ToSet(t))
<1>1. Len(t) \in Nat /\ DOMAIN t = 1 .. Len(t) /\ t = [i \in 1 .. Len(t) |-> t[i]]
  BY LenProperties, SeqDef
<1>2. t \in [1 .. Len(t) -> ToSet(t)]
  BY <1>1 DEF ToSet
<1>3. QED BY <1>1, <1>2, SeqDef

LEMMA HeadFacts ==
  ASSUME NEW S, NEW t \in Seq(S), t # <<>>
  PROVE  Head(t) = t[1] /\ Head(t) \in ToSet(t) /\ Len(t) \in Nat /\ Len(t) >= 1 /\ DOMAIN t = 1 .. Len(t)
<1>1. Len(t) \in Nat /\ DOMAIN t = 1 .. Len(t) /\ Len(t) # 0
  BY LenProperties, EmptySeq
<1>2. Head(t) = t[1] /\ Len(t) >= 1
  BY <1>1, HeadTailProperties
<1>3. 1 \in DOMAIN t
  BY <1>1, <1>2
<1>4. QED BY <1>1, <1>2, <1>3 DEF ToSet

\* A scope that stays what it is
SameScope(h, g, s) ==
  /\ Is(g, s, {"scope"}) /\ g[s].env = h[s].env /\ g[s].prev = h[s].prev
  /\ g[g[s].env].kind = h[h[s].env].kind

LEMMA SameSuits ==
  ASSUME NEW h, NEW g, NEW s, SameScope(h, g, s), NEW kind, NEW b, Suits(h, s, kind, b)
  PROVE  Suits(g, s, kind, b)
BY DEF SameScope, Suits

LEMMA GrowsSame ==
  ASSUME NEW h, NEW m, HeapOK(h, m), NEW g, Grows(h, g), NEW s, Is(h, s, {"scope"})
  PROVE  SameScope(h, g, s)
<1>1. s \in ScopesOf(h)
  BY DEF Is, ScopesOf
<1>2. Is(h, h[s].env, Environments) /\ s \in ScopesOf(g) /\ g[s].env = h[s].env /\ g[s].prev = h[s].prev
  BY <1>1, ScopeFacts, ScopeKept
<1>3. QED BY <1>2 DEF SameScope, Is, ScopesOf, Grows, Keeps

Held(fs, a) == {a} \cup UNION {ToSet(fs[k].saved) : k \in DOMAIN fs}

LEMMA HeldFacts ==
  ASSUME NEW h, NEW fs, NEW a, NEW b, Stack(h, fs, a, b), NEW s \in Held(fs, a)
  PROVE  Is(h, s, {"scope"})
BY DEF Held, Stack, FrameFits

LEMMA StackSame ==
  ASSUME NEW h, NEW g, NEW fs, NEW a, NEW b, Stack(h, fs, a, b),
         \A s \in Held(fs, a) : SameScope(h, g, s)
  PROVE  Stack(g, fs, a, b)
<1>1. SameScope(h, g, a)
  BY DEF Held
<1>2. Is(g, a, {"scope"}) /\ Suits(g, a, IF fs # <<>> THEN Last(fs).kind ELSE "program", b)
  BY <1>1, SameSuits DEF Stack, SameScope
<1>3. ASSUME NEW k \in DOMAIN fs PROVE FrameFits(g, fs, k)
  <2> DEFINE t == fs[k].saved
             kind == IF k = 1 THEN "program" ELSE fs[k - 1].kind
  <2>1. FrameOK(fs[k]) /\ t \in Seq(Nat) /\ t # <<>> /\ Suits(h, Head(t), kind, fs[k].strict)
    BY DEF Stack, FrameFits, FrameOK
  <2>2. \A s \in ToSet(t) : SameScope(h, g, s)
    BY DEF Held
  <2> HIDE DEF t, kind
  <2>3. Head(t) \in ToSet(t)
    BY <2>1, HeadFacts
  <2>4. Suits(g, Head(t), kind, fs[k].strict)
    BY <2>1, <2>2, <2>3, SameSuits
  <2>5. \A s \in ToSet(t) : Is(g, s, {"scope"})
    BY <2>2 DEF SameScope
  <2>6. QED BY <2>1, <2>4, <2>5 DEF FrameFits, t, kind
<1>4. QED BY <1>2, <1>3 DEF Stack

LEMMA StackGrows ==
  ASSUME NEW h, NEW m, HeapOK(h, m), NEW g, Grows(h, g), NEW fs, NEW a, NEW b, Stack(h, fs, a, b)
  PROVE  Stack(g, fs, a, b)
<1>1. \A s \in Held(fs, a) : SameScope(h, g, s)
  BY HeldFacts, GrowsSame
<1>2. QED BY <1>1, StackSame

\* A frame f starts, in scope s
LEMMA Pushed ==
  ASSUME NEW h, NEW fs, NEW a, NEW b, Stack(h, fs, a, b), NEW f, FrameOK(f),
         \A s \in ToSet(f.saved) : Is(h, s, {"scope"}), Head(f.saved) = a, f.strict = b,
         NEW s, Is(h, s, {"scope"}), NEW c \in BOOLEAN, Suits(h, s, f.kind, c)
  PROVE  Stack(h, Append(fs, f), s, c)
<1> DEFINE n == Len(fs)
           S == ToSet(fs) \cup {f}
           gs == Append(fs, f)
<1>1. fs \in Seq(ToSet(fs))
  BY DEF Stack
<1>2. fs \in Seq(S) /\ f \in S /\ DOMAIN fs = 1 .. n /\ n \in Nat
  <2>1. n \in Nat /\ DOMAIN fs = 1 .. n
    BY <1>1, LenProperties
  <2>2. fs \in [1 .. n -> ToSet(fs)]
    BY <1>1, LenProperties
  <2>3. fs \in [1 .. n -> S]
    BY <2>2
  <2>4. QED BY <2>1, <2>3, SeqDef
<1>3. gs \in Seq(S) /\ Len(gs) = n + 1 /\ (\A i \in 1 .. n : gs[i] = fs[i]) /\ gs[n + 1] = f
  BY <1>2, AppendProperties
<1>4. gs \in Seq(ToSet(gs)) /\ DOMAIN gs = 1 .. n + 1
  BY <1>3, SeqRange, LenProperties
<1>5. gs # <<>> /\ Last(gs) = f
  <2>1. Len(gs) # 0 /\ Len(<<>>) = 0
    BY <1>2, <1>3
  <2>2. QED BY <1>3, <2>1 DEF Last
<1> HIDE DEF gs, S
<1>6. ASSUME NEW k \in 1 .. n PROVE FrameFits(h, gs, k)
  <2>1. FrameFits(h, fs, k) /\ gs[k] = fs[k]
    BY <1>2, <1>3 DEF Stack
  <2>2. k # 1 => gs[k - 1] = fs[k - 1]
    BY <1>2, <1>3
  <2>3. QED BY <2>1, <2>2 DEF FrameFits
<1>7. FrameFits(h, gs, n + 1)
  <2> DEFINE j == n + 1
             kind == IF j = 1 THEN "program" ELSE gs[j - 1].kind
  <2>1. gs[j] = f
    BY <1>3
  <2>2. kind = IF fs # <<>> THEN Last(fs).kind ELSE "program"
    <3>1. CASE n = 0
      <4>1. fs = <<>>
        BY <1>1, <3>1, EmptySeq
      <4>2. j = 1
        BY <3>1
      <4>3. QED BY <4>1, <4>2
    <3>2. CASE n # 0
      <4>1. fs # <<>>
        BY <3>2, LenProperties
      <4>2. j # 1 /\ j - 1 = n /\ gs[n] = fs[n]
        BY <1>2, <1>3, <3>2
      <4>3. QED BY <4>1, <4>2 DEF Last
    <3>3. QED BY <3>1, <3>2
  <2>3. Suits(h, a, kind, b)
    BY <2>2 DEF Stack
  <2> HIDE DEF kind, j
  <2>4. FrameFits(h, gs, j)
    BY <2>1, <2>3 DEF FrameFits, kind
  <2>5. QED BY <2>4 DEF j
<1>8. \A k \in DOMAIN gs : FrameFits(h, gs, k)
  <2>1. 1 .. n + 1 = (1 .. n) \cup {n + 1}
    BY <1>2
  <2>2. QED BY <1>4, <1>6, <1>7, <2>1
<1>9. Stack(h, gs, s, c)
  BY <1>4, <1>5, <1>8 DEF Stack
<1>10. QED BY <1>9 DEF gs

\* The last frame ends
LEMMA Popped ==
  ASSUME NEW h, NEW fs, NEW a, NEW b, Stack(h, fs, a, b), fs # <<>>
  PROVE  Stack(h, Front(fs), Head(Last(fs).saved), Last(fs).strict)
<1> DEFINE n == Len(fs)
           S == ToSet(fs)
           m == n - 1
           gs == SubSeq(fs, 1, m)
           f == Last(fs)
           t == f.saved
<1>1. fs \in Seq(S) /\ n \in Nat /\ n >= 1 /\ DOMAIN fs = 1 .. n /\ f = fs[n] /\ Front(fs) = gs
  BY HeadFacts DEF Stack, Last, Front
<1>2. n \in DOMAIN fs
  BY <1>1
<1>3. FrameFits(h, fs, n) /\ FrameOK(f)
  BY <1>1, <1>2 DEF Stack, FrameFits
<1>4. t \in Seq(Nat) /\ t # <<>>
  BY <1>3 DEF FrameOK
<1>5. Head(t) \in ToSet(t)
  BY <1>4, HeadFacts
<1>6. Is(h, Head(t), {"scope"}) /\ Suits(h, Head(t), IF n = 1 THEN "program" ELSE fs[n - 1].kind, f.strict)
  BY <1>1, <1>3, <1>5 DEF FrameFits
<1>7. m \in Nat /\ m <= n /\ n = m + 1
  BY <1>1
<1>8. gs \in Seq(S) /\ Len(gs) = m /\ DOMAIN gs = 1 .. m /\ \A i \in 1 .. m : gs[i] = fs[i]
  <2>1. \A i \in 1 .. m : fs[i] \in S
    BY <1>1, <1>7 DEF ToSet
  <2>2. 1 \in Int /\ m \in Int
    BY <1>7
  <2> HIDE DEF m, S
  <2>3. /\ gs \in Seq(S) /\ Len(gs) = (IF 1 <= m THEN m - 1 + 1 ELSE 0)
        /\ \A i \in 1 .. m - 1 + 1 : gs[i] = fs[1 + i - 1]
    BY <2>1, <2>2, SubSeqProperties
  <2>4. m - 1 + 1 = m /\ \A i \in 1 .. m : 1 + i - 1 = i
    BY <1>7
  <2> HIDE DEF gs
  <2>5. Len(gs) = m
    BY <1>7, <2>3, <2>4
  <2>6. QED BY <2>3, <2>4, <2>5, LenProperties
<1> HIDE DEF m, gs, S, f, t
<1>9. gs \in Seq(ToSet(gs))
  BY <1>8, SeqRange
<1>10. (IF gs # <<>> THEN Last(gs).kind ELSE "program") = IF n = 1 THEN "program" ELSE fs[n - 1].kind
  <2>1. CASE m = 0
    <3>1. gs = <<>> /\ n = 1
      BY <1>7, <1>8, <2>1, EmptySeq
    <3>2. QED BY <3>1
  <2>2. CASE m # 0
    <3>1. gs # <<>>
      BY <1>8, <2>2, LenProperties
    <3>2. m \in 1 .. m /\ n # 1 /\ n - 1 = m
      BY <1>7, <2>2
    <3>3. Last(gs) = fs[m]
      BY <1>8, <3>2 DEF Last
    <3>4. QED BY <3>1, <3>2, <3>3
  <2>3. QED BY <2>1, <2>2
<1>11. ASSUME NEW k \in 1 .. m PROVE FrameFits(h, gs, k)
  <2>1. k \in DOMAIN fs /\ gs[k] = fs[k] /\ (k # 1 => gs[k - 1] = fs[k - 1])
    BY <1>1, <1>7, <1>8
  <2>2. FrameFits(h, fs, k)
    BY <2>1 DEF Stack
  <2>3. QED BY <2>1, <2>2 DEF FrameFits
<1>12. Suits(h, Head(t), IF gs # <<>> THEN Last(gs).kind ELSE "program", f.strict)
  BY <1>6, <1>10
<1>13. Stack(h, gs, Head(t), f.strict)
  BY <1>3, <1>6, <1>8, <1>9, <1>11, <1>12 DEF Stack, FrameOK
<1>14. QED BY <1>1, <1>13 DEF f, t
-----------------------------------------------------------------------------
(* Steps.                                                                  *)

\* The invariant, with what addresses mean
Good(m) == FramesInv /\ m \in Meanings /\ HeapOK(heap, m) /\ MeansFrames(m)

\* What every step does
Step ==
  /\ ScopesInv'
  /\ \A i \in DOMAIN heap \cap DOMAIN heap' : Keeps(heap[i], heap'[i])

LEMMA GoodFacts ==
  ASSUME NEW m, Good(m)
  PROVE  /\ Stack(heap, frames, active, strict) /\ active \in ScopesOf(heap) /\ strict \in BOOLEAN
         /\ heap \in Heaps /\ \A k \in DOMAIN frames : FrameOK(frames[k])
<1>1. Stack(heap, frames, active, strict)
  BY StackIs DEF Good
<1>2. QED BY <1>1 DEF Good, HeapOK, Stack, FrameFits, ScopesOf, Is

LEMMA StepIs ==
  ASSUME NEW m, m \in Meanings, HeapOK(heap', m), Stack(heap', frames', active', strict'),
         \A k \in DOMAIN frames' : \A d \in DOMAIN frames'[k].at : Stands(m, frames'[k].at[d], d)
  PROVE  ScopesInv'
<1>1. FramesInv'
  BY StackIs
<1>2. QED BY <1>1 DEF ScopesInv

\* The heap becomes another one
LEMMA Becomes ==
  ASSUME NEW m, Good(m), NEW h, HeapOK(h, m), Grows(heap, h), Become(h)
  PROVE  Step
<1>1. heap' = h /\ frames' = frames /\ active' = active /\ strict' = strict
  BY DEF Become
<1>2. Stack(h, frames, active, strict)
  BY GoodFacts, StackGrows DEF Good
<1>3. ScopesInv'
  BY <1>1, <1>2, StepIs DEF Good, MeansFrames
<1>4. QED BY <1>1, <1>3 DEF Step, Grows

\* A frame starts
LEMMA Enters ==
  ASSUME NEW m, Good(m), NEW h, HeapOK(h, m), Grows(heap, h), NEW s \in ScopesOf(h),
         NEW f, FrameOK(f), \A t \in ToSet(f.saved) : Is(h, t, {"scope"}), Head(f.saved) = active,
         f.strict = strict, \A d \in DOMAIN f.at : Stands(m, f.at[d], d),
         NEW c \in BOOLEAN, Suits(h, s, f.kind, c), Enter(h, s, f, c)
  PROVE  Step
<1>1. heap' = h /\ frames' = Append(frames, f) /\ active' = s /\ strict' = c
  BY DEF Enter
<1>2. Stack(heap, frames, active, strict)
  BY GoodFacts
<1>3. Stack(h, frames, active, strict)
  BY <1>2, StackGrows DEF Good
<1>4. Is(h, s, {"scope"})
  BY DEF Is, ScopesOf
<1>5. Stack(h, Append(frames, f), s, c)
  BY <1>3, <1>4, Pushed
<1>6. \A k \in DOMAIN frames' : \A d \in DOMAIN frames'[k].at : Stands(m, frames'[k].at[d], d)
  <2>1. frames \in Seq(ToSet(frames))
    BY <1>2 DEF Stack
  <2>2. Len(frames) \in Nat /\ DOMAIN frames = 1 .. Len(frames)
    BY <2>1, LenProperties
  <2>3. \A k \in DOMAIN frames' : (k \in DOMAIN frames /\ frames'[k] = frames[k]) \/ frames'[k] = f
    <3>1. Stack(h, frames', s, c)
      BY <1>1, <1>5
    <3> DEFINE S == ToSet(frames) \cup {f}
               n == Len(frames)
    <3>2. frames \in [1 .. n -> ToSet(frames)]
      BY <2>1, LenProperties
    <3>3. frames \in [1 .. n -> S] /\ n \in Nat
      BY <2>2, <3>2
    <3>4. frames \in Seq(S) /\ f \in S
      BY <3>3, SeqDef
    <3> HIDE DEF S
    <3>5. /\ frames' \in Seq(S) /\ Len(frames') = n + 1 /\ frames'[n + 1] = f
          /\ \A i \in 1 .. n : frames'[i] = frames[i]
      BY <1>1, <3>4, AppendProperties
    <3>6. DOMAIN frames' = 1 .. n + 1
      BY <3>5, LenProperties
    <3>7. 1 .. n + 1 = (1 .. n) \cup {n + 1}
      BY <3>3
    <3>8. QED BY <2>2, <3>5, <3>6, <3>7
  <2>4. QED BY <2>3 DEF Good, MeansFrames
<1>7. ScopesInv'
  BY <1>1, <1>5, <1>6, StepIs DEF Good
<1>8. QED BY <1>1, <1>7 DEF Step, Grows
-----------------------------------------------------------------------------
(* Calls, eval and blocks.                                                 *)

LEMMA FrameFacts ==
  ASSUME NEW kind, NEW code \in DOMAIN Codes, NEW at \in [Definitions(code) -> Addresses],
         NEW saved \in Seq(Nat), saved # <<>>, strict \in BOOLEAN
  PROVE  LET f == Frame(kind, code, at, saved)
         IN  /\ FrameOK(f) /\ f.saved = saved /\ f.strict = strict /\ f.kind = kind
             /\ f.at = at /\ DOMAIN f.at = Definitions(code)
BY DEF Frame, FrameOK

LEMMA SavedFacts ==
  ASSUME NEW a \in Nat
  PROVE  /\ <<a>> \in Seq(Nat) /\ <<a>> # <<>> /\ Head(<<a>>) = a /\ ToSet(<<a>>) = {a}
         /\ <<a>> \o <<>> = <<a>>
         /\ \A b \in Nat : LET t == <<a>> \o <<b>>
                           IN  t \in Seq(Nat) /\ t # <<>> /\ Head(t) = a /\ ToSet(t) = {a, b}
<1>1. <<a>> \in Seq(Nat) /\ <<a>> # <<>> /\ Head(<<a>>) = a /\ Len(<<a>>) = 1 /\ <<a>>[1] = a
  OBVIOUS
<1>2. DOMAIN <<a>> = {1}
  BY <1>1, LenProperties
<1>3. ToSet(<<a>>) = {a}
  BY <1>1, <1>2 DEF ToSet
<1>4. <<a>> \o <<>> = <<a>>
  BY <1>1, ConcatEmptySeq
<1>5. ASSUME NEW b \in Nat
      PROVE  LET t == <<a>> \o <<b>>
             IN  t \in Seq(Nat) /\ t # <<>> /\ Head(t) = a /\ ToSet(t) = {a, b}
  <2> DEFINE u == <<a>>
             v == <<b>>
             t == u \o v
  <2>1. u \in Seq(Nat) /\ v \in Seq(Nat) /\ Len(u) = 1 /\ Len(v) = 1 /\ u[1] = a /\ v[1] = b
    OBVIOUS
  <2> HIDE DEF u, v
  <2>2. t \in Seq(Nat) /\ Len(t) = 2 /\ t[1] = a /\ t[2] = b
    <3>1. t \in Seq(Nat) /\ Len(t) = Len(u) + Len(v)
          /\ \A i \in 1 .. Len(u) + Len(v) : t[i] = IF i <= Len(u) THEN u[i] ELSE v[i - Len(u)]
      BY <2>1, ConcatProperties
    <3>2. 1 \in 1 .. 1 + 1 /\ 2 \in 1 .. 1 + 1 /\ 1 <= 1 /\ ~(2 <= 1) /\ 2 - 1 = 1 /\ 1 + 1 = 2
      OBVIOUS
    <3> HIDE DEF t
    <3>3. QED BY <2>1, <3>1, <3>2
  <2> HIDE DEF t
  <2>3. DOMAIN t = {1, 2} /\ t # <<>>
    <3>1. DOMAIN t = 1 .. 2
      BY <2>2, LenProperties
    <3>2. 1 .. 2 = {1, 2}
      OBVIOUS
    <3>3. t # <<>>
      <4>1. DOMAIN t # {}
        BY <3>1, <3>2
      <4>2. DOMAIN <<>> = {}
        OBVIOUS
      <4>3. QED BY <4>1, <4>2
    <3>4. QED BY <3>1, <3>2, <3>3
  <2>4. ToSet(t) = {a, b}
    BY <2>2, <2>3 DEF ToSet
  <2>5. Head(t) = a
    BY <2>2, <2>3, HeadTailProperties
  <2>6. QED BY <2>2, <2>3, <2>4, <2>5 DEF t, u, v
<1>6. QED BY <1>1, <1>3, <1>4, <1>5

LEMMA BodyFacts ==
  ASSUME NEW m \in Meanings, NEW code \in DOMAIN Codes
  PROVE  /\ InBody(code) \in [Definitions(code) -> Addresses]
         /\ \A d \in Definitions(code) : Stands(m, InBody(code)[d], d)
BY CodeFacts, MeaningFacts DEF InBody, Stands

\* A scope of a frame is over an activation
LEMMA OverActivation ==
  ASSUME NEW h, NEW m, HeapOK(h, m), NEW s \in ScopesOf(h), Is(h, h[s].env, {"activation"}),
         NEW c
  PROVE  Suits(h, s, "call", c) /\ Suits(h, s, "eval", c)
BY DEF Suits, Is

LEMMA CallFunctionOK ==
  ASSUME NEW m, Good(m), NEW f, Is(heap, f, {"function"}), NEW args, Arrives(heap, args),
         CallFunction(f, args)
  PROVE  Step
<1> DEFINE code == heap[f].code
           ps == Codes[code].params
           b == Codes[code].strict
           act == NewActivation(heap, ps, args, b)
           s == NewScope(act.h, act.id, heap[f].scope)
           h == Hoist(s.h, s.id, code, InBody(code))
           g == Named(h, act.id, f)
           fr == Frame("call", code, InBody(code), <<active>>)
<1>1. Enter(g, s.id, fr, b)
  BY DEF CallFunction
<1>2. m \in Meanings /\ HeapOK(heap, m)
  BY DEF Good
<1>3. heap[f] \in Things /\ heap[f].kind = "function" /\ Refers(heap, heap[f])
  BY <1>2, HeapTypes DEF HeapOK, Is
<1>4. code \in DOMAIN Codes /\ heap[f].scope \in ScopesOf(heap)
  BY <1>3, ThingFacts DEF Refers, Is, ScopesOf
<1> HIDE DEF code
<1>5. ps \in Seq(Names) /\ b \in BOOLEAN
  BY <1>4, CodeFacts
<1> HIDE DEF ps, b
<1>6. HeapOK(act.h, m) /\ Grows(heap, act.h) /\ Is(act.h, act.id, {"activation"})
  BY <1>2, <1>5, NewActivationOK
<1> DEFINE ah == act.h
           o == act.id
           sc == heap[f].scope
<1>7. HeapOK(ah, m) /\ Grows(heap, ah) /\ Is(ah, o, {"activation"}) /\ s = NewScope(ah, o, sc)
      /\ Is(ah, o, Environments) /\ sc \in ScopesOf(ah)
  BY <1>4, <1>6, ScopeKept DEF Is, Environments
<1> HIDE DEF act, ah, o, sc, s
<1> DEFINE n == NewScope(ah, o, sc)
<1>8. HeapOK(n.h, m) /\ Grows(ah, n.h) /\ n.id \in ScopesOf(n.h) /\ n.h[n.id].env = o
  BY <1>7, NewScopeOK
<1> DEFINE sh == s.h
           si == s.id
<1>9. HeapOK(sh, m) /\ Grows(ah, sh) /\ si \in ScopesOf(sh) /\ sh[si].env = o
  BY <1>7, <1>8
<1> HIDE DEF n
<1>10. InBody(code) \in [Definitions(code) -> Addresses] /\ \A d \in Definitions(code) : Stands(m, InBody(code)[d], d)
  BY <1>2, <1>4, BodyFacts
<1> DEFINE at == InBody(code)
<1>11. h = Hoist(sh, si, code, at) /\ at \in [Definitions(code) -> Addresses]
       /\ \A d \in Definitions(code) : Stands(m, at[d], d)
  BY <1>10
<1>12. g = Named(h, o, f) /\ fr = Frame("call", code, at, <<active>>)
  BY DEF o
<1>13. Enter(g, si, fr, b)
  BY <1>1
<1> HIDE DEF h, g, fr, at, sh, si
<1>14. HeapOK(h, m) /\ Grows(sh, h)
  BY <1>4, <1>9, <1>11, HoistOK
<1>15. Grows(ah, h) /\ Grows(heap, h)
  BY <1>7, <1>9, <1>14, GrowsOn
<1>16. Is(h, o, {"activation"}) /\ Is(h, f, {"function"})
  BY <1>7, <1>15, IsKept
<1>17. HeapOK(g, m) /\ Grows(h, g)
  BY <1>12, <1>14, <1>16, NamedOK
<1>18. Grows(heap, g) /\ Grows(sh, g)
  BY <1>14, <1>15, <1>17, GrowsOn
<1>19. si \in ScopesOf(g) /\ g[si].env = o /\ Is(g, o, {"activation"})
  BY <1>9, <1>16, <1>17, <1>18, ScopeKept, IsKept
<1>20. Suits(g, si, "call", b)
  BY <1>17, <1>19, OverActivation
<1>21. active \in Nat /\ strict \in BOOLEAN /\ active \in ScopesOf(heap)
  BY GoodFacts, HeapTypes DEF ScopesOf
<1> DEFINE saved == <<active>>
<1>22. saved \in Seq(Nat) /\ saved # <<>> /\ Head(saved) = active /\ ToSet(saved) = {active}
  BY <1>21, SavedFacts
<1>23. fr = Frame("call", code, at, saved)
  BY <1>12
<1> HIDE DEF saved
<1>24. FrameOK(fr) /\ fr.saved = saved /\ fr.strict = strict /\ fr.kind = "call" /\ fr.at = at
       /\ DOMAIN fr.at = Definitions(code)
  BY <1>4, <1>11, <1>21, <1>22, <1>23, FrameFacts
<1>25. \A t \in ToSet(fr.saved) : Is(g, t, {"scope"})
  BY <1>18, <1>21, <1>22, <1>24, ScopeKept DEF Is, ScopesOf
<1>26. \A d \in DOMAIN fr.at : Stands(m, fr.at[d], d)
  BY <1>11, <1>24
<1>27. Head(fr.saved) = active /\ Suits(g, si, fr.kind, b)
  BY <1>20, <1>22, <1>24
<1>28. QED BY <1>5, <1>13, <1>17, <1>18, <1>19, <1>24, <1>25, <1>26, <1>27, Enters

LEMMA ValueMeans ==
  ASSUME NEW m, Good(m), NEW e \in Names \cup Values, Evaluates(e)
  PROVE  Means(heap, Value(e))
<1>1. CASE e \in Names
  <2> DEFINE o == Lookup(heap, active, e)
  <2>1. o # Null /\ Value(e) = Get(heap, o, e)
    BY <1>1 DEF Evaluates, Value
  <2>2. Is(heap, o, Environments)
    BY <2>1, GoodFacts, LookupFacts DEF Good
  <2> HIDE DEF o
  <2>3. QED BY <2>1, <2>2, GetMeans DEF Good
<1>2. CASE e \notin Names
  BY <1>2 DEF Value, Means
<1>3. QED BY <1>1, <1>2

LEMMA InvokeOK ==
  ASSUME NEW m, Good(m), NEW x \in Names, NEW args \in Seq(Names \cup Values), Invoke(x, args)
  PROVE  Step
<1> DEFINE f == Value(x)
           vs == [i \in DOMAIN args |-> Value(args[i])]
<1>1. CallFunction(f, vs) /\ f \notin Values /\ Evaluates(x) /\ \A e \in ToSet(args) : Evaluates(e)
  BY DEF Invoke
<1>2. Is(heap, f, {"function"})
  BY <1>1, ValueMeans DEF Means
<1>3. Len(args) \in Nat /\ DOMAIN args = 1 .. Len(args) /\ \A i \in DOMAIN args : args[i] \in Names \cup Values
  BY LenProperties, ElementOfSeq
<1>4. \A i \in DOMAIN args : Means(heap, Value(args[i]))
  BY <1>1, <1>3, ValueMeans DEF ToSet
<1>5. \A i \in DOMAIN args : Value(args[i]) \in Values \cup Nat
  BY <1>4, GoodFacts, MeansType
<1>6. vs \in [1 .. Len(args) -> Values \cup Nat] /\ DOMAIN vs = DOMAIN args
  BY <1>3, <1>5
<1>7. \A i \in DOMAIN vs : Means(heap, vs[i])
  BY <1>4
<1> HIDE DEF f, vs
<1>8. Arrives(heap, vs)
  BY <1>3, <1>6, <1>7, SeqDef DEF Arrives
<1>9. QED BY <1>1, <1>2, <1>8, CallFunctionOK

\* The scope of a text for eval: its own over an activation if it is strict
StrictScope(h, a, isStrict) ==
  LET act == NewActivation(h, <<>>, <<>>, isStrict)
  IN  IF isStrict THEN NewScope(act.h, act.id, a) ELSE [h |-> h, id |-> a]

LEMMA StrictScopeOK ==
  ASSUME NEW h, NEW m, HeapOK(h, m), NEW a \in ScopesOf(h), NEW isStrict \in BOOLEAN
  PROVE  LET s == StrictScope(h, a, isStrict)
         IN  /\ HeapOK(s.h, m) /\ Grows(h, s.h) /\ s.id \in ScopesOf(s.h)
             /\ isStrict => Is(s.h, s.h[s.id].env, {"activation"})
<1> DEFINE none == <<>>
           act == NewActivation(h, none, none, isStrict)
<1>1. CASE ~isStrict
  <2>1. StrictScope(h, a, isStrict).h = h /\ StrictScope(h, a, isStrict).id = a
    BY <1>1 DEF StrictScope
  <2>2. QED BY <1>1, <2>1, GrowsNot
<1>2. CASE isStrict
  <2>1. none \in Seq(Names) /\ Arrives(h, none)
    BY EmptySeq DEF Arrives
  <2>2. StrictScope(h, a, isStrict) = NewScope(act.h, act.id, a)
    BY <1>2 DEF StrictScope
  <2> HIDE DEF none
  <2>3. HeapOK(act.h, m) /\ Grows(h, act.h) /\ Is(act.h, act.id, {"activation"})
    BY <2>1, NewActivationOK
  <2> DEFINE g == act.h
             o == act.id
  <2>4. HeapOK(g, m) /\ Grows(h, g) /\ Is(g, o, {"activation"}) /\ Is(g, o, Environments) /\ a \in ScopesOf(g)
        /\ StrictScope(h, a, isStrict) = NewScope(g, o, a)
    BY <2>2, <2>3, ScopeKept DEF Is, Environments
  <2> HIDE DEF act, g, o
  <2> DEFINE n == NewScope(g, o, a)
  <2>5. HeapOK(n.h, m) /\ Grows(g, n.h) /\ n.id \in ScopesOf(n.h) /\ n.h[n.id].env = o
    BY <2>4, NewScopeOK
  <2> HIDE DEF n
  <2>6. Grows(h, n.h) /\ Is(n.h, o, {"activation"})
    BY <2>4, <2>5, GrowsOn, IsKept
  <2>7. QED BY <2>4, <2>5, <2>6 DEF n
<1>3. QED BY <1>1, <1>2

LEMMA EvalCodeOK ==
  ASSUME NEW m, Good(m), NEW code \in DOMAIN Codes, NEW isDirect, EvalCode(code, isDirect)
  PROVE  Step
<1> DEFINE b == strict \/ Codes[code].strict
           s1 == StrictScope(heap, active, b)
           s2 == IF isDirect THEN s1 ELSE NewScope(s1.h, Global, Null)
           saved == <<active>> \o (IF isDirect THEN <<>> ELSE <<s1.id>>)
           kind == IF isDirect THEN "eval" ELSE "indirect"
<1>1. PICK at \in Parsed(heap, code) : Enter(Hoist(s2.h, s2.id, code, at), s2.id, Frame(kind, code, at, saved), b)
  BY DEF EvalCode, StrictScope
<1>2. b \in BOOLEAN
  BY GoodFacts, CodeFacts
<1>3. at \in [Definitions(code) -> Addresses]
      /\ \E n \in Meanings : /\ HeapOK(heap, n) /\ MeansFrames(n)
                             /\ \A d \in Definitions(code) : Stands(n, at[d], d)
  BY GoodFacts, ParsedOK DEF Good
<1>4. PICK n \in Meanings : HeapOK(heap, n) /\ MeansFrames(n) /\ \A d \in Definitions(code) : Stands(n, at[d], d)
  BY <1>3
<1>5. Good(n)
  BY <1>4 DEF Good
<1>6. active \in ScopesOf(heap) /\ strict \in BOOLEAN /\ active \in Nat
  BY GoodFacts, HeapTypes DEF ScopesOf
<1> HIDE DEF b
<1>7. /\ HeapOK(s1.h, n) /\ Grows(heap, s1.h) /\ s1.id \in ScopesOf(s1.h)
      /\ b => Is(s1.h, s1.h[s1.id].env, {"activation"})
  BY <1>2, <1>4, <1>6, StrictScopeOK
<1> DEFINE h1 == s1.h
           i1 == s1.id
           h2 == s2.h
           i2 == s2.id
<1>8. /\ HeapOK(h2, n) /\ Grows(h1, h2) /\ i2 \in ScopesOf(h2)
      /\ isDirect /\ b => Is(h2, h2[i2].env, {"activation"})
      /\ ~isDirect => h2[i2].env = Global /\ h2[i2].prev = Null
  <2>1. CASE isDirect
    BY <1>7, <2>1, GrowsNot
  <2>2. CASE ~isDirect
    <3>1. HeapOK(h1, n) /\ Is(h1, Global, Environments)
      BY <1>7 DEF HeapOK, Is, Environments
    <3>2. s2 = NewScope(h1, Global, Null)
      BY <2>2
    <3> HIDE DEF h1, s1, s2
    <3> DEFINE e == Global
               p == Null
    <3>3. Is(h1, e, Environments) /\ (p = Null /\ e = Global)
      BY <3>1
    <3> DEFINE s == NewScope(h1, e, p)
    <3>4. s2 = s
      BY <3>2
    <3> HIDE DEF e, p
    <3>5. HeapOK(s.h, n) /\ Grows(h1, s.h) /\ s.id \in ScopesOf(s.h) /\ s.h[s.id].env = e /\ s.h[s.id].prev = p
      BY <3>1, <3>3, NewScopeOK
    <3>6. QED BY <2>2, <3>4, <3>5 DEF e, p
  <2>3. QED BY <2>1, <2>2
<1>9. i1 \in ScopesOf(h1) /\ Grows(heap, h1) /\ HeapOK(h1, n)
  BY <1>7
<1> DEFINE g == Hoist(h2, i2, code, at)
           fr == Frame(kind, code, at, saved)
<1>10. Enter(g, i2, fr, b)
  BY <1>1
<1>11. i1 \in Nat
  BY <1>9, HeapTypes DEF HeapOK, ScopesOf
<1>12. saved \in Seq(Nat) /\ saved # <<>> /\ Head(saved) = active
       /\ \A t \in ToSet(saved) : t = active \/ t = i1
  <2>1. CASE isDirect
    BY <1>6, <2>1, SavedFacts
  <2>2. CASE ~isDirect
    BY <1>6, <1>11, <2>2, SavedFacts
  <2>3. QED BY <2>1, <2>2
<1> HIDE DEF h1, i1, h2, i2, s1, s2, saved, kind
<1>13. HeapOK(g, n) /\ Grows(h2, g)
  BY <1>3, <1>4, <1>8, HoistOK
<1>14. fr = Frame(kind, code, at, saved)
  OBVIOUS
<1> HIDE DEF g, fr
<1>15. Grows(h1, g) /\ Grows(heap, g)
  BY <1>8, <1>9, <1>13, GrowsOn
<1>16. FrameOK(fr) /\ fr.saved = saved /\ fr.strict = strict /\ fr.kind = kind /\ fr.at = at
       /\ DOMAIN fr.at = Definitions(code)
  BY <1>3, <1>6, <1>12, <1>14, FrameFacts
<1>17. i2 \in ScopesOf(g) /\ g[i2].env = h2[i2].env /\ g[i2].prev = h2[i2].prev
  BY <1>8, <1>13, ScopeKept
<1>18. Suits(g, i2, kind, b)
  <2>1. CASE isDirect
    <3>1. kind = "eval"
      BY <2>1 DEF kind
    <3>2. b => Is(g, g[i2].env, {"activation"})
      BY <1>8, <1>13, <1>17, <2>1, IsKept
    <3>3. QED BY <3>1, <3>2 DEF Suits, Is
  <2>2. CASE ~isDirect
    <3>1. kind = "indirect"
      BY <2>2 DEF kind
    <3>2. g[g[i2].env].kind = "global" /\ g[i2].prev = Null
      BY <1>8, <1>13, <1>17, <2>2 DEF HeapOK, Is
    <3>3. QED BY <3>1, <3>2 DEF Suits
  <2>3. QED BY <2>1, <2>2
<1>19. \A t \in ToSet(fr.saved) : Is(g, t, {"scope"})
  <2>1. active \in ScopesOf(g) /\ i1 \in ScopesOf(g)
    BY <1>6, <1>9, <1>15, ScopeKept
  <2>2. QED BY <1>12, <1>16, <2>1 DEF Is, ScopesOf
<1>20. \A d \in DOMAIN fr.at : Stands(n, fr.at[d], d)
  BY <1>4, <1>16
<1>21. Head(fr.saved) = active /\ Suits(g, i2, fr.kind, b)
  BY <1>12, <1>16, <1>18
<1>22. QED BY <1>2, <1>5, <1>10, <1>13, <1>15, <1>16, <1>17, <1>19, <1>20, <1>21, Enters

LEMMA EvaluateOK ==
  ASSUME NEW m, Good(m), NEW code \in Programs, Evaluate(code)
  PROVE  Step
<1> DEFINE saved == <<active>>
           kind == "program"
           b == Codes[code].strict
<1>1. PICK at \in Parsed(heap, code) : Enter(Hoist(heap, active, code, at), active, Frame(kind, code, at, saved), b)
  BY DEF Evaluate
<1>2. code \in DOMAIN Codes
  BY ScopesAssumption
<1>3. b \in BOOLEAN
  BY <1>2, CodeFacts
<1>4. at \in [Definitions(code) -> Addresses]
      /\ \E n \in Meanings : /\ HeapOK(heap, n) /\ MeansFrames(n)
                             /\ \A d \in Definitions(code) : Stands(n, at[d], d)
  BY <1>2, GoodFacts, ParsedOK DEF Good
<1>5. PICK n \in Meanings : HeapOK(heap, n) /\ MeansFrames(n) /\ \A d \in Definitions(code) : Stands(n, at[d], d)
  BY <1>4
<1>6. Good(n)
  BY <1>5 DEF Good
<1>7. active \in ScopesOf(heap) /\ strict \in BOOLEAN /\ active \in Nat
  BY GoodFacts, HeapTypes DEF ScopesOf
<1> DEFINE g == Hoist(heap, active, code, at)
           fr == Frame(kind, code, at, saved)
<1>8. Enter(g, active, fr, b)
  BY <1>1
<1>9. saved \in Seq(Nat) /\ saved # <<>> /\ Head(saved) = active /\ ToSet(saved) = {active}
  BY <1>7, SavedFacts
<1> HIDE DEF saved, b
<1>10. HeapOK(g, n) /\ Grows(heap, g)
  BY <1>2, <1>4, <1>5, <1>7, HoistOK
<1>11. Suits(heap, active, kind, strict)
  BY GoodFacts DEF Evaluate, Inside, Stack
<1>12. SameScope(heap, g, active)
  BY <1>5, <1>7, <1>10, GrowsSame DEF Is, ScopesOf
<1>13. Suits(g, active, kind, strict)
  BY <1>11, <1>12, SameSuits
<1>14. Suits(g, active, kind, b)
  BY <1>13 DEF Suits
<1> HIDE DEF kind
<1>15. fr = Frame(kind, code, at, saved)
  OBVIOUS
<1> HIDE DEF g, fr
<1>16. FrameOK(fr) /\ fr.saved = saved /\ fr.strict = strict /\ fr.kind = kind /\ fr.at = at
       /\ DOMAIN fr.at = Definitions(code)
  BY <1>2, <1>4, <1>7, <1>9, <1>15, FrameFacts
<1>17. active \in ScopesOf(g) /\ \A t \in ToSet(fr.saved) : Is(g, t, {"scope"})
  BY <1>9, <1>12, <1>16 DEF SameScope, Is, ScopesOf
<1>18. \A d \in DOMAIN fr.at : Stands(n, fr.at[d], d)
  BY <1>5, <1>16
<1>19. Head(fr.saved) = active /\ Suits(g, active, fr.kind, b)
  BY <1>9, <1>14, <1>16
<1>20. QED BY <1>3, <1>6, <1>8, <1>10, <1>16, <1>17, <1>18, <1>19, Enters

LEMMA RunningFacts ==
  ASSUME NEW m, Good(m), Inside
  PROVE  /\ Running \in DOMAIN Codes /\ Last(frames).at \in [Definitions(Running) -> Addresses]
         /\ \A d \in Definitions(Running) : Stands(m, Last(frames).at[d], d)
<1> DEFINE n == Len(frames)
<1>1. frames # <<>> /\ frames \in Seq(ToSet(frames))
  BY GoodFacts DEF Inside, Stack
<1>2. n \in DOMAIN frames
  BY <1>1, HeadFacts
<1>3. Last(frames) = frames[n] /\ Running = Last(frames).code
  BY DEF Last, Running
<1>4. FrameOK(Last(frames))
  BY <1>2, <1>3, GoodFacts
<1>5. Running \in DOMAIN Codes /\ Last(frames).at \in [Definitions(Running) -> Addresses]
  BY <1>3, <1>4 DEF FrameOK
<1>6. \A d \in DOMAIN Last(frames).at : Stands(m, Last(frames).at[d], d)
  BY <1>2, <1>3 DEF Good, MeansFrames
<1>7. QED BY <1>5, <1>6

LEMMA EnterBlockOK ==
  ASSUME NEW m, Good(m), Inside, NEW h, HeapOK(h, m), Grows(heap, h), NEW env, Is(h, env, {"plain"}),
         NEW kind \in {"with", "catch"}, EnterBlock(h, env, kind)
  PROVE  Step
<1> DEFINE s == NewScope(h, env, active)
           g == s.h
           i == s.id
           saved == <<active>>
           at == Last(frames).at
           fr == Frame(kind, Running, at, saved)
<1>1. Enter(g, i, fr, strict)
  BY DEF EnterBlock
<1>2. active \in ScopesOf(heap) /\ strict \in BOOLEAN /\ active \in Nat
  BY GoodFacts, HeapTypes DEF ScopesOf
<1>3. active \in ScopesOf(h) /\ Is(h, env, Environments)
  BY <1>2, ScopeKept DEF Is, Environments
<1>4. HeapOK(g, m) /\ Grows(h, g) /\ i \in ScopesOf(g) /\ g[i].env = env
  BY <1>3, NewScopeOK
<1>5. saved \in Seq(Nat) /\ saved # <<>> /\ Head(saved) = active /\ ToSet(saved) = {active}
  BY <1>2, SavedFacts
<1>6. Running \in DOMAIN Codes /\ at \in [Definitions(Running) -> Addresses]
      /\ \A d \in Definitions(Running) : Stands(m, at[d], d)
  BY RunningFacts
<1> HIDE DEF s, g, i, saved, at
<1>7. Grows(heap, g) /\ Is(g, env, {"plain"})
  BY <1>4, GrowsOn, IsKept
<1>8. Suits(g, i, kind, strict)
  BY <1>4, <1>7 DEF Suits, Is
<1>9. fr = Frame(kind, Running, at, saved)
  OBVIOUS
<1> HIDE DEF fr
<1>10. FrameOK(fr) /\ fr.saved = saved /\ fr.strict = strict /\ fr.kind = kind /\ fr.at = at
       /\ DOMAIN fr.at = Definitions(Running)
  BY <1>2, <1>5, <1>6, <1>9, FrameFacts
<1>11. \A t \in ToSet(fr.saved) : Is(g, t, {"scope"})
  BY <1>2, <1>5, <1>7, <1>10, ScopeKept DEF Is, ScopesOf
<1>12. \A d \in DOMAIN fr.at : Stands(m, fr.at[d], d)
  BY <1>6, <1>10
<1>13. Head(fr.saved) = active /\ Suits(g, i, fr.kind, strict)
  BY <1>5, <1>8, <1>10
<1>14. QED BY <1>1, <1>2, <1>4, <1>7, <1>10, <1>11, <1>12, <1>13, Enters

LEMMA WithOK ==
  ASSUME NEW m, Good(m), Inside, NEW o \in DOMAIN Plain, With(o)
  PROVE  Step
<1>1. EnterBlock(heap, o, "with") /\ HeapOK(heap, m) /\ Is(heap, o, {"plain"}) /\ Grows(heap, heap)
  BY GrowsNot DEF With, Good, HeapOK
<1>2. QED BY <1>1, EnterBlockOK

LEMMA CatchOK ==
  ASSUME NEW m, Good(m), Inside, NEW x \in Names, NEW e \in Names \cup Values, Catch(x, e)
  PROVE  Step
<1> DEFINE v == Value(e)
           p == [y \in {x} |-> Property(v)]
           t == [kind |-> "plain", props |-> p]
           o == New(heap, t)
<1>1. EnterBlock(o.h, o.id, "catch") /\ Evaluates(e)
  BY DEF Catch
<1>2. Means(heap, v) /\ heap \in Heaps
  BY <1>1, ValueMeans, GoodFacts
<1> HIDE DEF v
<1>3. Property(v) \in Attributes /\ Property(v).v = v
  BY <1>2, PropertyFacts
<1>4. DOMAIN p = {x} /\ p = [y \in DOMAIN p |-> p[y]]
      /\ \A y \in DOMAIN p : p[y] \in Attributes /\ p[y].v = v
  BY <1>3
<1>5. t.kind = "plain" /\ t.props = p /\ t = [kind |-> "plain", props |-> p]
  OBVIOUS
<1> HIDE DEF p, t
<1>6. p \in PropertyMaps
  <2>1. DOMAIN p \subseteq Names \cup Nat /\ \A y \in DOMAIN p : p[y] \in Attributes
    BY <1>4
  <2>2. QED BY <1>4, <2>1, MapType
<1>7. t \in Things
  BY <1>5, <1>6 DEF Things
<1>8. Refers(heap, t) /\ t.kind # "scope"
  BY <1>2, <1>4, <1>5 DEF Refers, Means, Environments
<1>9. HeapOK(o.h, m) /\ Grows(heap, o.h) /\ o.id \in DOMAIN o.h /\ o.h[o.id] = t
  BY <1>7, <1>8, Add DEF Good
<1>10. Is(o.h, o.id, {"plain"})
  BY <1>5, <1>9 DEF Is
<1> HIDE DEF o
<1>11. QED BY <1>1, <1>9, <1>10, EnterBlockOK

-----------------------------------------------------------------------------
(* Statements.                                                             *)

LEMMA InitVariableOK ==
  ASSUME NEW m, Good(m), NEW x \in Names, NEW e \in Names \cup Values, InitVariable(x, e)
  PROVE  Step
<1> DEFINE v == Value(e)
           h == PutLocal(heap, active, x, v)
<1>1. Means(heap, v) /\ Become(h)
  BY ValueMeans DEF InitVariable
<1> HIDE DEF v
<1>2. HeapOK(h, m) /\ Grows(heap, h)
  BY <1>1, GoodFacts, PutLocalOK DEF Good
<1> HIDE DEF h
<1>3. QED BY <1>1, <1>2, Becomes

LEMMA DefineFunctionOK ==
  ASSUME NEW m, Good(m), Inside, NEW d \in Definitions(Running), DefineFunction(d)
  PROVE  Step
<1> DEFINE a == Last(frames).at[d]
           h == PutLocalFunction(heap, active, d, a)
<1>1. Become(h)
  BY DEF DefineFunction
<1>2. a \in Addresses /\ Stands(m, a, d)
  BY RunningFacts
<1>3. d \in DOMAIN Codes /\ Codes[d].id \in Names
  BY RunningFacts, CodeFacts
<1> HIDE DEF a
<1>4. HeapOK(h, m) /\ Grows(heap, h)
  BY <1>2, <1>3, GoodFacts, PutLocalFunctionOK DEF Good
<1> HIDE DEF h
<1>5. QED BY <1>1, <1>4, Becomes

LEMMA PutValueOK ==
  ASSUME NEW m, Good(m), NEW h, HeapOK(h, m), Grows(heap, h), NEW x \in Names, NEW b,
         b # Null => Is(h, b, Environments) /\ (h[b].kind = "plain" => Own(h, b, x)),
         NEW v, Means(h, v), PutValue(h, b, x, v)
  PROVE  Step
<1> DEFINE o == IF b = Null THEN Global ELSE b
           g == Put(h, o, x, v)
<1>1. Become(g)
  BY DEF PutValue
<1>2. Is(h, o, Environments) /\ (h[o].kind = "plain" => Own(h, o, x))
  <2>1. CASE b = Null
    <3>1. o = Global /\ Is(h, Global, {"global"})
      BY <2>1 DEF HeapOK
    <3>2. QED BY <3>1 DEF Is, Environments
  <2>2. CASE b # Null
    BY <2>2
  <2>3. QED BY <2>1, <2>2
<1> HIDE DEF o
<1>3. HeapOK(g, m) /\ Grows(h, g)
  BY <1>2, PutOK
<1> HIDE DEF g
<1>4. Grows(heap, g)
  BY <1>3, GrowsOn
<1>5. QED BY <1>1, <1>3, <1>4, Becomes

\* What a reference has as its base
LEMMA BaseFacts ==
  ASSUME NEW m, Good(m), NEW x
  PROVE  Lookup(heap, active, x) # Null =>
           Is(heap, Lookup(heap, active, x), Environments) /\ Own(heap, Lookup(heap, active, x), x)
BY GoodFacts, LookupFacts DEF Good

LEMMA AssignOK ==
  ASSUME NEW m, Good(m), NEW x \in Names, NEW e \in Names \cup Values, Assign(x, e)
  PROVE  Step
<1> DEFINE b == Lookup(heap, active, x)
           v == Value(e)
<1>1. PutValue(heap, b, x, v) /\ Means(heap, v)
  BY ValueMeans DEF Assign
<1>2. b # Null => Is(heap, b, Environments) /\ (heap[b].kind = "plain" => Own(heap, b, x))
  BY BaseFacts
<1>3. HeapOK(heap, m) /\ Grows(heap, heap)
  BY GrowsNot DEF Good
<1> HIDE DEF b, v
<1>4. QED BY <1>1, <1>2, <1>3, PutValueOK

LEMMA AssignFunctionOK ==
  ASSUME NEW m, Good(m), NEW x \in Names, NEW code \in DOMAIN Codes, AssignFunction(x, code)
  PROVE  Step
<1> DEFINE b == Lookup(heap, active, x)
           f == NewFunction(heap, code, active)
           h == f.h
           v == f.id
<1>1. PutValue(h, b, x, v)
  BY DEF AssignFunction
<1>2. /\ HeapOK(h, m) /\ Grows(heap, h) /\ Is(h, v, {"function"})
      /\ \A i \in DOMAIN heap : h[i] = heap[i]
  BY GoodFacts, NewFunctionOK DEF Good
<1>3. b # Null => Is(heap, b, Environments) /\ Own(heap, b, x)
  BY BaseFacts
<1> HIDE DEF b, f, h, v
<1>4. b # Null => Is(h, b, Environments) /\ (h[b].kind = "plain" => Own(h, b, x))
  BY <1>2, <1>3, IsKept DEF Own, Is
<1>5. Means(h, v)
  BY <1>2 DEF Means
<1>6. QED BY <1>1, <1>2, <1>4, <1>5, PutValueOK

LEMMA AssignNewFunctionOK ==
  ASSUME NEW m, Good(m), NEW x \in Names, NEW code \in DOMAIN Codes, AssignNewFunction(x, code)
  PROVE  Step
<1> DEFINE b == Lookup(heap, active, x)
           s == NewScope(heap, Global, Null)
           g == s.h
           i == s.id
           f == NewFunction(g, code, i)
           h == f.h
           v == f.id
<1>1. PutValue(h, b, x, v)
  BY DEF AssignNewFunction
<1>2. HeapOK(heap, m) /\ Is(heap, Global, Environments)
  BY DEF Good, HeapOK, Is, Environments
<1>3. HeapOK(g, m) /\ Grows(heap, g) /\ i \in ScopesOf(g) /\ \A j \in DOMAIN heap : g[j] = heap[j]
  <2>1. HeapOK(g, m) /\ Grows(heap, g) /\ i \in ScopesOf(g)
    BY <1>2, NewScopeOK
  <2> DEFINE t == [kind |-> "scope", env |-> Global, prev |-> Null, funcs |-> <<>>, vals |-> <<>>]
  <2>2. g = New(heap, t).h
    BY DEF NewScope
  <2> HIDE DEF t
  <2>3. DOMAIN heap \subseteq Nat /\ IsFiniteSet(DOMAIN heap)
    BY <1>2, HeapTypes DEF HeapOK
  <2>4. OneMore(heap, t, New(heap, t).h, New(heap, t).id)
    BY <2>3, NewFacts
  <2>5. QED BY <2>1, <2>2, <2>4 DEF OneMore
<1> HIDE DEF s, g, i
<1>4. /\ HeapOK(h, m) /\ Grows(g, h) /\ Is(h, v, {"function"})
      /\ \A j \in DOMAIN g : h[j] = g[j]
  BY <1>3, NewFunctionOK
<1>5. b # Null => Is(heap, b, Environments) /\ Own(heap, b, x)
  BY BaseFacts
<1> HIDE DEF b, f, h, v
<1>6. Grows(heap, h) /\ \A j \in DOMAIN heap : h[j] = heap[j]
  BY <1>3, <1>4, GrowsOn DEF Grows
<1>7. b # Null => Is(h, b, Environments) /\ (h[b].kind = "plain" => Own(h, b, x))
  BY <1>5, <1>6, IsKept DEF Own, Is
<1>8. Means(h, v)
  BY <1>4 DEF Means
<1>9. QED BY <1>1, <1>4, <1>6, <1>7, <1>8, PutValueOK

LEMMA DeleteStepOK ==
  ASSUME NEW m, Good(m), NEW x, Delete(x)
  PROVE  Step
<1> DEFINE b == Lookup(heap, active, x)
           h == [heap EXCEPT ![b].props = [y \in DOMAIN @ \ {x} |-> @[y]]]
<1>1. b # Null /\ Become(h) /\ x \notin Lasting(heap[b].props)
  BY DEF Delete, Lasting
<1>2. b \in DOMAIN heap /\ heap[b].kind \in Holders
  BY <1>1, BaseFacts DEF Is, Holders
<1> HIDE DEF b
<1>3. HeapOK(h, m) /\ Grows(heap, h)
  BY <1>1, <1>2, DeleteOK DEF Good
<1> HIDE DEF h
<1>4. QED BY <1>1, <1>3, Becomes

LEMMA ArgumentsFacts ==
  ASSUME NEW m, Good(m), Arguments # Null
  PROVE  Is(heap, Arguments, {"arguments"})
<1> DEFINE calls == {i \in ScopesOf(heap) : heap[heap[i].env].kind = "activation"}
           s == FirstScope(heap, active, calls)
<1>1. s \in (calls \cap ScopesOf(heap)) \cup {Null}
  BY GoodFacts, FirstFacts DEF Good
<1>2. Arguments = IF s = Null THEN Null ELSE heap[heap[s].env].args
  BY DEF Arguments
<1>3. s \in ScopesOf(heap) /\ heap[heap[s].env].kind = "activation" /\ Arguments = heap[heap[s].env].args
  BY <1>1, <1>2
<1> HIDE DEF s, calls
<1> DEFINE e == heap[s].env
<1>4. e \in DOMAIN heap
  BY <1>3, ScopeFacts DEF Good, Is
<1>5. Refers(heap, heap[e])
  BY <1>4 DEF Good, HeapOK
<1>6. QED BY <1>3, <1>5 DEF Refers

LEMMA SetArgumentOK ==
  ASSUME NEW m, Good(m), NEW i, NEW e \in Names \cup Values, SetArgument(i, e)
  PROVE  Step
<1> DEFINE o == Arguments
           v == Value(e)
           b == TRUE
           h == ObjectPut(heap, o, i, v, b)
<1>1. Become(h) /\ Means(heap, v) /\ o # Null /\ i \in DOMAIN heap[o].props
  BY ValueMeans DEF SetArgument
<1>2. o \in DOMAIN heap /\ heap[o].kind \in Holders /\ heap[o].kind # "plain" /\ b \in BOOLEAN
  BY <1>1, ArgumentsFacts DEF Is, Holders
<1>3. i \in Names \cup Nat
  BY <1>1, <1>2, HolderFacts DEF Good
<1> HIDE DEF o, v, b
<1>4. HeapOK(h, m) /\ Grows(heap, h)
  BY <1>1, <1>2, <1>3, ObjectPutOK DEF Good
<1> HIDE DEF h
<1>5. QED BY <1>1, <1>4, Becomes

LEMMA DeleteArgumentOK ==
  ASSUME NEW m, Good(m), NEW i, DeleteArgument(i)
  PROVE  Step
<1> DEFINE o == Arguments
           h == [heap EXCEPT ![o].props = [y \in DOMAIN @ \ {i} |-> @[y]]]
<1>1. Become(h) /\ o # Null
  BY DEF DeleteArgument
<1>2. o \in DOMAIN heap /\ heap[o].kind \in Holders /\ heap[o].kind # "activation"
  BY <1>1, ArgumentsFacts DEF Is, Holders
<1> HIDE DEF o
<1>3. HeapOK(h, m) /\ Grows(heap, h)
  BY <1>2, DeleteOK DEF Good
<1> HIDE DEF h
<1>4. QED BY <1>1, <1>3, Becomes

LEMMA LeaveOK ==
  ASSUME NEW m, Good(m), Leave
  PROVE  Step
<1> DEFINE n == Len(frames)
           f == Last(frames)
<1>1. /\ frames # <<>> /\ heap' = heap /\ frames' = Front(frames)
      /\ active' = Head(f.saved) /\ strict' = f.strict
  BY DEF Leave, Inside, Restored
<1>2. Stack(heap, frames, active, strict)
  BY GoodFacts
<1>3. Stack(heap, Front(frames), Head(f.saved), f.strict)
  BY <1>1, <1>2, Popped
<1>4. frames \in Seq(ToSet(frames)) /\ n \in Nat /\ n >= 1 /\ DOMAIN frames = 1 .. n
  BY <1>1, <1>2, HeadFacts DEF Stack
<1> DEFINE k == n - 1
<1>5. Front(frames) = SubSeq(frames, 1, k)
  BY DEF Front
<1>6. \A j \in DOMAIN Front(frames) : j \in DOMAIN frames /\ Front(frames)[j] = frames[j]
  <2>1. \A j \in 1 .. k : frames[j] \in ToSet(frames)
    BY <1>4 DEF ToSet
  <2>2. k \in Nat /\ k <= n /\ 1 \in Int /\ k \in Int
    BY <1>4
  <2> DEFINE gs == SubSeq(frames, 1, k)
             S == ToSet(frames)
  <2> HIDE DEF k, S
  <2>3. /\ gs \in Seq(S) /\ Len(gs) = (IF 1 <= k THEN k - 1 + 1 ELSE 0)
        /\ \A j \in 1 .. k - 1 + 1 : gs[j] = frames[1 + j - 1]
    BY <2>1, <2>2, SubSeqProperties DEF S
  <2>4. k - 1 + 1 = k /\ \A j \in 1 .. k : 1 + j - 1 = j
    BY <2>2
  <2> HIDE DEF gs
  <2>5. Len(gs) = k
    BY <2>2, <2>3, <2>4
  <2>6. DOMAIN gs = 1 .. k
    BY <2>3, <2>5, LenProperties
  <2>7. \A j \in 1 .. k : j \in 1 .. n /\ gs[j] = frames[j]
    BY <1>4, <2>2, <2>3, <2>4
  <2>8. QED BY <1>4, <1>5, <2>6, <2>7 DEF gs
<1>7. \A j \in DOMAIN frames' : \A d \in DOMAIN frames'[j].at : Stands(m, frames'[j].at[d], d)
  BY <1>1, <1>6 DEF Good, MeansFrames
<1>8. ScopesInv'
  BY <1>1, <1>3, <1>7, StepIs DEF Good
<1>9. QED BY <1>1, <1>8, KeepsItself DEF Step

LEMMA CollectOK ==
  ASSUME NEW m, Good(m), Collect
  PROVE  Step
<1> DEFINE r == Reachable
           g == Collected(heap, r)
<1>1. Become(g)
  BY DEF Collect, Collected
<1>2. heap' = g /\ frames' = frames /\ active' = active /\ strict' = strict
  BY <1>1 DEF Become
<1>3. Stack(heap, frames, active, strict) /\ HeapOK(heap, m)
  BY GoodFacts DEF Good
<1>4. Roots = {Global} \cup DOMAIN Plain \cup Held(frames, active)
  BY DEF Roots, Held
<1>5. Roots \subseteq DOMAIN heap /\ IsFiniteSet(DOMAIN heap)
  BY <1>3, <1>4, HeldFacts DEF HeapOK, Is
<1>6. Roots \subseteq r /\ r \in SUBSET DOMAIN heap /\ Closed(heap, r)
  BY <1>5, ReachableFacts
<1> HIDE DEF r, g
<1>7. {Global} \cup DOMAIN Plain \subseteq r /\ Held(frames, active) \subseteq r
  BY <1>4, <1>6
<1>8. /\ HeapOK(g, m) /\ DOMAIN g = r /\ \A i \in r : Keeps(heap[i], g[i])
      /\ \A s \in ScopesOf(g) : g[s].env \in r
  BY <1>3, <1>6, <1>7, CollectedOK DEF g
<1>9. ASSUME NEW s \in Held(frames, active) PROVE SameScope(heap, g, s)
  <2>1. Is(heap, s, {"scope"}) /\ s \in r
    BY <1>3, <1>7, HeldFacts
  <2>2. Keeps(heap[s], g[s]) /\ heap[s].kind = "scope"
    BY <1>8, <2>1 DEF Is
  <2>3. s \in ScopesOf(g) /\ g[s].env = heap[s].env /\ g[s].prev = heap[s].prev
    BY <1>8, <2>1, <2>2 DEF Keeps, ScopesOf
  <2>4. Keeps(heap[g[s].env], g[g[s].env])
    BY <1>8, <2>3
  <2>5. QED BY <2>3, <2>4 DEF SameScope, Is, ScopesOf, Keeps
<1>10. Stack(g, frames, active, strict)
  BY <1>3, <1>9, StackSame
<1>11. ScopesInv'
  BY <1>2, <1>8, <1>10, StepIs DEF Good, MeansFrames
<1>12. QED BY <1>2, <1>8, <1>11 DEF Step

-----------------------------------------------------------------------------
(* All steps, from the first state on.                                     *)

LEMMA GoodIs ==
  ASSUME ScopesInv
  PROVE  \E m : Good(m)
<1>1. FramesInv /\ \E m \in Meanings : HeapOK(heap, m) /\ MeansFrames(m)
  BY DEF ScopesInv, MeansFrames
<1>2. QED BY <1>1 DEF Good

LEMMA ExecuteOK ==
  ASSUME NEW m, Good(m), Inside, NEW s \in Codes[Running].body, Execute(s)
  PROVE  Step
<1>1. StatementOK(Running, s)
  BY RunningFacts, ScopesAssumption
<1>2. CASE s.op = "call" /\ Call(s.x, s.args)
  <2>1. s.x \in Names /\ s.args \in Seq(Names \cup Values) /\ Invoke(s.x, s.args)
    BY <1>1, <1>2 DEF StatementOK, Call
  <2>2. QED BY <2>1, InvokeOK
<1>3. CASE s.op = "new" /\ Construct(s.x, s.args)
  <2>1. s.x \in Names /\ s.args \in Seq(Names \cup Values) /\ Invoke(s.x, s.args)
    BY <1>1, <1>3 DEF StatementOK, Construct
  <2>2. QED BY <2>1, InvokeOK
<1>4. CASE s.op = "eval" /\ CallEval(s.code, TRUE)
  <2>1. s.code \in DOMAIN Codes /\ EvalCode(s.code, TRUE)
    BY <1>1, <1>4 DEF StatementOK, CallEval
  <2>2. QED BY <2>1, EvalCodeOK
<1>5. CASE s.op = "indirect eval" /\ CallEval(s.code, FALSE)
  <2>1. s.code \in DOMAIN Codes /\ EvalCode(s.code, FALSE)
    BY <1>1, <1>5 DEF StatementOK, CallEval
  <2>2. QED BY <2>1, EvalCodeOK
<1>6. CASE s.op = "native eval" /\ NativeCallsEval(s.code)
  <2>1. s.code \in DOMAIN Codes /\ EvalCode(s.code, direct)
    BY <1>1, <1>6 DEF StatementOK, NativeCallsEval
  <2>2. QED BY <2>1, EvalCodeOK
<1>7. CASE s.op = "with" /\ With(s.o)
  BY <1>1, <1>7, WithOK DEF StatementOK
<1>8. CASE s.op = "catch" /\ Catch(s.x, s.e)
  BY <1>1, <1>8, CatchOK DEF StatementOK
<1>9. CASE s.op = "var" /\ InitVariable(s.x, s.e)
  BY <1>1, <1>9, InitVariableOK DEF StatementOK
<1>10. CASE s.op = "define" /\ DefineFunction(s.code)
  BY <1>1, <1>10, DefineFunctionOK DEF StatementOK
<1>11. CASE s.op = "assign" /\ Assign(s.x, s.e)
  BY <1>1, <1>11, AssignOK DEF StatementOK
<1>12. CASE s.op = "function" /\ AssignFunction(s.x, s.code)
  BY <1>1, <1>12, AssignFunctionOK DEF StatementOK
<1>13. CASE s.op = "new Function" /\ AssignNewFunction(s.x, s.code)
  BY <1>1, <1>13, AssignNewFunctionOK DEF StatementOK
<1>14. CASE s.op = "delete" /\ Delete(s.x)
  BY <1>14, DeleteStepOK
<1>15. CASE s.op = "set argument" /\ SetArgument(s.i, s.e)
  BY <1>1, <1>15, SetArgumentOK DEF StatementOK
<1>16. CASE s.op = "delete argument" /\ DeleteArgument(s.i)
  BY <1>16, DeleteArgumentOK
<1>17. QED
  BY <1>2, <1>3, <1>4, <1>5, <1>6, <1>7, <1>8, <1>9, <1>10, <1>11, <1>12, <1>13, <1>14, <1>15, <1>16 DEF Execute

LEMMA NextOK ==
  ASSUME ScopesInv, Next
  PROVE  Step
<1>1. PICK m : Good(m)
  BY GoodIs
<1>2. CASE \E p \in Programs : Evaluate(p)
  BY <1>1, <1>2, EvaluateOK
<1>3. CASE Inside /\ \E s \in Codes[Running].body : Execute(s)
  BY <1>1, <1>3, ExecuteOK
<1>4. CASE Leave
  BY <1>1, <1>4, LeaveOK
<1>5. CASE Collect
  BY <1>1, <1>5, CollectOK
<1>6. QED BY <1>2, <1>3, <1>4, <1>5 DEF Next

LEMMA StaysOK ==
  ASSUME ScopesInv, UNCHANGED vars
  PROVE  ScopesInv'
BY DEF vars, ScopesInv, FramesInv, Below, CodeInItsScope, Inside

LEMMA InitOK ==
  ASSUME Init
  PROVE  ScopesInv
<1> DEFINE m == [a \in Addresses |-> a]
           D == DOMAIN Plain \cup {Global}
           empty == <<>>
           props(i) == [x \in Plain[i] |-> [v |-> Undefined, del |-> TRUE, ro |-> FALSE]]
           base == [i \in D |-> IF i = Global THEN [kind |-> "global", props |-> empty]
                                ELSE [kind |-> "plain", props |-> props(i)]]
<1>1. m \in Meanings
  BY DEF Meanings, Addresses
<1>2. InitialScope = NewScope(base, Global, Null)
  BY DEF InitialScope
<1>3. /\ D \subseteq Nat \ {Null} /\ IsFiniteSet(D) /\ Global \notin DOMAIN Plain
      /\ \A o \in DOMAIN Plain : Plain[o] \subseteq Names
  <2>1. IsFiniteSet(DOMAIN Plain) /\ DOMAIN Plain \subseteq Nat \ {Null, Global}
        /\ \A o \in DOMAIN Plain : Plain[o] \subseteq Names
    BY ScopesAssumption
  <2>2. IsFiniteSet(D)
    BY <2>1, FS_AddElement
  <2>3. Global \in Nat \ {Null}
    BY DEF Global, Null
  <2>4. QED BY <2>1, <2>2, <2>3
<1>4. empty \in PropertyMaps /\ DOMAIN empty = {}
  <2>1. DOMAIN empty = {} /\ empty = [y \in {} |-> empty[y]]
    OBVIOUS
  <2> HIDE DEF empty
  <2>2. QED BY <2>1, MapType
<1>5. ASSUME NEW i \in DOMAIN Plain
      PROVE  props(i) \in PropertyMaps /\ \A y \in DOMAIN props(i) : props(i)[y].v \in Values
  <2> DEFINE q == props(i)
  <2>1. DOMAIN q \subseteq Names \cup Nat /\ q = [y \in DOMAIN q |-> q[y]]
        /\ \A y \in DOMAIN q : q[y] = [v |-> Undefined, del |-> TRUE, ro |-> FALSE]
    BY <1>3
  <2>2. [v |-> Undefined, del |-> TRUE, ro |-> FALSE] \in Attributes
        /\ [v |-> Undefined, del |-> TRUE, ro |-> FALSE].v \in Values
    BY ScopesAssumption DEF Attributes
  <2> HIDE DEF q
  <2>3. \A y \in DOMAIN q : q[y] \in Attributes /\ q[y].v \in Values
    BY <2>1, <2>2
  <2>4. q \in PropertyMaps
    BY <2>1, <2>3, MapType
  <2>5. QED BY <2>3, <2>4 DEF q
<1> DEFINE global == [kind |-> "global", props |-> empty]
           plain(i) == [kind |-> "plain", props |-> props(i)]
<1>6. base[Global] = global /\ (\A i \in DOMAIN Plain : base[i] = plain(i))
      /\ DOMAIN base = D /\ base = [i \in DOMAIN base |-> base[i]]
  BY <1>3
<1> HIDE DEF base, m
<1>7. global \in Things /\ global.kind = "global" /\ Refers(base, global)
  <2>1. global.kind = "global" /\ global.props = empty /\ global = [kind |-> "global", props |-> empty]
    OBVIOUS
  <2> HIDE DEF global, empty
  <2>2. QED BY <1>4, <2>1 DEF Things, Refers, Environments
<1>8. ASSUME NEW i \in DOMAIN Plain
      PROVE  plain(i) \in Things /\ plain(i).kind = "plain" /\ Refers(base, plain(i))
  <2> DEFINE t == plain(i)
             q == props(i)
  <2>1. t.kind = "plain" /\ t.props = q /\ t = [kind |-> "plain", props |-> q]
    OBVIOUS
  <2>2. q \in PropertyMaps /\ \A y \in DOMAIN q : q[y].v \in Values
    BY <1>5
  <2> HIDE DEF q, t
  <2>3. t \in Things /\ t.kind = "plain" /\ Refers(base, t)
    BY <2>1, <2>2 DEF Things, Refers, Environments
  <2>4. QED BY <2>3 DEF t
<1> HIDE DEF global, plain
<1>9. \A i \in DOMAIN base : base[i] \in Things /\ Refers(base, base[i]) /\ base[i].kind \in {"global", "plain"}
  BY <1>6, <1>7, <1>8
<1>10. HeapOK(base, m)
  <2>1. base \in Heaps
    BY <1>3, <1>6, <1>9, HeapType
  <2>2. ScopesOf(base) = {}
    BY <1>9 DEF ScopesOf
  <2>3. Ranked(base)
    <3> DEFINE r == [i \in DOMAIN base |-> 0]
    <3>1. 0 \in Nat /\ r \in [DOMAIN base -> 0 .. 0]
      OBVIOUS
    <3> HIDE DEF r
    <3>2. QED BY <2>2, <3>1 DEF Ranked
  <2>4. Is(base, Global, {"global"}) /\ \A o \in DOMAIN Plain : Is(base, o, {"plain"})
    BY <1>6, <1>7, <1>8 DEF Is
  <2>5. QED BY <1>3, <1>6, <1>9, <2>1, <2>2, <2>3, <2>4 DEF HeapOK
<1> DEFINE e == Global
           p == Null
<1>11. Is(base, e, Environments) /\ (p = Null /\ e = Global) /\ InitialScope = NewScope(base, e, p)
  BY <1>2, <1>6, <1>7 DEF Is, Environments
<1> HIDE DEF e, p
<1> DEFINE s == NewScope(base, e, p)
<1>12. HeapOK(s.h, m) /\ Grows(base, s.h) /\ s.id \in ScopesOf(s.h) /\ s.h[s.id].env = e /\ s.h[s.id].prev = p
  BY <1>10, <1>11, NewScopeOK
<1>13. heap = s.h /\ active = s.id /\ strict = FALSE /\ frames = <<>>
  BY <1>11 DEF Init, InitialHeap
<1> HIDE DEF s
<1>14. Is(heap, active, {"scope"}) /\ CodeInItsScope
  <2>1. Is(heap, Global, {"global"})
    BY <1>12, <1>13 DEF HeapOK
  <2>2. Suits(heap, active, "program", strict)
    BY <1>11, <1>12, <1>13, <2>1 DEF Suits, Is
  <2>3. QED BY <1>12, <1>13, <2>2 DEF CodeInItsScope, Inside, Is, ScopesOf
<1>15. DOMAIN frames = {} /\ frames \in Seq(ToSet(frames))
  BY <1>13, EmptySeq
<1>16. FramesInv
  BY <1>13, <1>14, <1>15 DEF FramesInv
<1>17. QED BY <1>1, <1>12, <1>13, <1>15, <1>16 DEF ScopesInv

(* The invariant: every heap is one of objects whose references go to what *)
(* their use expects, chains of scopes end, there is one meaning for the   *)
(* addresses that scopes remember and frames use unless trees are reused,  *)
(* and each frame can go back to a scope that suits what is below it.      *)
THEOREM ScopesInvariant == Spec => []ScopesInv
<1>1. ScopesInv /\ [Next]_vars => ScopesInv'
  BY NextOK, StaysOK DEF Step
<1>2. QED BY InitOK, <1>1, PTL DEF Spec

(* No pointer of a scope, a function or an activation dangles, whatever    *)
(* calls, eval, with, catch and collections are interleaved.               *)
THEOREM ScopesTypes == Spec => []TypeOK
<1>1. ASSUME ScopesInv PROVE TypeOK
  <2>1. PICK m : Good(m)
    BY <1>1, GoodIs
  <2>2. \A i \in DOMAIN heap : Refers(heap, heap[i])
    BY <2>1 DEF Good, HeapOK
  <2>3. QED BY <1>1, <2>2 DEF ScopesInv, FramesInv, TypeOK
<1>2. QED BY ScopesInvariant, <1>1, PTL

(* The two vectors of put_local_function stay in line, and an address of   *)
(* the running code has a function of that definition beside it or none,   *)
(* unless a tree came to lie where another one was freed.                  *)
THEOREM CachesStayAligned ==
  ASSUME ~TreesReused
  PROVE  Spec => []CachesAligned
<1>1. ASSUME ScopesInv PROVE CachesAligned
  <2>1. PICK m : Good(m)
    BY <1>1, GoodIs
  <2>2. HeapOK(heap, m)
    BY <2>1 DEF Good
  <2>3. ASSUME NEW s \in ScopesOf(heap)
        PROVE  /\ Len(heap[s].funcs) = Len(heap[s].vals) /\ IsInjective(heap[s].funcs)
               /\ \A v \in ToSet(heap[s].vals) \ {Null} : heap[v].scope = s
               /\ DOMAIN heap[s].funcs = DOMAIN heap[s].vals
    <3>1. CacheOK(heap, s, heap[s], m) /\ heap[s].funcs \in Seq(Addresses) /\ heap[s].vals \in Seq(Nat)
      BY <2>2, ScopeFacts
    <3>2. \A v \in ToSet(heap[s].vals) \ {Null} : heap[v].scope = s
      BY <3>1 DEF CacheOK, ToSet
    <3>3. DOMAIN heap[s].funcs = DOMAIN heap[s].vals
      BY <3>1, LenProperties DEF CacheOK
    <3>4. QED BY <3>1, <3>2, <3>3 DEF CacheOK
  <2>4. ASSUME Inside, NEW d \in Definitions(Running), NEW k \in DOMAIN heap[active].funcs,
               heap[active].funcs[k] = Last(frames).at[d], heap[active].vals[k] # Null
        PROVE  heap[heap[active].vals[k]].code = d
    <3>1. active \in ScopesOf(heap)
      BY <2>1, GoodFacts
    <3>2. CacheOK(heap, active, heap[active], m) /\ k \in DOMAIN heap[active].vals
      BY <2>2, <2>3, <3>1, ScopeFacts
    <3>3. Stands(m, heap[active].funcs[k], heap[heap[active].vals[k]].code)
      BY <2>4, <3>2 DEF CacheOK
    <3>4. Stands(m, Last(frames).at[d], d)
      BY <2>1, <2>4, RunningFacts
    <3>5. QED BY <2>4, <3>3, <3>4 DEF Stands
  <2>5. QED BY <2>3, <2>4 DEF CachesAligned, ScopesOf
<1>2. QED BY ScopesInvariant, <1>1, PTL

(* Whatever is entered and left, code runs in a scope of its kind.         *)
THEOREM CodeRunsInItsScope == Spec => []CodeInItsScope
<1>1. ScopesInv => CodeInItsScope
  BY DEF ScopesInv, FramesInv
<1>2. QED BY ScopesInvariant, <1>1, PTL

(* A variable or function definition that runs takes effect: the name      *)
(* means the new value, or a function of that definition and this scope,   *)
(* unless a tree came to lie where another one was freed.                  *)
THEOREM DeclarationsHold ==
  ASSUME ~TreesReused
  PROVE  Spec => []DeclarationsTakeEffect
<1>1. ASSUME ScopesInv PROVE DeclarationsTakeEffect
  <2> SUFFICES ASSUME Inside, NEW s \in {t \in Codes[Running].body : t.op \in {"var", "define"}},
                      s.op = "define" \/ (Evaluates(s.e) /\ HasProperty(heap, active, s.x))
               PROVE
        LET x == IF s.op = "define" THEN Codes[s.code].id ELSE s.x
            h == IF s.op = "define" THEN PutLocalFunction(heap, active, s.code, Last(frames).at[s.code])
                 ELSE PutLocal(heap, active, x, Value(s.e))
            now == Get(h, Lookup(h, active, x), x)
        IN      \/ Alias(h, Lookup(h, active, x), x) # 0
                \/ s.op = "var" /\ now = Value(s.e)
                \/ s.op = "define" /\ now \in DOMAIN h /\ h[now].code = s.code /\ h[now].scope = active
    BY DEF DeclarationsTakeEffect
  <2>1. PICK m : Good(m)
    BY <1>1, GoodIs
  <2>2. HeapOK(heap, m) /\ active \in ScopesOf(heap) /\ StatementOK(Running, s)
    BY <2>1, GoodFacts, RunningFacts, ScopesAssumption DEF Good
  <2>3. CASE s.op = "var"
    <3> DEFINE v == Value(s.e)
               h == PutLocal(heap, active, s.x, v)
    <3>1. s.x \in Names /\ s.e \in Names \cup Values
      BY <2>2, <2>3 DEF StatementOK
    <3>2. Means(heap, v)
      BY <2>1, <2>3, <3>1, ValueMeans
    <3> HIDE DEF v
    <3>3. Meant(h, active, s.x, v)
      BY <2>2, <3>1, <3>2, PutLocalMeans
    <3> HIDE DEF h
    <3>4. QED BY <2>3, <3>3 DEF Meant, h, v
  <2>4. CASE s.op = "define"
    <3> DEFINE d == s.code
               x == Codes[d].id
               node == Last(frames).at[d]
               h == PutLocalFunction(heap, active, d, node)
    <3>1. d \in Definitions(Running) /\ d \in DOMAIN Codes /\ x \in Names
          /\ node \in Addresses /\ Stands(m, node, d)
      <4>1. d \in Definitions(Running)
        BY <2>2, <2>4 DEF StatementOK
      <4>2. QED BY <2>1, <4>1, RunningFacts, CodeFacts
    <3>2. DefinitionHolds(h, active, d, x)
      <4> HIDE DEF d, x, node, h
      <4>1. QED BY <2>2, <3>1, FunctionHolds DEF h, x
    <3> HIDE DEF h
    <3>3. QED BY <2>4, <3>2 DEF DefinitionHolds, h
  <2>5. QED BY <2>3, <2>4
<1>2. QED BY ScopesInvariant, <1>1, PTL

(* No step adds a name to an object of a with or catch block: declarations *)
(* pass it by, and an assignment finds only names that are there.          *)
THEOREM BlocksGainNothing == Spec => BlockObjectsGainNothing
<1> DEFINE Gains == \E i \in DOMAIN heap \cap DOMAIN heap' :
             /\ heap[i].kind = "plain" /\ heap'[i].kind = "plain"
             /\ ~ (DOMAIN heap'[i].props \subseteq DOMAIN heap[i].props)
<1>1. ASSUME ScopesInv, [Next]_vars PROVE ~Gains
  <2>1. CASE Next
    BY <1>1, <2>1, NextOK DEF Step, Keeps
  <2>2. CASE UNCHANGED vars
    BY <2>2 DEF vars
  <2>3. QED BY <1>1, <2>1, <2>2
<1>2. ScopesInv /\ [Next]_vars =>
        [\A i \in DOMAIN heap \cap DOMAIN heap' :
            heap[i].kind = "plain" /\ heap'[i].kind = "plain" =>
                DOMAIN heap'[i].props \subseteq DOMAIN heap[i].props]_vars
  BY <1>1
<1>3. QED BY ScopesInvariant, <1>2, PTL DEF Spec, BlockObjectsGainNothing
=============================================================================
