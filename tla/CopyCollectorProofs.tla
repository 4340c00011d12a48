------------------------ MODULE CopyCollectorProofs ------------------------
(***************************************************************************)
(* What holds of the collection algorithm for any number of handles,       *)
(* types, members, positions and identities, and that it implements the    *)
(* object graph.                                                           *)
(***************************************************************************)
EXTENDS CopyCollector, TLAPS

USE CollectorAssumption

(* The heap starts without objects and outside a collection.               *)
LEMMA InitIInv == Init => IInv
  BY DEF Init, IInv, TypeOK, OnlyMembers, PendingWellFormed, MutateInv, MoveInv, SweepInv,
         NoDangling, UsedRef, IsObject, Pos, Ptr, NoFields, To, HalfOf

LEMMA HalvesDisjoint ==
  ASSUME active \in {0, 1}
  PROVE  From \cup To = Pos /\ From \cap To = {} /\ Null \notin From /\ Null \notin To
  BY DEF From, To, HalfOf, Pos

LEMMA MakeIInv ==
  ASSUME IInv, NEW h \in Handles, NEW t \in Types, NEW x \in Ids, NEW p \in Pos,
         NEW init \in [Fields -> HandleValues], Make(h, t, x, p, init)
  PROVE  IInv'
<1> USE HalvesDisjoint DEF IInv
<1>1. TypeOK'
  BY DEF Make, TypeOK, HandleValues, Ptr, gcVars, Pos
<1>2. PendingWellFormed'
  BY DEF Make, MutateInv, PendingWellFormed, gcVars
<1>3. (MoveInv /\ SweepInv)'
  BY DEF Make, MoveInv, SweepInv, gcVars
<1>4. MutateInv'
  BY DEF Make, MutateInv, TypeOK, gcVars, To, HalfOf, From
<1>5. NoDangling'
  BY DEF Make, NoDangling, UsedRef, IsObject, TypeOK, HandleValues, gcVars
<1>6. OnlyMembers'
  BY DEF Make, OnlyMembers, IsObject, TypeOK, PointersOf
<1>7. QED BY <1>1, <1>2, <1>3, <1>4, <1>5, <1>6

LEMMA SetHandleIInv ==
  ASSUME IInv, NEW h \in Handles, NEW v \in HandleValues, SetHandle(h, v)
  PROVE  IInv'
<1> USE HalvesDisjoint DEF IInv
<1>1. TypeOK'
  BY DEF SetHandle, TypeOK, HandleValues, Ptr, gcVars
<1>2. PendingWellFormed'
  BY DEF SetHandle, MutateInv, PendingWellFormed, gcVars
<1>3. (MoveInv /\ SweepInv)'
  BY DEF SetHandle, MoveInv, SweepInv, gcVars
<1>4. MutateInv'
  BY DEF SetHandle, MutateInv, TypeOK, gcVars, To, HalfOf
<1>5. NoDangling'
  BY DEF SetHandle, NoDangling, UsedRef, IsObject, TypeOK, HandleValues, gcVars
<1>6. OnlyMembers'
  BY DEF SetHandle, OnlyMembers, IsObject
<1>7. QED BY <1>1, <1>2, <1>3, <1>4, <1>5, <1>6

LEMMA SetFieldIInv ==
  ASSUME IInv, NEW p \in Pos, NEW f \in Fields, NEW v \in HandleValues,
         SetField(p, f, v)
  PROVE  IInv'
<1> USE HalvesDisjoint DEF IInv
<1>1. TypeOK'
  BY DEF SetField, TypeOK, HandleValues, Ptr, gcVars
<1>2. PendingWellFormed'
  BY DEF SetField, MutateInv, PendingWellFormed, gcVars
<1>3. (MoveInv /\ SweepInv)'
  BY DEF SetField, MoveInv, SweepInv, gcVars
<1>4. MutateInv'
  BY DEF SetField, MutateInv, TypeOK, gcVars, To, HalfOf
<1>5. NoDangling'
  BY DEF SetField, NoDangling, UsedRef, IsObject, TypeOK, HandleValues, gcVars
<1>6. OnlyMembers'
  BY DEF SetField, OnlyMembers, IsObject, TypeOK, PointersOf
<1>7. QED BY <1>1, <1>2, <1>3, <1>4, <1>5, <1>6

LEMMA TrackIInv ==
  ASSUME IInv, NEW h \in Handles, NEW p \in Pos, NEW f \in Fields, Track(h, p, f)
  PROVE  IInv'
<1> USE HalvesDisjoint DEF IInv
<1>1. TypeOK'
  BY DEF Track, TypeOK, Ptr, gcVars
<1>2. PendingWellFormed'
  BY DEF Track, MutateInv, PendingWellFormed, gcVars
<1>3. (MoveInv /\ SweepInv)'
  BY DEF Track, MoveInv, SweepInv, gcVars
<1>4. MutateInv'
  BY DEF Track, MutateInv, TypeOK, gcVars, To, HalfOf
<1>5. NoDangling'
  BY DEF Track, NoDangling, UsedRef, IsObject, TypeOK, gcVars
<1>6. OnlyMembers'
  BY DEF Track, OnlyMembers, IsObject
<1>7. QED BY <1>1, <1>2, <1>3, <1>4, <1>5, <1>6

LEMMA GcBeginIInv ==
  ASSUME IInv, GcBegin
  PROVE  IInv'
<1> USE HalvesDisjoint DEF IInv
<1>1. TypeOK'
  BY DEF GcBegin, TypeOK, HandlesInUse
<1>2. PendingWellFormed'
  BY DEF GcBegin, MutateInv, PendingWellFormed, HandlesInUse
<1>3. MoveInv'
  BY DEF GcBegin, MutateInv, MoveInv, NoDangling, UsedRef, IsObject, TypeOK,
         HandlesInUse, OldRef, NewRef, Ptr, From, To, HalfOf
<1>4. (MutateInv /\ SweepInv /\ NoDangling)'
  BY DEF GcBegin, MutateInv, SweepInv, NoDangling
<1>5. OnlyMembers'
  BY DEF GcBegin, OnlyMembers, IsObject
<1>6. QED BY <1>1, <1>2, <1>3, <1>4, <1>5

LEMMA GcNoRootsIInv ==
  ASSUME IInv, GcNoRoots
  PROVE  IInv'
<1> USE HalvesDisjoint DEF IInv
<1>1. TypeOK'
  BY DEF GcNoRoots, ReleaseFrom, Released, TypeOK, NoFields, Ptr, gcVars
<1>2. (PendingWellFormed /\ MoveInv /\ SweepInv)'
  BY DEF GcNoRoots, MutateInv, PendingWellFormed, MoveInv, SweepInv, gcVars
<1>3. \A p \in Pos : type'[p] = Free
  BY DEF GcNoRoots, ReleaseFrom, Released, MutateInv, TypeOK
<1>4. MutateInv'
  BY <1>3 DEF GcNoRoots, MutateInv, gcVars, To, HalfOf, TypeOK
<1>5. NoDangling'
  BY <1>3 DEF GcNoRoots, NoDangling, UsedRef, IsObject, HandlesInUse, TypeOK
<1>6. OnlyMembers'
  BY <1>3 DEF OnlyMembers, IsObject
<1>7. QED BY <1>1, <1>2, <1>4, <1>5, <1>6

-----------------------------------------------------------------------------
(* gc_move.                                                                *)

(* What a copy of p at q does, wherever the pointer to p came from: the    *)
(* other objects, their members and what has moved already stay.           *)
Effect(p, q) ==
  /\ p # q /\ p \in From /\ p \notin To /\ q \in To /\ q \notin From
  /\ type' \in [Pos -> Types \cup {Free, Moved}]
  /\ id' \in [Pos -> Ids \cup {Null}]
  /\ newPos' \in [Pos -> Ptr]
  /\ weakFixups' \in SUBSET (Pos \X Fields)
  /\ Copied(p, q) \in [Pos -> [Fields -> Ptr]]
  /\ Copied(p, q)[q] = fld[p]
  /\ Copied(p, q)[p] = NoFields
  /\ \A r \in Pos : r # p /\ r # q => Copied(p, q)[r] = fld[r]
  /\ type[p] \in Types /\ type[q] = Free
  /\ type'[p] = Moved /\ type'[q] = type[p] /\ newPos'[p] = q
  /\ \A r \in Pos : r # p /\ r # q =>
       type'[r] = type[r] /\ newPos'[r] = newPos[r]
  /\ weakFixups' = weakFixups \cup WeakPointers(q, p)

LEMMA RelocateEffect ==
  ASSUME TypeOK, NEW p \in From, NEW q \in Pos, Relocate(p, q)
  PROVE  Effect(p, q)
<1>1. p # q /\ p \in From /\ p \notin To /\ q \in To /\ q \notin From /\ p \in Pos
      /\ type[p] \in Types /\ type[q] = Free
  BY HalvesDisjoint DEF TypeOK, Relocate, IsObject
<1>2. /\ type' \in [Pos -> Types \cup {Free, Moved}]
      /\ id' \in [Pos -> Ids \cup {Null}]
      /\ newPos' \in [Pos -> Ptr]
  BY <1>1 DEF TypeOK, Relocate, Ptr, Pos
<1>3. /\ weakFixups' \in SUBSET (Pos \X Fields)
      /\ weakFixups' = weakFixups \cup WeakPointers(q, p)
  BY <1>1 DEF TypeOK, Relocate, WeakPointers
<1>4. /\ Copied(p, q) \in [Pos -> [Fields -> Ptr]]
      /\ Copied(p, q)[q] = fld[p]
      /\ Copied(p, q)[p] = NoFields
      /\ \A r \in Pos : r # p /\ r # q => Copied(p, q)[r] = fld[r]
  BY <1>1 DEF TypeOK, Copied, NoFields, Ptr
<1>5. /\ type'[p] = Moved /\ type'[q] = type[p] /\ newPos'[p] = q
      /\ \A r \in Pos : r # p /\ r # q =>
           type'[r] = type[r] /\ newPos'[r] = newPos[r]
  BY <1>1 DEF TypeOK, Relocate
<1>6. QED
  BY <1>1, <1>2, <1>3, <1>4, <1>5 DEF Effect

(* OldRef and NewRef of the next state, when the halves stay as they are.  *)
OldNext(v) == v \in From /\ type'[v] # Free
NewNext(v) == v = Null \/ (v \in To /\ type'[v] \in Types)

LEMMA NextRefs ==
  ASSUME active' = active
  PROVE  /\ From' = From /\ To' = To
         /\ \A v : OldRef(v)' <=> OldNext(v)
         /\ \A v : NewRef(v)' <=> NewNext(v)
  BY DEF From, To, HalfOf, OldRef, NewRef, OldNext, NewNext, IsObject

(* A pointer into the old half still refers to something there after any   *)
(* further move, and one that is fixed up to an object of the new half.    *)
LEMMA RelocateKeepsRefs ==
  ASSUME TypeOK, NEW p \in From, NEW q \in Pos, Effect(p, q)
  PROVE  \A v : (OldRef(v) => OldNext(v)) /\ (NewRef(v) => NewNext(v))
<1> USE HalvesDisjoint
<1>1. active \in {0, 1} /\ \A r \in Pos : r # p /\ r # q => type'[r] = type[r]
  BY DEF TypeOK, Effect
<1>2. ASSUME NEW v, OldRef(v) PROVE OldNext(v)
  <2>1. v \in From /\ v \in Pos /\ v # q
    BY <1>1, <1>2 DEF OldRef, Effect
  <2>2. QED BY <1>1, <1>2, <2>1 DEF OldRef, OldNext, Effect
<1>3. ASSUME NEW v, NewRef(v) PROVE NewNext(v)
  <2>1. CASE v = Null
    BY <2>1 DEF NewNext
  <2>2. CASE v # Null
    <3>1. v \in To /\ v \in Pos /\ type[v] \in Types
      BY <1>1, <1>3, <2>2 DEF NewRef, IsObject
    <3>2. v # q /\ v # p
      BY <3>1 DEF Effect
    <3>3. QED BY <1>1, <3>1, <3>2 DEF NewNext
  <2>3. QED BY <2>1, <2>2
<1>4. QED BY <1>2, <1>3

(* The pending pointers of the copy: each of its members that is not empty *)
(* and no other location.                                                  *)
CopyPends(p, q) ==
  \A r \in Pos, f \in Fields :
    /\ <<r, f>> \in StrongPointers(q, p) <=>
         r = q /\ f \in StrongOf[type[p]] /\ fld[p][f] # Null
    /\ <<r, f>> \in WeakPointers(q, p) <=>
         r = q /\ f \in WeakOf[type[p]] /\ fld[p][f] # Null
    /\ r = q => <<r, f>> \notin pendingFields /\ <<r, f>> \notin weakFixups

LEMMA RelocatePends ==
  ASSUME TypeOK, PendingWellFormed, NEW p \in From, NEW q \in Pos, Effect(p, q)
  PROVE  CopyPends(p, q)
<1> USE HalvesDisjoint
<1>1. type[p] \in Types /\ type[q] \notin Types
  BY DEF Effect
<1>2. \A r \in Pos, f \in Fields :
        /\ <<r, f>> \in StrongPointers(q, p) <=>
             r = q /\ f \in StrongOf[type[p]] /\ fld[p][f] # Null
        /\ <<r, f>> \in WeakPointers(q, p) <=>
             r = q /\ f \in WeakOf[type[p]] /\ fld[p][f] # Null
  BY <1>1 DEF StrongPointers, WeakPointers
<1>3. \A f \in Fields : <<q, f>> \notin pendingFields /\ <<q, f>> \notin weakFixups
  BY <1>1 DEF PendingWellFormed, IsObject
<1>4. QED BY <1>2, <1>3 DEF CopyPends

(* After the copy, and before the pointer that led to it is stored: the    *)
(* members of every object of the new half are fixed up or wait, those of  *)
(* the old half refer to the old half.                                     *)
CopyInv(p, q) ==
  /\ \A r \in To, f \in Fields : type'[r] \in Types =>
       IF <<r, f>> \in pendingFields \cup StrongPointers(q, p) \cup weakFixups'
       THEN OldNext(Copied(p, q)[r][f])
       ELSE NewNext(Copied(p, q)[r][f])
  /\ \A r \in From, f \in Fields : type'[r] \in Types =>
       Copied(p, q)[r][f] = Null \/ OldNext(Copied(p, q)[r][f])
  /\ \A r \in To : type'[r] # Moved
  /\ \A r \in From : type'[r] = Moved =>
       newPos'[r] \in To /\ type'[newPos'[r]] \in Types

LEMMA RelocateCopyInv ==
  ASSUME TypeOK, OnlyMembers, PendingWellFormed, MoveInv, phase = "move",
         NEW p \in From, NEW q \in Pos, Effect(p, q)
  PROVE  CopyInv(p, q)
<1>1. CopyPends(p, q)
  BY RelocatePends
<1>2. \A v : (OldRef(v) => OldNext(v)) /\ (NewRef(v) => NewNext(v))
  BY RelocateKeepsRefs
<1>3. p \in Pos /\ From \subseteq Pos /\ To \subseteq Pos /\ From \cap To = {}
  BY HalvesDisjoint DEF TypeOK
<1>4. \A r \in Pos : r # p /\ r # q =>
        type'[r] = type[r] /\ newPos'[r] = newPos[r] /\ Copied(p, q)[r] = fld[r]
  BY DEF Effect
<1>5. ASSUME NEW r \in To, NEW f \in Fields, type'[r] \in Types
      PROVE  IF <<r, f>> \in pendingFields \cup StrongPointers(q, p) \cup weakFixups'
             THEN OldNext(Copied(p, q)[r][f]) ELSE NewNext(Copied(p, q)[r][f])
  <2>1. r \in Pos /\ r # p
    BY <1>3 DEF Effect
  <2>2. CASE r = q
    <3>1. Copied(p, q)[r][f] = fld[p][f]
      BY <2>2 DEF Effect
    <3>2. CASE fld[p][f] = Null
      BY <1>1, <2>1, <2>2, <3>1, <3>2 DEF NewNext, CopyPends, Effect
    <3>3. CASE fld[p][f] # Null
      <4>1. f \in StrongOf[type[p]] \/ f \in WeakOf[type[p]]
        BY <1>3, <3>3 DEF OnlyMembers, IsObject, PointersOf, Effect
      <4>2. OldRef(fld[p][f])
        BY <3>3 DEF MoveInv, IsObject, Effect
      <4>3. QED BY <1>1, <1>2, <2>1, <2>2, <3>1, <3>3, <4>1, <4>2 DEF CopyPends, Effect
    <3>4. QED BY <3>2, <3>3
  <2>3. CASE r # q
    <3>1. type[r] \in Types /\ Copied(p, q)[r][f] = fld[r][f]
      BY <1>4, <1>5, <2>1, <2>3
    <3>2. <<r, f>> \in pendingFields \cup StrongPointers(q, p) \cup weakFixups'
            <=> <<r, f>> \in pendingFields \cup weakFixups
      BY <1>1, <2>1, <2>3 DEF CopyPends, Effect
    <3>3. IF <<r, f>> \in pendingFields \cup weakFixups
          THEN OldRef(fld[r][f]) ELSE NewRef(fld[r][f])
      BY <3>1 DEF MoveInv, IsObject
    <3>4. QED BY <1>2, <3>1, <3>2, <3>3
  <2>4. QED BY <2>2, <2>3
<1>6. ASSUME NEW r \in From, NEW f \in Fields, type'[r] \in Types
      PROVE  Copied(p, q)[r][f] = Null \/ OldNext(Copied(p, q)[r][f])
  <2>1. r # p /\ r # q /\ r \in Pos
    BY <1>3, <1>6 DEF Effect
  <2>2. QED BY <1>2, <1>4, <1>6, <2>1 DEF MoveInv, IsObject
<1>7. \A r \in To : type'[r] # Moved
  BY <1>3, <1>4 DEF MoveInv, Effect
<1>8. ASSUME NEW r \in From, type'[r] = Moved
      PROVE  newPos'[r] \in To /\ type'[newPos'[r]] \in Types
  <2>1. r # q
    BY <1>3 DEF Effect
  <2>2. CASE r = p
    BY <2>2 DEF Effect
  <2>3. CASE r # p
    <3>1. newPos[r] \in To /\ type[newPos[r]] \in Types /\ newPos'[r] = newPos[r]
      BY <1>3, <1>4, <1>8, <2>1, <2>3 DEF MoveInv, IsObject
    <3>2. newPos[r] # p /\ newPos[r] # q
      BY <3>1 DEF Effect
    <3>3. QED BY <1>3, <1>4, <3>1, <3>2
  <2>4. QED BY <2>2, <2>3
<1>9. QED BY <1>5, <1>6, <1>7, <1>8 DEF CopyInv

(* The pending locations stay well formed, whichever of them is taken.     *)
LEMMA RelocatePending ==
  ASSUME TypeOK, PendingWellFormed, NEW p \in From, NEW q \in Pos, Effect(p, q),
         active' = active,
         pendingHandles' \subseteq pendingHandles,
         \A h \in pendingHandles' : root'[h] = root[h],
         pendingFields' \subseteq pendingFields \cup StrongPointers(q, p),
         \A l \in pendingFields' \cup weakFixups' :
           fld'[l[1]][l[2]] = Copied(p, q)[l[1]][l[2]]
  PROVE  PendingWellFormed'
<1> USE HalvesDisjoint
<1>1. CopyPends(p, q)
  BY RelocatePends
<1>2. To' = To /\ p \in Pos /\ \A r \in To : r \in Pos
  BY DEF To, HalfOf, TypeOK
<1>3. \A r \in To : type[r] \in Types =>
        type'[r] = type[r] /\ Copied(p, q)[r] = fld[r]
  BY <1>2 DEF Effect
<1>4. \A h \in pendingHandles' : root'[h] # Null
  BY DEF PendingWellFormed
<1>5. ASSUME NEW r \in Pos, NEW f \in Fields, <<r, f>> \in pendingFields'
      PROVE  r \in To /\ type'[r] \in Types /\ f \in StrongOf[type'[r]] /\ fld'[r][f] # Null
  <2>1. fld'[r][f] = Copied(p, q)[r][f]
    BY <1>5
  <2>2. CASE <<r, f>> \in pendingFields
    BY <1>3, <2>1, <2>2 DEF PendingWellFormed, IsObject
  <2>3. CASE <<r, f>> \in StrongPointers(q, p)
    BY <1>1, <2>1, <2>3 DEF CopyPends, Effect
  <2>4. QED BY <1>5, <2>2, <2>3
<1>6. ASSUME NEW r \in Pos, NEW f \in Fields, <<r, f>> \in weakFixups'
      PROVE  r \in To /\ type'[r] \in Types /\ f \in WeakOf[type'[r]] /\ fld'[r][f] # Null
  <2>1. fld'[r][f] = Copied(p, q)[r][f]
    BY <1>6
  <2>2. CASE <<r, f>> \in weakFixups
    BY <1>3, <2>1, <2>2 DEF PendingWellFormed, IsObject
  <2>3. CASE <<r, f>> \in WeakPointers(q, p)
    BY <1>1, <2>1, <2>3 DEF CopyPends, Effect
  <2>4. QED BY <1>6, <2>2, <2>3 DEF Effect
<1>7. QED BY <1>2, <1>4, <1>5, <1>6 DEF PendingWellFormed, IsObject

(* A copy has the members of its type and no others.                       *)
LEMMA RelocateOnlyMembers ==
  ASSUME TypeOK, OnlyMembers, NEW p \in From, NEW q \in Pos, Effect(p, q)
  PROVE  \A r \in Pos, f \in Fields :
           type'[r] \in Types /\ f \notin PointersOf(type'[r]) => Copied(p, q)[r][f] = Null
<1> SUFFICES ASSUME NEW r \in Pos, NEW f \in Fields,
                    type'[r] \in Types, f \notin PointersOf(type'[r])
             PROVE  Copied(p, q)[r][f] = Null
  OBVIOUS
<1>1. r # p /\ p \in Pos
  BY HalvesDisjoint DEF Effect, TypeOK
<1>2. CASE r = q
  BY <1>1, <1>2 DEF Effect, OnlyMembers, IsObject
<1>3. CASE r # q
  BY <1>1, <1>3 DEF Effect, OnlyMembers, IsObject
<1>4. QED BY <1>2, <1>3

LEMMA FixHandleMoveIInv ==
  ASSUME IInv, NEW h \in Handles, NEW q \in Pos, FixHandleMove(h, q)
  PROVE  IInv'
<1> DEFINE p == root[h]
<1>0. TypeOK /\ OnlyMembers /\ PendingWellFormed /\ MoveInv
  BY DEF IInv
<1>1. /\ phase = "move" /\ phase' = "move" /\ active' = active
      /\ h \in pendingHandles /\ pendingHandles' = pendingHandles \ {h}
      /\ root' = [root EXCEPT ![h] = q]
      /\ Relocate(p, q) /\ fld' = Copied(p, q)
      /\ pendingFields' = pendingFields \cup StrongPointers(q, p)
  BY DEF FixHandleMove, FixHandle
<1>2. p \in From
  BY <1>0, <1>1 DEF MoveInv, OldRef
<1> HIDE DEF p
<1>3. Effect(p, q) /\ q \in To
  BY <1>0, <1>1, <1>2, RelocateEffect DEF Effect
<1>4. CopyInv(p, q)
  BY <1>0, <1>1, <1>2, <1>3, RelocateCopyInv
<1>5. /\ From' = From /\ To' = To
      /\ \A v : OldRef(v)' <=> OldNext(v)
      /\ \A v : NewRef(v)' <=> NewNext(v)
  BY <1>1, NextRefs
<1>6. TypeOK'
  BY <1>0, <1>1, <1>3, HalvesDisjoint DEF TypeOK, Effect, Ptr, StrongPointers
<1>7. OnlyMembers'
  BY <1>0, <1>1, <1>2, <1>3, RelocateOnlyMembers DEF OnlyMembers, IsObject
<1>8. PendingWellFormed'
  <2>1. \A g \in pendingHandles' : root'[g] = root[g]
    BY <1>0, <1>1 DEF TypeOK
  <2>2. QED BY <1>0, <1>1, <1>2, <1>3, <2>1, RelocatePending
<1>9. MoveInv'
  <2>1. ASSUME NEW g \in Handles
        PROVE  IF g \in pendingHandles' THEN OldRef(root[g])' ELSE NewRef(root[g])'
    <3>1. CASE g = h
      BY <1>0, <1>1, <1>3, <1>5, <3>1 DEF NewRef, IsObject, Effect, TypeOK
    <3>2. CASE g # h
      <4>1. root'[g] = root[g] /\ (g \in pendingHandles' <=> g \in pendingHandles)
        BY <1>0, <1>1, <3>2 DEF TypeOK
      <4>2. IF g \in pendingHandles THEN OldNext(root[g]) ELSE NewNext(root[g])
        BY <1>0, <1>1, <1>2, <1>3, RelocateKeepsRefs DEF MoveInv
      <4>3. QED BY <1>5, <4>1, <4>2 DEF OldRef, NewRef, OldNext, NewNext, IsObject
    <3>3. QED BY <3>1, <3>2
  <2>2. QED
    BY <1>1, <1>4, <1>5, <2>1
       DEF MoveInv, CopyInv, IsObject, OldRef, NewRef, OldNext, NewNext
<1>10. (MutateInv /\ SweepInv /\ NoDangling)'
  BY <1>1 DEF MutateInv, SweepInv, NoDangling
<1>11. QED BY <1>6, <1>7, <1>8, <1>9, <1>10 DEF IInv

LEMMA FixFieldMoveIInv ==
  ASSUME IInv, NEW o \in Pos, NEW g \in Fields, NEW q \in Pos, FixFieldMove(o, g, q)
  PROVE  IInv'
<1> DEFINE p == fld[o][g]
<1>0. TypeOK /\ OnlyMembers /\ PendingWellFormed /\ MoveInv
  BY DEF IInv
<1>1. /\ phase = "move" /\ phase' = "move" /\ active' = active
      /\ <<o, g>> \in pendingFields
      /\ root' = root /\ pendingHandles' = pendingHandles
      /\ Relocate(p, q) /\ fld' = [Copied(p, q) EXCEPT ![o][g] = q]
      /\ pendingFields' = (pendingFields \ {<<o, g>>}) \cup StrongPointers(q, p)
  BY DEF FixFieldMove, FixField
<1>2. o \in To /\ type[o] \in Types /\ g \in StrongOf[type[o]] /\ p # Null
  BY <1>0, <1>1 DEF PendingWellFormed, IsObject
<1>3. p \in From
  BY <1>0, <1>1, <1>2 DEF MoveInv, OldRef, IsObject
<1> HIDE DEF p
<1>4. Effect(p, q) /\ q \in To /\ p \in Pos
  BY <1>0, <1>1, <1>3, RelocateEffect, HalvesDisjoint DEF Effect, TypeOK
<1>5. o # q /\ o # p /\ type'[o] = type[o]
  BY <1>2, <1>4 DEF Effect
<1>6. /\ From' = From /\ To' = To
      /\ \A v : OldRef(v)' <=> OldNext(v)
      /\ \A v : NewRef(v)' <=> NewNext(v)
  BY <1>1, NextRefs
<1>7. CopyInv(p, q) /\ CopyPends(p, q)
  BY <1>0, <1>1, <1>3, <1>4, RelocateCopyInv, RelocatePends
<1>8. /\ fld'[o][g] = q
      /\ \A r \in Pos, f \in Fields : <<r, f>> # <<o, g>> => fld'[r][f] = Copied(p, q)[r][f]
  BY <1>1, <1>4 DEF Effect
<1>9. TypeOK'
  <2>1. Copied(p, q) \in [Pos -> [Fields -> Ptr]] /\ q \in Ptr
    BY <1>4 DEF Effect, Ptr
  <2>2. fld' \in [Pos -> [Fields -> Ptr]]
    BY <1>1, <2>1
  <2>3. pendingFields' \in SUBSET (Pos \X Fields)
    BY <1>0, <1>1, <1>4 DEF TypeOK, StrongPointers, Effect
  <2>4. QED BY <1>0, <1>1, <1>4, <2>2, <2>3 DEF TypeOK, Effect
<1>10. OnlyMembers'
  BY <1>0, <1>2, <1>3, <1>4, <1>5, <1>8, RelocateOnlyMembers
     DEF OnlyMembers, IsObject, PointersOf
<1>11. PendingWellFormed'
  <2>1. <<o, g>> \notin pendingFields' /\ <<o, g>> \notin weakFixups'
    <3>1. <<o, g>> \notin weakFixups
      BY <1>0, <1>2 DEF PendingWellFormed, IsObject
    <3>2. <<o, g>> \notin StrongPointers(q, p) /\ <<o, g>> \notin WeakPointers(q, p)
      BY <1>5, <1>7 DEF CopyPends
    <3>3. QED BY <1>1, <1>4, <3>1, <3>2 DEF Effect
  <2>2. pendingFields' \in SUBSET (Pos \X Fields) /\ weakFixups' \in SUBSET (Pos \X Fields)
    BY <1>9 DEF TypeOK
  <2>3. \A l \in pendingFields' \cup weakFixups' :
          fld'[l[1]][l[2]] = Copied(p, q)[l[1]][l[2]]
    BY <1>8, <2>1, <2>2
  <2>4. QED BY <1>0, <1>1, <1>3, <1>4, <2>3, RelocatePending
<1>12. MoveInv'
  <2>1. ASSUME NEW h \in Handles
        PROVE  IF h \in pendingHandles' THEN OldRef(root[h])' ELSE NewRef(root[h])'
    <3>1. IF h \in pendingHandles THEN OldNext(root[h]) ELSE NewNext(root[h])
      BY <1>0, <1>1, <1>3, <1>4, RelocateKeepsRefs DEF MoveInv
    <3>2. QED BY <1>1, <1>6, <3>1 DEF OldRef, NewRef, OldNext, NewNext, IsObject
  <2>2. ASSUME NEW r \in To, NEW f \in Fields, type'[r] \in Types
        PROVE  IF <<r, f>> \in pendingFields' \cup weakFixups'
               THEN OldNext(fld'[r][f]) ELSE NewNext(fld'[r][f])
    <3>1. CASE <<r, f>> = <<o, g>>
      <4>1. <<r, f>> \notin pendingFields' \cup weakFixups'
        BY <1>0, <1>1, <1>2, <1>4, <1>5, <1>7, <3>1
           DEF PendingWellFormed, IsObject, CopyPends, Effect
      <4>2. fld'[r][f] = q /\ NewNext(q)
        BY <1>4, <1>8, <3>1 DEF NewNext, Effect
      <4>3. QED BY <4>1, <4>2
    <3>2. CASE <<r, f>> # <<o, g>>
      <4>1. fld'[r][f] = Copied(p, q)[r][f]
        BY <1>0, <1>8, <3>2, HalvesDisjoint DEF TypeOK
      <4>2. <<r, f>> \in pendingFields'
              <=> <<r, f>> \in pendingFields \cup StrongPointers(q, p)
        BY <1>1, <3>2
      <4>3. QED BY <1>7, <2>2, <4>1, <4>2 DEF CopyInv
    <3>3. QED BY <3>1, <3>2
  <2>3. ASSUME NEW r \in From, NEW f \in Fields, type'[r] \in Types
        PROVE  fld'[r][f] = Null \/ OldNext(fld'[r][f])
    <3>1. r # o /\ r \in Pos
      BY <1>0, <1>2, HalvesDisjoint DEF TypeOK
    <3>2. QED BY <1>7, <1>8, <2>3, <3>1 DEF CopyInv
  <2>4. QED
    BY <1>1, <1>6, <1>7, <2>1, <2>2, <2>3
       DEF MoveInv, CopyInv, IsObject, OldRef, NewRef, OldNext, NewNext
<1>13. (MutateInv /\ SweepInv /\ NoDangling)'
  BY <1>1 DEF MutateInv, SweepInv, NoDangling
<1>14. QED BY <1>9, <1>10, <1>11, <1>12, <1>13 DEF IInv

LEMMA FixHandleForwardIInv ==
  ASSUME IInv, NEW h \in Handles, NEW q \in Pos, FixHandleForward(h, q)
  PROVE  IInv'
<1>0. TypeOK /\ OnlyMembers /\ PendingWellFormed /\ MoveInv
  BY DEF IInv
<1>1. /\ phase = "move" /\ phase' = "move" /\ active' = active
      /\ h \in pendingHandles /\ pendingHandles' = pendingHandles \ {h}
      /\ root' = [root EXCEPT ![h] = q]
      /\ type[root[h]] = Moved /\ q = newPos[root[h]]
      /\ UNCHANGED <<type, id, fld, newPos, weakFixups, pendingFields>>
  BY DEF FixHandleForward, FixHandle, Forward
<1>2. /\ From' = From /\ To' = To
      /\ \A v : OldRef(v)' <=> OldRef(v)
      /\ \A v : NewRef(v)' <=> NewRef(v)
  BY <1>1, NextRefs DEF OldRef, NewRef, OldNext, NewNext, IsObject
<1>3. root[h] \in From /\ NewRef(q)
  BY <1>0, <1>1 DEF MoveInv, OldRef, NewRef
<1>4. TypeOK'
  BY <1>0, <1>1 DEF TypeOK, Ptr
<1>5. OnlyMembers'
  BY <1>0, <1>1 DEF OnlyMembers, IsObject
<1>6. PendingWellFormed'
  BY <1>0, <1>1, <1>2 DEF PendingWellFormed, IsObject, TypeOK
<1>7. MoveInv'
  <2>1. ASSUME NEW k \in Handles
        PROVE  IF k \in pendingHandles' THEN OldRef(root'[k]) ELSE NewRef(root'[k])
    BY <1>0, <1>1, <1>3 DEF MoveInv, TypeOK
  <2>2. QED
    BY <1>0, <1>1, <1>2, <2>1 DEF MoveInv, OldRef, NewRef, IsObject
<1>8. (MutateInv /\ SweepInv /\ NoDangling)'
  BY <1>1 DEF MutateInv, SweepInv, NoDangling
<1>9. QED BY <1>4, <1>5, <1>6, <1>7, <1>8 DEF IInv

LEMMA FixFieldForwardIInv ==
  ASSUME IInv, NEW o \in Pos, NEW g \in Fields, NEW q \in Pos, FixFieldForward(o, g, q)
  PROVE  IInv'
<1>0. TypeOK /\ OnlyMembers /\ PendingWellFormed /\ MoveInv
  BY DEF IInv
<1>1. /\ phase = "move" /\ phase' = "move" /\ active' = active
      /\ <<o, g>> \in pendingFields /\ pendingFields' = pendingFields \ {<<o, g>>}
      /\ fld' = [fld EXCEPT ![o][g] = q]
      /\ type[fld[o][g]] = Moved /\ q = newPos[fld[o][g]]
      /\ UNCHANGED <<type, id, root, newPos, weakFixups, pendingHandles>>
  BY DEF FixFieldForward, FixField, Forward
<1>2. /\ From' = From /\ To' = To
      /\ \A v : OldRef(v)' <=> OldRef(v)
      /\ \A v : NewRef(v)' <=> NewRef(v)
  BY <1>1, NextRefs DEF OldRef, NewRef, OldNext, NewNext, IsObject
<1>3. /\ o \in To /\ o \notin From /\ type[o] \in Types /\ g \in StrongOf[type[o]]
      /\ <<o, g>> \notin weakFixups
  BY <1>0, <1>1, HalvesDisjoint DEF PendingWellFormed, IsObject, TypeOK
<1>4. NewRef(q)
  BY <1>0, <1>1, <1>3 DEF MoveInv, OldRef, NewRef, IsObject
<1>5. /\ fld'[o][g] = q
      /\ \A r \in Pos, f \in Fields : <<r, f>> # <<o, g>> => fld'[r][f] = fld[r][f]
  BY <1>0, <1>1 DEF TypeOK
<1>6. TypeOK'
  BY <1>0, <1>1 DEF TypeOK, Ptr
<1>7. OnlyMembers'
  BY <1>0, <1>1, <1>3, <1>5 DEF OnlyMembers, IsObject, PointersOf
<1>8. PendingWellFormed'
  BY <1>0, <1>1, <1>2, <1>3, <1>5 DEF PendingWellFormed, IsObject
<1>9. MoveInv'
  <2>1. From \subseteq Pos /\ To \subseteq Pos
    BY <1>0, HalvesDisjoint DEF TypeOK
  <2>2. ASSUME NEW r \in To, NEW f \in Fields, IsObject(r)
        PROVE  IF <<r, f>> \in pendingFields' \cup weakFixups
               THEN OldRef(fld'[r][f]) ELSE NewRef(fld'[r][f])
    <3>1. CASE <<r, f>> = <<o, g>>
      BY <1>1, <1>3, <1>4, <1>5, <3>1
    <3>2. CASE <<r, f>> # <<o, g>>
      BY <1>0, <1>1, <1>5, <2>1, <2>2, <3>2 DEF MoveInv
    <3>3. QED BY <3>1, <3>2
  <2>3. ASSUME NEW r \in From, NEW f \in Fields, IsObject(r)
        PROVE  fld'[r][f] = Null \/ OldRef(fld'[r][f])
    BY <1>0, <1>1, <1>3, <1>5, <2>1, <2>3 DEF MoveInv
  <2>4. QED
    BY <1>0, <1>1, <1>2, <2>2, <2>3 DEF MoveInv, OldRef, NewRef, IsObject
<1>10. (MutateInv /\ SweepInv /\ NoDangling)'
  BY <1>1 DEF MutateInv, SweepInv, NoDangling
<1>11. QED BY <1>6, <1>7, <1>8, <1>9, <1>10 DEF IInv

-----------------------------------------------------------------------------
(* The end of a collection.                                                *)

LEMMA FixWeakIInv ==
  ASSUME IInv, FixWeak
  PROVE  IInv'
<1>0. TypeOK /\ OnlyMembers /\ PendingWellFormed /\ MoveInv
  BY DEF IInv
<1>1. /\ phase = "move" /\ phase' = "sweep" /\ active' = active
      /\ pendingHandles = {} /\ pendingFields = {}
      /\ weakFixups' = {}
      /\ UNCHANGED <<type, id, newPos, root, pendingHandles, pendingFields>>
  BY DEF FixWeak
<1>2. /\ From' = From /\ To' = To
      /\ \A v : NewRef(v)' <=> NewRef(v)
  BY <1>1, NextRefs DEF NewRef, NewNext, IsObject
<1>3. From \subseteq Pos /\ To \subseteq Pos
  BY <1>0, HalvesDisjoint DEF TypeOK
<1>4. \A r \in Pos, f \in Fields :
        fld'[r][f] = IF <<r, f>> \in weakFixups THEN FixedWeak(fld[r][f]) ELSE fld[r][f]
  BY DEF FixWeak
<1>5. ASSUME NEW r \in Pos, NEW f \in Fields, <<r, f>> \in weakFixups
      PROVE  NewRef(FixedWeak(fld[r][f]))
  <2>1. OldRef(fld[r][f])
    BY <1>0, <1>1, <1>5 DEF PendingWellFormed, MoveInv, IsObject
  <2>2. QED BY <1>0, <1>1, <2>1 DEF MoveInv, OldRef, NewRef, FixedWeak
<1>6. TypeOK'
  <2>1. fld' \in [Pos -> [Fields -> Ptr]]
    BY <1>0, <1>3, <1>5 DEF FixWeak, TypeOK, NewRef, Ptr
  <2>2. QED BY <1>0, <1>1, <2>1 DEF TypeOK
<1>7. OnlyMembers'
  <2>1. ASSUME NEW r \in Pos, NEW f \in Fields, type[r] \in Types, f \notin PointersOf(type[r])
        PROVE  fld'[r][f] = Null
    <3>1. <<r, f>> \notin weakFixups
      BY <1>0, <2>1 DEF PendingWellFormed, PointersOf
    <3>2. fld[r][f] = Null
      BY <1>0, <2>1 DEF OnlyMembers, IsObject
    <3>3. QED BY <1>4, <3>1, <3>2
  <2>2. QED BY <1>1, <2>1 DEF OnlyMembers, IsObject
<1>8. PendingWellFormed'
  BY <1>1 DEF PendingWellFormed
<1>9. SweepInv'
  <2>1. \A h \in Handles : NewRef(root[h])
    BY <1>0, <1>1 DEF MoveInv
  <2>2. ASSUME NEW r \in To, NEW f \in Fields, IsObject(r)
        PROVE  NewRef(fld'[r][f])
    <3>1. CASE <<r, f>> \in weakFixups
      BY <1>3, <1>4, <1>5, <3>1
    <3>2. CASE <<r, f>> \notin weakFixups
      <4>1. <<r, f>> \notin pendingFields \cup weakFixups
        BY <1>1, <3>2
      <4>2. NewRef(fld[r][f])
        BY <1>0, <1>1, <2>2, <4>1 DEF MoveInv
      <4>3. QED BY <1>3, <1>4, <3>2, <4>2
    <3>3. QED BY <3>1, <3>2
  <2>3. QED BY <1>0, <1>1, <1>2, <2>1, <2>2 DEF SweepInv, MoveInv, NewRef, IsObject
<1>10. (MutateInv /\ MoveInv /\ NoDangling)'
  BY <1>1 DEF MutateInv, MoveInv, NoDangling
<1>11. QED BY <1>6, <1>7, <1>8, <1>9, <1>10 DEF IInv

LEMMA SweepIInv ==
  ASSUME IInv, Sweep
  PROVE  IInv'
<1>0. TypeOK /\ OnlyMembers /\ SweepInv /\ active \in {0, 1}
  BY DEF IInv, TypeOK
<1>1. /\ phase = "sweep" /\ phase' = "mutate" /\ active' = 1 - active
      /\ pendingHandles' = {} /\ pendingFields' = {} /\ weakFixups' = {}
      /\ root' = root
  BY <1>0 DEF Sweep, SweepInv
<1>2. From' = To /\ To' = From
  BY <1>0, <1>1 DEF From, To, HalfOf
<1>3. \A r \in Pos : r \in From \/ r \in To
  BY <1>0, HalvesDisjoint
<1>4. /\ \A r \in From : r \in Pos /\ r \notin To /\ type'[r] = Free
      /\ \A r \in To : r \in Pos /\ type'[r] = type[r] /\ fld'[r] = fld[r]
  BY <1>0, HalvesDisjoint DEF Sweep, ReleaseFrom, Released
<1>5. TypeOK'
  <2>1. active' \in {0, 1}
    BY <1>0, <1>1
  <2>2. NoFields \in [Fields -> Ptr] /\ Null \in Ptr
    BY DEF NoFields, Ptr
  <2>3. /\ type' \in [Pos -> Types \cup {Free, Moved}]
        /\ id' \in [Pos -> Ids \cup {Null}]
        /\ fld' \in [Pos -> [Fields -> Ptr]]
        /\ newPos' \in [Pos -> Ptr]
    BY <1>0, <2>2 DEF Sweep, ReleaseFrom, Released, TypeOK
  <2>4. QED BY <1>0, <1>1, <2>1, <2>3 DEF TypeOK
<1>6. OnlyMembers'
  BY <1>0, <1>3, <1>4 DEF OnlyMembers, IsObject
<1>7. PendingWellFormed' /\ MoveInv' /\ SweepInv'
  BY <1>1 DEF PendingWellFormed, MoveInv, SweepInv
<1>8. MutateInv'
  BY <1>0, <1>1, <1>2, <1>3, <1>4 DEF MutateInv, SweepInv
<1>9. NoDangling'
  <2>1. \A v : NewRef(v) => UsedRef(v)'
    BY <1>4 DEF NewRef, UsedRef, IsObject
  <2>2. \A h \in Handles : UsedRef(root[h])'
    BY <1>0, <1>1, <2>1 DEF SweepInv, UsedRef
  <2>3. ASSUME NEW r \in Pos, NEW f \in Fields, type'[r] \in Types
        PROVE  UsedRef(fld[r][f])'
    <3>1. r \in To /\ fld'[r][f] = fld[r][f] /\ type[r] \in Types
      BY <1>3, <1>4, <2>3
    <3>2. NewRef(fld[r][f])
      BY <1>0, <1>1, <3>1 DEF SweepInv, IsObject
    <3>3. QED BY <1>4, <3>1, <3>2 DEF NewRef, UsedRef, IsObject
  <2>4. QED BY <2>2, <2>3 DEF NoDangling, IsObject
<1>10. QED BY <1>5, <1>6, <1>7, <1>8, <1>9 DEF IInv

-----------------------------------------------------------------------------

LEMMA StutterIInv == IInv /\ UNCHANGED vars => IInv'
  BY DEF vars, IInv, TypeOK, OnlyMembers, PendingWellFormed, MutateInv, MoveInv, SweepInv,
         NoDangling, UsedRef, OldRef, NewRef, IsObject, From, To, HalfOf

LEMMA NextIInv == IInv /\ [Next]_vars => IInv'
<1> SUFFICES ASSUME IInv, [Next]_vars PROVE IInv'
  OBVIOUS
<1>1. CASE ClientStep
  <2>1. \A h \in Handles : root[h] # Null => root[h] \in Pos
    BY DEF IInv, TypeOK, Ptr
  <2>2. QED
    BY <1>1, <2>1, MakeIInv, SetHandleIInv, SetFieldIInv, TrackIInv DEF ClientStep
<1>2. CASE GcBegin
  BY <1>2, GcBeginIInv
<1>3. CASE GcNoRoots
  BY <1>3, GcNoRootsIInv
<1>4. CASE FixupStep
  BY <1>4, FixHandleMoveIInv, FixHandleForwardIInv, FixFieldMoveIInv, FixFieldForwardIInv
     DEF FixupStep
<1>5. CASE FixWeak
  BY <1>5, FixWeakIInv
<1>6. CASE Sweep
  BY <1>6, SweepIInv
<1>7. CASE UNCHANGED vars
  BY <1>7, StutterIInv
<1>8. QED BY <1>1, <1>2, <1>3, <1>4, <1>5, <1>6, <1>7 DEF Next

(* The inductive invariant: in every state of a collection, each pointer   *)
(* that survives either refers to the new half or is registered for a      *)
(* fixup and refers to what is still known of the old one.                 *)
THEOREM CollectorInvariant == Spec => []IInv
<1>1. Init => IInv
  BY InitIInv
<1>2. IInv /\ [Next]_vars => IInv'
  BY NextIInv
<1>3. QED BY <1>1, <1>2, PTL DEF Spec

(* Type correctness of the collector's state.                              *)
THEOREM CollectorTypes == Spec => []TypeOK
<1>1. IInv => TypeOK
  BY DEF IInv
<1>2. QED BY <1>1, CollectorInvariant, PTL

(* No client ever sees a dangling pointer, strong or weak, however its     *)
(* handles, members and collections are interleaved.                       *)
THEOREM NoDanglingAlways == Spec => []NoDangling
<1>1. IInv => NoDangling
  BY DEF IInv
<1>2. QED BY <1>1, CollectorInvariant, PTL

-----------------------------------------------------------------------------
(***************************************************************************)
(* The collection algorithm implements the object graph: what moves, in    *)
(* which order pointers are fixed up, and that two halves hold one object  *)
(* for a while is invisible to the clients.                                *)
(***************************************************************************)

(* Each identity of the graph is that of one visible position.             *)
OnePosition ==
  /\ \A p \in Visible :
       p \in Pos /\ type[p] \in Types /\ id[p] \in Ids /\ id[p] \in Alive /\ At(id[p]) = p
  /\ \A x \in Alive : At(x) \in Visible /\ id[At(x)] = x /\ x \in Ids
  /\ \A x \in Alive : \E p \in Visible : id[p] = x

LEMMA View == TypeOK /\ IdentityInv => OnePosition
<1> SUFFICES ASSUME TypeOK, IdentityInv PROVE OnePosition
  OBVIOUS
<1>1. \A p \in Visible : p \in Pos /\ type[p] \in Types /\ id[p] \in Ids /\ id[p] \in Alive
  BY DEF Visible, Alive, IdentityInv, IsObject
<1>2. \A p, q \in Visible : id[p] = id[q] => p = q
  BY DEF Visible, IdentityInv
<1>3. ASSUME NEW x \in Alive
      PROVE  At(x) \in Visible /\ id[At(x)] = x /\ \E p \in Visible : id[p] = x
  BY DEF Alive, At
<1>4. ASSUME NEW p \in Visible
      PROVE  At(id[p]) = p
  BY <1>1, <1>2, <1>3
<1>5. QED BY <1>1, <1>3, <1>4 DEF OnePosition

LEMMA ViewNext == TypeOK' /\ IdentityInv' => OnePosition'
  BY View, PTL

(* The strong members of an object are among its members.                  *)
LEMMA MembersAreFields ==
  ASSUME NEW t \in Types
  PROVE  StrongOf[t] \subseteq Fields /\ WeakOf[t] \subseteq Fields /\ PointersOf(t) \subseteq Fields
  BY DEF PointersOf

(* What it means in positions that a set of identities is closed.          *)
HoldsHandles(S) == \A h \in Handles : IdOf(root[h]) # Null => IdOf(root[h]) \in S
HoldsMembers(S, p) ==
  \A f \in StrongOf[type[p]] : IdOf(fld[p][f]) # Null => IdOf(fld[p][f]) \in S

LEMMA ClosedView ==
  ASSUME TypeOK, IdentityInv, NEW S \in SUBSET Alive
  PROVE  Graph!Closed(S) <=>
           HoldsHandles(S) /\ \A p \in Visible : id[p] \in S => HoldsMembers(S, p)
<1>1. (\A h \in Handles : [k \in Handles |-> IdOf(root[k])][h] # Null
                            => [k \in Handles |-> IdOf(root[k])][h] \in S)
        <=> HoldsHandles(S)
  BY DEF HoldsHandles
<1>2. ASSUME NEW x \in S
      PROVE  Graph!Successors(x) = {IdOf(fld[At(x)][f]) : f \in StrongOf[type[At(x)]]} \ {Null}
  <2>1. x \in Alive /\ type[At(x)] \in Types
    BY View DEF OnePosition
  <2>2. StrongOf[type[At(x)]] \subseteq Fields
    BY <2>1, MembersAreFields
  <2>3. QED BY <2>1, <2>2 DEF Graph!Successors
<1>3. ASSUME NEW x \in S
      PROVE  Graph!Successors(x) \subseteq S <=> HoldsMembers(S, At(x))
  BY <1>2 DEF HoldsMembers
<1>4. (\A x \in S : HoldsMembers(S, At(x)))
        <=> (\A p \in Visible : id[p] \in S => HoldsMembers(S, p))
  BY View DEF OnePosition
<1>5. QED BY <1>1, <1>3, <1>4 DEF Graph!Closed

(* Every pointer resolves to an object of the graph: through what a moved  *)
(* object left behind while objects move.                                  *)
LEMMA Resolves ==
  ASSUME IInv, IdentityInv, NEW v \in Ptr, UsedRef(v) \/ OldRef(v) \/ NewRef(v),
         phase = "mutate" => UsedRef(v), phase = "sweep" => NewRef(v), v # Null
  PROVE  v \in Pos /\ id[v] \in Alive /\ id[v] \in Ids
<1>0. TypeOK /\ MoveInv /\ From \subseteq Pos /\ To \subseteq Pos
  BY HalvesDisjoint DEF IInv, TypeOK
<1>1. CASE IsObject(v)
  <2>1. v \in Pos
    BY DEF Ptr
  <2>2. v \in Visible
    BY <1>1, <2>1 DEF Visible, NewRef
  <2>3. QED BY <1>0, <2>1, <2>2, View DEF OnePosition
<1>2. CASE ~IsObject(v)
  <2>1. phase = "move" /\ OldRef(v) /\ v \in From
    BY <1>0, <1>2 DEF UsedRef, NewRef, OldRef, TypeOK
  <2>2. type[v] = Moved /\ newPos[v] \in To /\ IsObject(newPos[v]) /\ id[v] = id[newPos[v]]
    BY <1>0, <1>2, <2>1 DEF OldRef, IsObject, TypeOK, MoveInv, IdentityInv
  <2>3. newPos[v] \in Visible
    BY <1>0, <2>1, <2>2 DEF Visible
  <2>4. QED BY <1>0, <2>1, <2>2, <2>3, View DEF OnePosition
<1>3. QED BY <1>1, <1>2

(* The pointers of the graph: handles, and the members of what is visible. *)
LEMMA HandlesResolve ==
  ASSUME IInv, IdentityInv, NEW h \in Handles
  PROVE  /\ root[h] \in Ptr
         /\ root[h] # Null => root[h] \in Pos /\ IdOf(root[h]) \in Alive
         /\ IdOf(root[h]) = Null <=> root[h] = Null
<1>1. root[h] \in Ptr
  BY DEF IInv, TypeOK
<1>2. /\ UsedRef(root[h]) \/ OldRef(root[h]) \/ NewRef(root[h])
      /\ phase = "mutate" => UsedRef(root[h])
      /\ phase = "sweep" => NewRef(root[h])
  BY DEF IInv, TypeOK, NoDangling, MoveInv, SweepInv
<1>3. ASSUME root[h] # Null
      PROVE  root[h] \in Pos /\ id[root[h]] \in Alive /\ id[root[h]] \in Ids
  BY <1>1, <1>2, <1>3, Resolves
<1>4. QED BY <1>1, <1>3 DEF IdOf

LEMMA MembersResolve ==
  ASSUME IInv, IdentityInv, NEW p \in Visible, NEW f \in Fields
  PROVE  /\ fld[p][f] \in Ptr
         /\ fld[p][f] # Null => fld[p][f] \in Pos /\ IdOf(fld[p][f]) \in Alive
         /\ IdOf(fld[p][f]) = Null <=> fld[p][f] = Null
<1>0. TypeOK /\ p \in Pos /\ IsObject(p)
  BY DEF IInv, Visible
<1>1. fld[p][f] \in Ptr
  BY <1>0 DEF TypeOK
<1>2. /\ UsedRef(fld[p][f]) \/ OldRef(fld[p][f]) \/ NewRef(fld[p][f])
      /\ phase = "mutate" => UsedRef(fld[p][f])
      /\ phase = "sweep" => NewRef(fld[p][f])
  <2>1. CASE phase = "mutate"
    BY <1>0, <2>1 DEF IInv, NoDangling
  <2>2. CASE phase = "move"
    <3>1. fld[p][f] = Null \/ OldRef(fld[p][f]) \/ NewRef(fld[p][f])
      BY <1>0, <2>2, HalvesDisjoint DEF IInv, TypeOK, MoveInv
    <3>2. QED BY <2>2, <3>1 DEF UsedRef
  <2>3. CASE phase = "sweep"
    BY <1>0, <2>3 DEF IInv, SweepInv, Visible
  <2>4. QED BY <1>0, <2>1, <2>2, <2>3 DEF TypeOK
<1>3. ASSUME fld[p][f] # Null
      PROVE  fld[p][f] \in Pos /\ id[fld[p][f]] \in Alive /\ id[fld[p][f]] \in Ids
  BY <1>1, <1>2, <1>3, Resolves
<1>4. QED BY <1>1, <1>3 DEF IdOf

-----------------------------------------------------------------------------
(* Steps that do not change the graph.                                     *)

(* A step that renames the visible positions and keeps what they hold.     *)
LEMMA SameGraph ==
  ASSUME TypeOK, IdentityInv, TypeOK', IdentityInv', NEW m,
         \A p \in Visible :
           /\ m[p] \in Visible' /\ id'[m[p]] = id[p] /\ type'[m[p]] = type[p]
           /\ \A f \in Fields : IdOf(fld[m[p]][f])' = IdOf(fld[p][f]),
         \A r \in Visible' : \E p \in Visible : r = m[p],
         \A h \in Handles : IdOf(root[h])' = IdOf(root[h])
  PROVE  UNCHANGED Graph!vars
<1>1. Alive' = Alive
  BY DEF Alive
<1>2. ASSUME NEW x \in Alive
      PROVE  \E p \in Visible : At(x) = p /\ At(x)' = m[p]
  <2>1. PICK p \in Visible : id[p] = x /\ At(x) = p
    BY View DEF OnePosition
  <2>2. m[p] \in Visible' /\ id'[m[p]] = x
    BY <2>1
  <2>3. At(x)' = m[p]
    BY <2>2, ViewNext DEF OnePosition
  <2>4. QED BY <2>1, <2>3
<1>3. ASSUME NEW x \in Alive
      PROVE  /\ type[At(x)]' = type[At(x)]
             /\ \A f \in Fields : IdOf(fld[At(x)][f])' = IdOf(fld[At(x)][f])
  <2>1. PICK p \in Visible : At(x) = p /\ At(x)' = m[p]
    BY <1>2
  <2>2. \A f \in Fields : IdOf(fld[At(x)][f])' = IdOf(fld[m[p]][f])'
    BY <2>1 DEF IdOf
  <2>3. QED BY <2>1, <2>2
<1>4. [x \in Alive |-> type[At(x)]]' = [x \in Alive |-> type[At(x)]]
  BY <1>1, <1>3
<1>5. [x \in Alive |-> [f \in Fields |-> IdOf(fld[At(x)][f])]]'
        = [x \in Alive |-> [f \in Fields |-> IdOf(fld[At(x)][f])]]
  BY <1>1, <1>3
<1>6. QED BY <1>1, <1>4, <1>5 DEF Graph!vars

(* The same, when every position keeps what it holds.                      *)
LEMMA SamePlaces ==
  ASSUME TypeOK, IdentityInv, TypeOK', IdentityInv', Visible' = Visible,
         \A p \in Visible : id'[p] = id[p] /\ type'[p] = type[p]
                            /\ \A f \in Fields : IdOf(fld[p][f])' = IdOf(fld[p][f]),
         \A h \in Handles : IdOf(root[h])' = IdOf(root[h])
  PROVE  UNCHANGED Graph!vars
<1> DEFINE m == [p \in Pos |-> p]
<1>1. \A p \in Visible : m[p] = p
  BY DEF Visible
<1> HIDE DEF m
<1>2. QED BY <1>1, SameGraph

(* The graph decides which sets of identities are closed.                  *)
LEMMA SameClosed ==
  ASSUME UNCHANGED Graph!vars
  PROVE  Alive' = Alive /\ \A S : Graph!Closed(S)' <=> Graph!Closed(S)
<1>1. Alive' = Alive
  BY DEF Graph!vars
<1> DEFINE T == [x \in Alive |-> type[At(x)]]
           F == [x \in Alive |-> [f \in Fields |-> IdOf(fld[At(x)][f])]]
<1>2. \A x : Graph!Successors(x)' = Graph!Successors(x)
  <2>1. T' = T /\ F' = F
    BY DEF Graph!vars
  <2>2. \A x : Graph!Successors(x) = {F[x][f] : f \in StrongOf[T[x]]} \ {Null}
    BY DEF Graph!Successors
  <2>3. \A x : Graph!Successors(x)' = {F'[x][f] : f \in StrongOf[T'[x]]} \ {Null}
    BY DEF Graph!Successors
  <2> HIDE DEF T, F
  <2>4. QED BY <2>1, <2>2, <2>3
<1>3. [h \in Handles |-> IdOf(root[h])]' = [h \in Handles |-> IdOf(root[h])]
  BY DEF Graph!vars
<1>4. QED BY <1>1, <1>2, <1>3 DEF Graph!Closed

(* What is closed holds what the handles and the members of a survivor     *)
(* lead to.                                                                *)
LEMMA ClosedHolds ==
  ASSUME IInv, IdentityInv, SurvivorsReachable, phase = "move",
         NEW S \in SUBSET Alive, Graph!Closed(S)
  PROVE  /\ \A h \in Handles : root[h] # Null => id[root[h]] \in S
         /\ \A p \in To, f \in Fields :
              IsObject(p) /\ f \in StrongOf[type[p]] /\ fld[p][f] # Null => id[fld[p][f]] \in S
<1>0. TypeOK /\ To \subseteq Pos
  BY HalvesDisjoint DEF IInv, TypeOK
<1>1. HoldsHandles(S) /\ \A p \in Visible : id[p] \in S => HoldsMembers(S, p)
  BY <1>0, ClosedView
<1>2. \A h \in Handles : root[h] # Null => id[root[h]] \in S
  BY <1>1, HandlesResolve DEF HoldsHandles, IdOf
<1>3. ASSUME NEW p \in To, NEW f \in Fields, IsObject(p), f \in StrongOf[type[p]], fld[p][f] # Null
      PROVE  id[fld[p][f]] \in S
  <2>1. p \in Visible /\ id[p] \in S
    BY <1>0, <1>3 DEF Visible, SurvivorsReachable
  <2>2. HoldsMembers(S, p) /\ IdOf(fld[p][f]) # Null
    BY <1>1, <1>3, <2>1, MembersResolve
  <2>3. QED BY <1>3, <2>2 DEF HoldsMembers, IdOf
<1>4. QED BY <1>2, <1>3

-----------------------------------------------------------------------------
(* Moving one object.                                                      *)

(* The identities of a copy and of what it leaves behind.                  *)
LEMMA RelocateIds ==
  ASSUME TypeOK, NEW p \in From, NEW q \in Pos, Relocate(p, q)
  PROVE  id'[q] = id[p] /\ \A r \in Pos : r # q => id'[r] = id[r]
  BY HalvesDisjoint DEF TypeOK, Relocate

LEMMA RelocateIdentity ==
  ASSUME IInv, IdentityInv, phase = "move", phase' = "move", active' = active,
         NEW p \in From, NEW q \in Pos, Relocate(p, q)
  PROVE  IdentityInv'
<1>0. TypeOK /\ MoveInv /\ p \in Pos /\ From \subseteq Pos /\ From' = From
  BY HalvesDisjoint, NextRefs DEF IInv, TypeOK
<1>1. Effect(p, q) /\ id'[q] = id[p] /\ \A r \in Pos : r # q => id'[r] = id[r]
  BY <1>0, RelocateEffect, RelocateIds
<1>2. \A r \in Pos : type'[r] \in Types => r # p /\ (r # q => type[r] \in Types)
  BY <1>1 DEF Effect
<1>3. \A r \in Pos : type'[r] \in Types => id'[r] \in Ids
  BY <1>0, <1>1, <1>2 DEF IdentityInv, IsObject, Effect
<1>4. ASSUME NEW r \in Pos, NEW s \in Pos, type'[r] \in Types, type'[s] \in Types, id'[r] = id'[s]
      PROVE  r = s
  BY <1>0, <1>1, <1>2, <1>4 DEF IdentityInv, IsObject, Effect
<1>5. ASSUME NEW r \in From, type'[r] = Moved
      PROVE  id'[newPos'[r]] = id'[r]
  <2>1. r \in Pos /\ r # q
    BY <1>0, <1>1 DEF Effect
  <2>2. CASE r = p
    BY <1>1, <2>1, <2>2 DEF Effect
  <2>3. CASE r # p
    <3>1. type[r] = Moved /\ newPos'[r] = newPos[r]
      BY <1>1, <1>5, <2>1, <2>3 DEF Effect
    <3>2. newPos[r] \in To /\ IsObject(newPos[r]) /\ id[newPos[r]] = id[r]
      BY <1>0, <3>1 DEF MoveInv, IdentityInv
    <3>3. newPos[r] # q /\ newPos[r] \in Pos
      BY <1>0, <1>1, <3>2, HalvesDisjoint DEF Effect, IsObject, TypeOK
    <3>4. QED BY <1>1, <2>1, <3>1, <3>2, <3>3
  <2>4. QED BY <2>2, <2>3
<1>6. QED BY <1>0, <1>3, <1>4, <1>5 DEF IdentityInv, IsObject

(* A copy takes the place of the object it was made from, whichever        *)
(* pointer is stored with it.                                              *)
LEMMA RelocateSameGraph ==
  ASSUME IInv, IdentityInv, TypeOK', phase = "move", phase' = "move", active' = active,
         NEW p \in From, NEW q \in Pos, Relocate(p, q),
         \A r \in Pos, f \in Fields :
           \/ fld'[r][f] = Copied(p, q)[r][f]
           \/ fld'[r][f] = q /\ Copied(p, q)[r][f] = p,
         \A h \in Handles : root'[h] = root[h] \/ (root'[h] = q /\ root[h] = p)
  PROVE  UNCHANGED Graph!vars
<1>0. TypeOK /\ MoveInv /\ p \in Pos /\ From \subseteq Pos /\ To \subseteq Pos /\ IdentityInv'
  BY HalvesDisjoint, RelocateIdentity DEF IInv, TypeOK
<1>1. Effect(p, q) /\ id'[q] = id[p] /\ \A r \in Pos : r # q => id'[r] = id[r]
  BY <1>0, RelocateEffect, RelocateIds
<1>2. ASSUME NEW v \in Ptr, NEW w, v # q, w = v \/ (w = q /\ v = p)
      PROVE  IdOf(w)' = IdOf(v)
  BY <1>0, <1>1, <1>2 DEF IdOf, Ptr
<1>3. ASSUME NEW h \in Handles
      PROVE  IdOf(root[h])' = IdOf(root[h])
  <2>1. root[h] # q /\ root[h] \in Ptr
    BY <1>0, <1>1 DEF MoveInv, OldRef, NewRef, IsObject, Effect, TypeOK
  <2>2. PICK w : w = root'[h]
    OBVIOUS
  <2>3. IdOf(w)' = IdOf(root[h])
    BY <1>2, <2>1, <2>2
  <2>4. QED BY <2>2, <2>3 DEF IdOf
<1>4. ASSUME NEW r \in Visible, NEW s \in Pos, NEW f \in Fields, Copied(p, q)[s] = fld[r]
      PROVE  IdOf(fld[s][f])' = IdOf(fld[r][f])
  <2>1. r \in Pos /\ IsObject(r)
    BY DEF Visible
  <2>2. fld[r][f] = Null \/ OldRef(fld[r][f]) \/ NewRef(fld[r][f])
    BY <1>0, <2>1, HalvesDisjoint DEF TypeOK, MoveInv
  <2>3. fld[r][f] # q /\ fld[r][f] \in Ptr
    BY <1>0, <1>1, <2>1, <2>2 DEF OldRef, NewRef, IsObject, Effect, TypeOK
  <2>4. PICK w : w = fld'[s][f]
    OBVIOUS
  <2>5. IdOf(w)' = IdOf(fld[r][f])
    BY <1>2, <1>4, <2>3, <2>4
  <2>6. QED BY <2>4, <2>5 DEF IdOf
<1> DEFINE m == [r \in Pos |-> IF r = p THEN q ELSE r]
<1>5. ASSUME NEW r \in Visible
      PROVE  /\ m[r] \in Visible' /\ id'[m[r]] = id[r] /\ type'[m[r]] = type[r]
             /\ \A f \in Fields : IdOf(fld[m[r]][f])' = IdOf(fld[r][f])
  <2>1. r \in Pos /\ r # q /\ type[r] \in Types
    BY <1>1 DEF Visible, IsObject, Effect
  <2>2. CASE r = p
    <3>1. m[r] = q
      BY <2>1, <2>2
    <3>2. type'[q] = type[r] /\ Copied(p, q)[q] = fld[r] /\ id'[q] = id[r]
      BY <1>1, <2>2 DEF Effect
    <3>3. q \in Visible'
      BY <2>1, <3>2 DEF Visible, IsObject
    <3>4. QED BY <1>4, <3>1, <3>2, <3>3
  <2>3. CASE r # p
    <3>1. m[r] = r
      BY <2>1, <2>3
    <3>2. type'[r] = type[r] /\ Copied(p, q)[r] = fld[r] /\ id'[r] = id[r]
      BY <1>1, <2>1, <2>3 DEF Effect
    <3>3. r \in Visible'
      BY <2>1, <3>2 DEF Visible, IsObject
    <3>4. QED BY <1>4, <2>1, <3>1, <3>2, <3>3
  <2>4. QED BY <2>2, <2>3
<1>6. ASSUME NEW s \in Visible'
      PROVE  \E r \in Visible : s = m[r]
  <2>1. s \in Pos /\ type'[s] \in Types /\ s # p
    BY <1>1 DEF Visible, IsObject, Effect
  <2>2. CASE s = q
    <3>1. p \in Visible /\ m[p] = q
      BY <1>0, <1>1 DEF Visible, IsObject, Effect
    <3>2. QED BY <2>2, <3>1
  <2>3. CASE s # q
    <3>1. s \in Visible /\ m[s] = s
      BY <1>1, <2>1, <2>3 DEF Visible, IsObject, Effect
    <3>2. QED BY <3>1
  <2>4. QED BY <2>2, <2>3
<1> HIDE DEF m
<1>7. QED BY <1>0, <1>3, <1>5, <1>6, SameGraph

(* The copy has the identity of an object that was reachable.              *)
LEMMA RelocateSurvivors ==
  ASSUME IInv, IdentityInv, SurvivorsReachable, UNCHANGED Graph!vars,
         phase = "move", phase' = "move", active' = active,
         NEW p \in From, NEW q \in Pos, Relocate(p, q),
         \/ \E h \in Handles : root[h] = p
         \/ \E o \in To, g \in Fields : IsObject(o) /\ g \in StrongOf[type[o]] /\ fld[o][g] = p
  PROVE  SurvivorsReachable'
<1>0. TypeOK /\ p \in Pos /\ p # Null /\ To' = To /\ To \subseteq Pos
  BY HalvesDisjoint, NextRefs DEF IInv, TypeOK
<1>1. Effect(p, q) /\ id'[q] = id[p] /\ \A r \in Pos : r # q => id'[r] = id[r]
  BY <1>0, RelocateEffect, RelocateIds
<1>2. ASSUME NEW S \in SUBSET Alive, Graph!Closed(S), NEW r \in To, type'[r] \in Types
      PROVE  id'[r] \in S
  <2>1. CASE r = q
    BY <1>0, <1>1, <1>2, <2>1, ClosedHolds
  <2>2. CASE r # q
    <3>1. type[r] \in Types /\ r \in Pos
      BY <1>0, <1>1, <1>2, <2>2 DEF Effect
    <3>2. QED BY <1>1, <1>2, <2>2, <3>1 DEF SurvivorsReachable, IsObject
  <2>3. QED BY <2>1, <2>2
<1>3. QED BY <1>0, <1>2, SameClosed DEF SurvivorsReachable, IsObject

-----------------------------------------------------------------------------
(* What each step of a collection does to the graph: nothing until the     *)
(* weak pointers are fixed, and nothing when the old half is released.     *)

Stutters == IdentityInv' /\ SurvivorsReachable' /\ UNCHANGED Graph!vars

LEMMA FixHandleMoveGraph ==
  ASSUME RefinementInv, IInv', NEW h \in Handles, NEW q \in Pos, FixHandleMove(h, q)
  PROVE  Stutters
<1>1. /\ IInv /\ IdentityInv /\ SurvivorsReachable
      /\ TypeOK /\ MoveInv /\ TypeOK'
  BY DEF RefinementInv, IInv
<1>2. /\ phase = "move" /\ phase' = "move" /\ active' = active
      /\ h \in pendingHandles /\ root' = [root EXCEPT ![h] = q]
      /\ Relocate(root[h], q) /\ fld' = Copied(root[h], q)
  BY DEF FixHandleMove, FixHandle
<1>3. PICK p \in From : p = root[h]
  BY <1>1, <1>2 DEF MoveInv, OldRef
<1>4. Relocate(p, q) /\ fld' = Copied(p, q)
  BY <1>2, <1>3
<1>5. \A k \in Handles : root'[k] = root[k] \/ (root'[k] = q /\ root[k] = p)
  BY <1>1, <1>2, <1>3 DEF TypeOK
<1>6. UNCHANGED Graph!vars
  BY <1>1, <1>2, <1>4, <1>5, RelocateSameGraph
<1>7. IdentityInv'
  BY <1>1, <1>2, <1>4, RelocateIdentity
<1>8. SurvivorsReachable'
  BY <1>1, <1>2, <1>3, <1>4, <1>6, RelocateSurvivors
<1>9. QED BY <1>6, <1>7, <1>8 DEF Stutters

LEMMA FixFieldMoveGraph ==
  ASSUME RefinementInv, IInv', NEW o \in Pos, NEW g \in Fields, NEW q \in Pos,
         FixFieldMove(o, g, q)
  PROVE  Stutters
<1>1. /\ IInv /\ IdentityInv /\ SurvivorsReachable
      /\ TypeOK /\ MoveInv /\ PendingWellFormed /\ TypeOK'
  BY DEF RefinementInv, IInv
<1>2. /\ phase = "move" /\ phase' = "move" /\ active' = active
      /\ <<o, g>> \in pendingFields /\ root' = root
      /\ Relocate(fld[o][g], q) /\ fld' = [Copied(fld[o][g], q) EXCEPT ![o][g] = q]
  BY DEF FixFieldMove, FixField
<1>3. o \in To /\ IsObject(o) /\ g \in StrongOf[type[o]]
  BY <1>1, <1>2 DEF PendingWellFormed
<1>4. PICK p \in From : p = fld[o][g]
  BY <1>1, <1>2, <1>3 DEF MoveInv, OldRef
<1>5. Relocate(p, q) /\ fld' = [Copied(p, q) EXCEPT ![o][g] = q]
  BY <1>2, <1>4
<1>6. Effect(p, q)
  BY <1>1, <1>5, RelocateEffect
<1>7. o # p /\ o # q /\ Copied(p, q)[o][g] = p
  BY <1>3, <1>4, <1>6 DEF Effect, IsObject
<1>8. ASSUME NEW r \in Pos, NEW f \in Fields
      PROVE  \/ fld'[r][f] = Copied(p, q)[r][f]
             \/ fld'[r][f] = q /\ Copied(p, q)[r][f] = p
  BY <1>5, <1>6, <1>7 DEF Effect
<1>9. UNCHANGED Graph!vars
  BY <1>1, <1>2, <1>5, <1>8, RelocateSameGraph
<1>10. IdentityInv'
  BY <1>1, <1>2, <1>5, RelocateIdentity
<1>11. SurvivorsReachable'
  BY <1>1, <1>2, <1>3, <1>4, <1>5, <1>9, RelocateSurvivors
<1>12. QED BY <1>9, <1>10, <1>11 DEF Stutters

LEMMA FixHandleForwardGraph ==
  ASSUME RefinementInv, IInv', NEW h \in Handles, NEW q \in Pos, FixHandleForward(h, q)
  PROVE  Stutters
<1>1. /\ IInv /\ IdentityInv /\ SurvivorsReachable
      /\ TypeOK /\ MoveInv /\ TypeOK'
  BY DEF RefinementInv, IInv
<1>2. /\ phase = "move" /\ phase' = "move" /\ active' = active
      /\ h \in pendingHandles /\ root' = [root EXCEPT ![h] = q]
      /\ type[root[h]] = Moved /\ q = newPos[root[h]]
      /\ UNCHANGED <<type, id, fld, newPos>>
  BY DEF FixHandleForward, FixHandle, Forward
<1>3. From' = From /\ To' = To /\ Visible' = Visible
  BY <1>2, NextRefs DEF Visible, IsObject
<1>4. IdentityInv'
  BY <1>1, <1>2, <1>3 DEF IdentityInv, IsObject
<1>5. root[h] \in From /\ root[h] # Null /\ q # Null /\ id[q] = id[root[h]]
  BY <1>1, <1>2, HalvesDisjoint DEF MoveInv, OldRef, IdentityInv, TypeOK
<1>6. ASSUME NEW k \in Handles
      PROVE  IdOf(root[k])' = IdOf(root[k])
  BY <1>1, <1>2, <1>5 DEF IdOf, TypeOK
<1>7. UNCHANGED Graph!vars
  BY <1>1, <1>2, <1>3, <1>4, <1>6, SamePlaces DEF IdOf
<1>8. SurvivorsReachable'
  BY <1>1, <1>2, <1>3, <1>7, SameClosed DEF SurvivorsReachable, IsObject
<1>9. QED BY <1>4, <1>7, <1>8 DEF Stutters

LEMMA FixFieldForwardGraph ==
  ASSUME RefinementInv, IInv', NEW o \in Pos, NEW g \in Fields, NEW q \in Pos,
         FixFieldForward(o, g, q)
  PROVE  Stutters
<1>1. /\ IInv /\ IdentityInv /\ SurvivorsReachable
      /\ TypeOK /\ MoveInv /\ PendingWellFormed /\ TypeOK'
  BY DEF RefinementInv, IInv
<1>2. /\ phase = "move" /\ phase' = "move" /\ active' = active
      /\ <<o, g>> \in pendingFields /\ fld' = [fld EXCEPT ![o][g] = q]
      /\ type[fld[o][g]] = Moved /\ q = newPos[fld[o][g]]
      /\ UNCHANGED <<type, id, root, newPos>>
  BY DEF FixFieldForward, FixField, Forward
<1>3. From' = From /\ To' = To /\ Visible' = Visible
  BY <1>2, NextRefs DEF Visible, IsObject
<1>4. IdentityInv'
  BY <1>1, <1>2, <1>3 DEF IdentityInv, IsObject
<1>5. o \in To /\ IsObject(o)
  BY <1>1, <1>2 DEF PendingWellFormed
<1>6. fld[o][g] \in From /\ fld[o][g] # Null /\ q # Null /\ id[q] = id[fld[o][g]]
  BY <1>1, <1>2, <1>5, HalvesDisjoint DEF MoveInv, OldRef, IdentityInv, TypeOK
<1>7. ASSUME NEW r \in Visible, NEW f \in Fields
      PROVE  IdOf(fld[r][f])' = IdOf(fld[r][f])
  BY <1>1, <1>2, <1>6 DEF IdOf, TypeOK, Visible
<1>8. UNCHANGED Graph!vars
  BY <1>1, <1>2, <1>3, <1>4, <1>7, SamePlaces DEF IdOf
<1>9. SurvivorsReachable'
  BY <1>1, <1>2, <1>3, <1>8, SameClosed DEF SurvivorsReachable, IsObject
<1>10. QED BY <1>4, <1>8, <1>9 DEF Stutters

LEMMA GcBeginGraph ==
  ASSUME RefinementInv, IInv', GcBegin
  PROVE  Stutters
<1>1. /\ IInv /\ IdentityInv /\ TypeOK /\ MutateInv /\ TypeOK'
  BY DEF RefinementInv, IInv
<1>2. /\ phase = "mutate" /\ phase' = "move" /\ active' = active
      /\ UNCHANGED <<type, id, fld, root, newPos>>
  BY DEF GcBegin
<1>3. From' = From /\ To' = To /\ Visible' = Visible
  BY <1>2, NextRefs DEF Visible, IsObject
<1>4. (\A r \in Pos : type[r] # Moved) /\ \A r \in To : type[r] = Free
  BY <1>1, <1>2 DEF MutateInv
<1>5. IdentityInv'
  BY <1>1, <1>2, <1>3, <1>4, HalvesDisjoint DEF IdentityInv, IsObject, TypeOK
<1>6. UNCHANGED Graph!vars
  BY <1>1, <1>2, <1>3, <1>5, SamePlaces DEF IdOf
<1>7. SurvivorsReachable'
  BY <1>2, <1>3, <1>4 DEF SurvivorsReachable, IsObject
<1>8. QED BY <1>5, <1>6, <1>7 DEF Stutters

LEMMA SweepGraph ==
  ASSUME RefinementInv, IInv', Sweep
  PROVE  Stutters
<1>1. /\ IInv /\ IdentityInv /\ TypeOK /\ SweepInv /\ TypeOK'
  BY DEF RefinementInv, IInv
<1>2. /\ phase = "sweep" /\ phase' = "mutate" /\ root' = root
  BY DEF Sweep
<1>3. /\ \A r \in From : r \in Pos /\ r \notin To /\ type'[r] = Free
      /\ \A r \in To : r \in Pos /\ type'[r] = type[r] /\ fld'[r] = fld[r] /\ id'[r] = id[r]
      /\ \A r \in Pos : r \in From \/ r \in To
  BY <1>1, HalvesDisjoint DEF Sweep, ReleaseFrom, Released, TypeOK
<1>4. Visible' = Visible
  BY <1>2, <1>3 DEF Visible, IsObject
<1>5. IdentityInv'
  BY <1>1, <1>2, <1>3 DEF IdentityInv, IsObject
<1>6. ASSUME NEW v, NewRef(v)
      PROVE  IdOf(v)' = IdOf(v)
  BY <1>3, <1>6 DEF IdOf, NewRef
<1>7. \A r \in Visible : r \in To /\ IsObject(r)
  BY <1>2 DEF Visible
<1>8. ASSUME NEW h \in Handles
      PROVE  IdOf(root[h])' = IdOf(root[h])
  BY <1>1, <1>2, <1>6 DEF SweepInv, IdOf
<1>9. ASSUME NEW r \in Visible, NEW f \in Fields
      PROVE  IdOf(fld[r][f])' = IdOf(fld[r][f])
  <2>1. PICK v : v = fld[r][f]
    OBVIOUS
  <2>2. NewRef(v) /\ fld'[r][f] = v
    BY <1>1, <1>2, <1>3, <1>7, <2>1 DEF SweepInv
  <2>3. QED BY <1>6, <2>1, <2>2 DEF IdOf
<1>10. UNCHANGED Graph!vars
  BY <1>1, <1>3, <1>4, <1>5, <1>7, <1>8, <1>9, SamePlaces
<1>11. SurvivorsReachable'
  BY <1>2 DEF SurvivorsReachable
<1>12. QED BY <1>5, <1>10, <1>11 DEF Stutters

-----------------------------------------------------------------------------
(* The collection itself.                                                  *)

(* The identities of what has moved.                                       *)
Survivors == {id[p] : p \in {r \in To : IsObject(r)}}

(* A pointer that needs no more fixups leads to a survivor.                *)
LEMMA NewRefSurvives ==
  ASSUME IInv, IdentityInv, NEW v, NewRef(v)
  PROVE  IdOf(v) = Null \/ IdOf(v) \in Survivors
  BY DEF NewRef, IdOf, Survivors

(* When nothing is pending, what has moved is what the handles reach.      *)
LEMMA SurvivorsAreReachable ==
  ASSUME IInv, IdentityInv, SurvivorsReachable, phase = "move",
         pendingHandles = {}, pendingFields = {}
  PROVE  Survivors \subseteq Alive /\ Graph!Reachable = Survivors
<1>0. TypeOK /\ MoveInv /\ PendingWellFormed /\ To \subseteq Pos
  BY HalvesDisjoint DEF IInv, TypeOK
<1>1. \A r \in To : IsObject(r) => r \in Visible /\ id[r] \in Alive
  BY <1>0, View DEF Visible, OnePosition
<1>2. Survivors \subseteq Alive
  BY <1>1 DEF Survivors
<1>3. HoldsHandles(Survivors)
  <2>1. \A h \in Handles : NewRef(root[h])
    BY <1>0 DEF MoveInv
  <2>2. QED BY <2>1, NewRefSurvives DEF HoldsHandles
<1>4. ASSUME NEW r \in Visible, id[r] \in Survivors, NEW f \in StrongOf[type[r]]
      PROVE  IdOf(fld[r][f]) = Null \/ IdOf(fld[r][f]) \in Survivors
  <2>1. r \in To /\ IsObject(r)
    BY <1>0, <1>4 DEF Survivors, IdentityInv, Visible
  <2>2. f \in Fields /\ f \notin WeakOf[type[r]]
    BY <2>1, MembersAreFields DEF IsObject
  <2>3. <<r, f>> \notin pendingFields \cup weakFixups
    BY <1>0, <2>1, <2>2 DEF PendingWellFormed
  <2>4. NewRef(fld[r][f])
    BY <1>0, <2>1, <2>2, <2>3 DEF MoveInv
  <2>5. QED BY <2>4, NewRefSurvives
<1>5. Graph!Closed(Survivors)
  BY <1>0, <1>2, <1>3, <1>4, ClosedView DEF HoldsMembers
<1>6. \A S \in SUBSET Alive : Graph!Closed(S) => Survivors \subseteq S
  BY DEF SurvivorsReachable, Survivors
<1>7. Graph!Reachable = Survivors
  BY <1>2, <1>5, <1>6 DEF Graph!Reachable
<1>8. QED BY <1>2, <1>7

LEMMA FixWeakGraph ==
  ASSUME RefinementInv, IInv', FixWeak
  PROVE  IdentityInv' /\ SurvivorsReachable' /\ Graph!Collect
<1>1. /\ IInv /\ IdentityInv /\ SurvivorsReachable
      /\ TypeOK /\ MoveInv /\ PendingWellFormed /\ TypeOK'
  BY DEF RefinementInv, IInv
<1>2. /\ phase = "move" /\ phase' = "sweep" /\ active' = active
      /\ pendingHandles = {} /\ pendingFields = {}
      /\ UNCHANGED <<type, id, newPos, root>>
      /\ \A r \in Pos, f \in Fields :
           fld'[r][f] = IF <<r, f>> \in weakFixups THEN FixedWeak(fld[r][f]) ELSE fld[r][f]
  BY DEF FixWeak
<1>3. From' = From /\ To' = To /\ To \subseteq Pos /\ From \subseteq Pos /\ From \cap To = {}
  BY <1>1, <1>2, NextRefs, HalvesDisjoint DEF TypeOK
<1>4. IdentityInv'
  BY <1>1, <1>2 DEF IdentityInv, IsObject
<1>5. SurvivorsReachable'
  BY <1>2 DEF SurvivorsReachable
<1>6. Survivors \subseteq Alive /\ Graph!Reachable = Survivors
  BY <1>1, <1>2, SurvivorsAreReachable
<1>7. Visible' = {r \in To : IsObject(r)} /\ Visible' \subseteq Visible
  BY <1>2, <1>3 DEF Visible, IsObject
<1>8. Alive' = Survivors
  BY <1>2, <1>7 DEF Alive, Survivors
<1>9. ASSUME NEW x \in Survivors
      PROVE  \E r \in To : IsObject(r) /\ At(x) = r /\ At(x)' = r
  <2>1. PICK r \in To : IsObject(r) /\ id[r] = x
    BY <1>9 DEF Survivors
  <2>2. r \in Visible /\ r \in Visible'
    BY <1>7, <2>1
  <2>3. At(x) = r
    BY <1>1, <2>1, <2>2, View DEF OnePosition
  <2>4. At(x)' = r
    BY <1>1, <1>2, <1>4, <2>1, <2>2, ViewNext DEF OnePosition
  <2>5. QED BY <2>1, <2>3, <2>4
<1>10. ASSUME NEW r \in To, IsObject(r), NEW f \in Fields
       PROVE  IdOf(fld[r][f])' = Graph!Cleared(IdOf(fld[r][f]))
  <2>1. PICK v : v = fld[r][f]
    OBVIOUS
  <2>2. fld'[r][f] = IF <<r, f>> \in weakFixups THEN FixedWeak(v) ELSE v
    BY <1>2, <1>3, <2>1
  <2>3. CASE <<r, f>> \notin weakFixups
    <3>1. NewRef(v)
      BY <1>1, <1>2, <1>10, <2>1, <2>3 DEF MoveInv
    <3>2. IdOf(fld[r][f])' = IdOf(v)
      BY <1>2, <2>2, <2>3 DEF IdOf
    <3>3. QED BY <1>1, <1>6, <2>1, <3>1, <3>2, NewRefSurvives DEF Graph!Cleared
  <2>4. CASE <<r, f>> \in weakFixups
    <3>0. OldRef(v)
      BY <1>1, <1>2, <1>10, <2>1, <2>4 DEF MoveInv
    <3>1. OldRef(v) /\ v # Null
      BY <1>1, <3>0, HalvesDisjoint DEF OldRef, TypeOK
    <3>2. CASE type[v] = Moved
      <4>1. newPos[v] \in To /\ IsObject(newPos[v]) /\ id[newPos[v]] = id[v] /\ newPos[v] # Null
        BY <1>1, <1>2, <3>1, <3>2, HalvesDisjoint DEF MoveInv, IdentityInv, OldRef, TypeOK
      <4>2. id[v] \in Survivors
        BY <4>1 DEF Survivors
      <4>3. IdOf(v) = id[v] /\ IdOf(fld[r][f])' = id[v]
        BY <1>2, <2>2, <2>4, <3>1, <3>2, <4>1 DEF IdOf, FixedWeak
      <4>4. QED BY <1>6, <2>1, <4>2, <4>3 DEF Graph!Cleared
    <3>3. CASE type[v] # Moved
      <4>1. v \in From /\ v \in Pos /\ IsObject(v)
        BY <1>1, <1>3, <3>1, <3>3 DEF OldRef, TypeOK, IsObject
      <4>2. id[v] \notin Survivors
        BY <1>1, <1>3, <4>1 DEF Survivors, IdentityInv
      <4>3. IdOf(v) = id[v] /\ IdOf(fld[r][f])' = Null
        BY <2>2, <2>4, <3>1, <3>3 DEF IdOf, FixedWeak
      <4>4. QED BY <1>6, <2>1, <4>2, <4>3 DEF Graph!Cleared
    <3>4. QED BY <3>2, <3>3
  <2>5. QED BY <2>3, <2>4
<1>11. ASSUME NEW x \in Survivors
       PROVE  /\ type[At(x)]' = [y \in Alive |-> type[At(y)]][x]
              /\ \A f \in Fields :
                   IdOf(fld[At(x)][f])'
                     = Graph!Cleared([y \in Alive |-> [g \in Fields |-> IdOf(fld[At(y)][g])]][x][f])
  <2>1. PICK r \in To : IsObject(r) /\ At(x) = r /\ At(x)' = r
    BY <1>9
  <2>2. x \in Alive
    BY <1>6
  <2>3. type[At(x)]' = [y \in Alive |-> type[At(y)]][x]
    BY <1>2, <2>1, <2>2
  <2>4. ASSUME NEW f \in Fields
        PROVE  IdOf(fld[At(x)][f])'
                 = Graph!Cleared([y \in Alive |-> [g \in Fields |-> IdOf(fld[At(y)][g])]][x][f])
    <3>1. IdOf(fld[At(x)][f])' = IdOf(fld[r][f])'
      BY <2>1 DEF IdOf
    <3>2. [y \in Alive |-> [g \in Fields |-> IdOf(fld[At(y)][g])]][x][f] = IdOf(fld[r][f])
      BY <2>1, <2>2
    <3>3. QED BY <1>10, <2>1, <3>1, <3>2
  <2>5. QED BY <2>3, <2>4
<1>12. Graph!Collect
  <2>1. Alive' = Graph!Reachable
    BY <1>6, <1>8
  <2>2. [x \in Alive |-> type[At(x)]]'
          = [x \in Graph!Reachable |-> [y \in Alive |-> type[At(y)]][x]]
    BY <1>6, <2>1, <1>11
  <2>3. [x \in Alive |-> [f \in Fields |-> IdOf(fld[At(x)][f])]]'
          = [x \in Graph!Reachable |-> [f \in Fields |->
              Graph!Cleared([y \in Alive |-> [g \in Fields |-> IdOf(fld[At(y)][g])]][x][f])]]
    BY <1>6, <2>1, <1>11
  <2>4. [h \in Handles |-> IdOf(root[h])]' = [h \in Handles |-> IdOf(root[h])]
    BY <1>2 DEF IdOf
  <2>5. QED BY <2>1, <2>2, <2>3, <2>4 DEF Graph!Collect
<1>13. QED BY <1>4, <1>5, <1>12

(* Without handles nothing is reachable.                                   *)
LEMMA GcNoRootsGraph ==
  ASSUME RefinementInv, IInv', GcNoRoots
  PROVE  IdentityInv' /\ SurvivorsReachable' /\ Graph!Collect
<1>1. /\ IInv /\ IdentityInv /\ TypeOK /\ MutateInv /\ TypeOK'
  BY DEF RefinementInv, IInv
<1>2. /\ phase = "mutate" /\ phase' = "mutate" /\ root' = root
      /\ \A h \in Handles : root[h] = Null
  BY DEF GcNoRoots, gcVars, HandlesInUse
<1>3. \A r \in Pos : type'[r] = Free
  BY <1>1, <1>2, HalvesDisjoint DEF GcNoRoots, ReleaseFrom, Released, MutateInv, TypeOK
<1>4. Visible' = {} /\ Alive' = {}
  BY <1>3 DEF Visible, Alive, IsObject
<1>5. IdentityInv' /\ SurvivorsReachable'
  BY <1>2, <1>3 DEF IdentityInv, SurvivorsReachable, IsObject
<1>6. Graph!Closed({})
  BY <1>2 DEF Graph!Closed, IdOf
<1>7. Graph!Reachable = {}
  BY <1>6 DEF Graph!Reachable
<1>8. [h \in Handles |-> IdOf(root[h])]' = [h \in Handles |-> IdOf(root[h])]
  BY <1>2 DEF IdOf
<1>9. Graph!Collect
  BY <1>4, <1>7, <1>8 DEF Graph!Collect
<1>10. QED BY <1>5, <1>9

-----------------------------------------------------------------------------
(* What a client does between collections.                                 *)

(* The values of handles are those of the graph's handles.                 *)
LEMMA ValuesView ==
  ASSUME NEW v \in HandleValues
  PROVE  IdOf(v) \in Graph!HandleValues
  BY DEF HandleValues, Graph!HandleValues, IdOf

(* Between collections every object is visible and the graph has its       *)
(* members.                                                                *)
LEMMA HandleObject ==
  ASSUME IInv, IdentityInv, phase = "mutate", NEW h \in Handles, root[h] # Null
  PROVE  /\ root[h] \in Visible /\ IdOf(root[h]) = id[root[h]]
         /\ id[root[h]] \in Alive /\ At(id[root[h]]) = root[h] /\ IdOf(root[h]) # Null
<1>1. root[h] \in Pos /\ IsObject(root[h])
  BY HandlesResolve DEF IInv, NoDangling, UsedRef
<1>2. root[h] \in Visible
  BY <1>1 DEF Visible
<1>3. QED BY <1>2, View, HandlesResolve DEF OnePosition, IInv, IdOf

(* A step that changes neither types nor identities outside a collection.  *)
LEMMA SameObjects ==
  ASSUME IInv, IInv', IdentityInv, phase = "mutate", phase' = "mutate",
         type' = type, id' = id
  PROVE  /\ IdentityInv' /\ SurvivorsReachable'
         /\ Visible' = Visible /\ Alive' = Alive
         /\ \A x \in Alive : At(x)' = At(x)
         /\ [x \in Alive |-> type[At(x)]]' = [x \in Alive |-> type[At(x)]]
<1>1. IdentityInv' /\ SurvivorsReachable'
  BY DEF IdentityInv, SurvivorsReachable, IsObject
<1>2. Visible' = Visible
  BY DEF Visible, IsObject
<1>3. Alive' = Alive
  BY <1>2 DEF Alive
<1>4. \A x \in Alive : At(x)' = At(x)
  BY <1>1, <1>2, <1>3, View, ViewNext DEF OnePosition, IInv
<1>5. QED BY <1>1, <1>2, <1>3, <1>4

LEMMA SetHandleGraph ==
  ASSUME RefinementInv, IInv', NEW h \in Handles, NEW v \in HandleValues, SetHandle(h, v)
  PROVE  IdentityInv' /\ SurvivorsReachable' /\ Graph!SetHandle(h, IdOf(v))
<1>1. IInv /\ IdentityInv /\ TypeOK
  BY DEF RefinementInv, IInv
<1>2. /\ phase = "mutate" /\ phase' = "mutate" /\ type' = type /\ id' = id /\ fld' = fld
      /\ root' = [root EXCEPT ![h] = v]
  BY DEF SetHandle, gcVars
<1>3. /\ IdentityInv' /\ SurvivorsReachable' /\ Alive' = Alive
      /\ \A x \in Alive : At(x)' = At(x)
      /\ [x \in Alive |-> type[At(x)]]' = [x \in Alive |-> type[At(x)]]
  BY <1>1, <1>2, SameObjects
<1>4. [x \in Alive |-> [f \in Fields |-> IdOf(fld[At(x)][f])]]'
        = [x \in Alive |-> [f \in Fields |-> IdOf(fld[At(x)][f])]]
  BY <1>2, <1>3 DEF IdOf
<1>5. [k \in Handles |-> IdOf(root[k])]'
        = [[k \in Handles |-> IdOf(root[k])] EXCEPT ![h] = IdOf(v)]
  BY <1>1, <1>2 DEF IdOf, TypeOK
<1>6. QED BY <1>3, <1>4, <1>5 DEF Graph!SetHandle

LEMMA TrackGraph ==
  ASSUME RefinementInv, IInv', NEW h \in Handles, NEW k \in Handles, NEW f \in Fields,
         root[k] # Null, Track(h, root[k], f)
  PROVE  /\ IdentityInv' /\ SurvivorsReachable'
         /\ [g \in Handles |-> IdOf(root[g])][k] # Null
         /\ Graph!GetField(h, [g \in Handles |-> IdOf(root[g])][k], f)
<1>1. IInv /\ IdentityInv /\ TypeOK
  BY DEF RefinementInv, IInv
<1>2. /\ phase = "mutate" /\ phase' = "mutate" /\ type' = type /\ id' = id /\ fld' = fld
      /\ root[h] = Null /\ fld[root[k]][f] # Null
      /\ root' = [root EXCEPT ![h] = fld[root[k]][f]]
  BY DEF Track, gcVars
<1>3. /\ IdentityInv' /\ SurvivorsReachable' /\ Alive' = Alive
      /\ \A x \in Alive : At(x)' = At(x)
      /\ [x \in Alive |-> type[At(x)]]' = [x \in Alive |-> type[At(x)]]
  BY <1>1, <1>2, SameObjects
<1>4. [x \in Alive |-> [g \in Fields |-> IdOf(fld[At(x)][g])]]'
        = [x \in Alive |-> [g \in Fields |-> IdOf(fld[At(x)][g])]]
  BY <1>2, <1>3 DEF IdOf
<1>5. [g \in Handles |-> IdOf(root[g])]'
        = [[g \in Handles |-> IdOf(root[g])] EXCEPT ![h] = IdOf(fld[root[k]][f])]
  BY <1>1, <1>2 DEF IdOf, TypeOK
<1>6. /\ root[k] \in Visible /\ IdOf(root[k]) = id[root[k]] /\ IdOf(root[k]) # Null
      /\ id[root[k]] \in Alive /\ At(id[root[k]]) = root[k]
  BY <1>1, <1>2, HandleObject
<1>7. [x \in Alive |-> [g \in Fields |-> IdOf(fld[At(x)][g])]][IdOf(root[k])][f]
        = IdOf(fld[root[k]][f])
  BY <1>6
<1>8. IdOf(fld[root[k]][f]) # Null
  BY <1>1, <1>2, <1>6, MembersResolve
<1>9. [g \in Handles |-> IdOf(root[g])][h] = Null
  BY <1>2 DEF IdOf
<1>10. Graph!GetField(h, IdOf(root[k]), f)
  BY <1>3, <1>4, <1>5, <1>7, <1>8, <1>9 DEF Graph!GetField, Graph!SetHandle
<1>11. QED BY <1>3, <1>6, <1>10

LEMMA SetFieldGraph ==
  ASSUME RefinementInv, IInv', NEW k \in Handles, NEW f \in Fields, NEW v \in HandleValues,
         root[k] # Null, SetField(root[k], f, v)
  PROVE  /\ IdentityInv' /\ SurvivorsReachable'
         /\ [g \in Handles |-> IdOf(root[g])][k] # Null
         /\ Graph!SetField([g \in Handles |-> IdOf(root[g])][k], f, IdOf(v))
<1>1. IInv /\ IdentityInv /\ TypeOK
  BY DEF RefinementInv, IInv
<1>2. /\ phase = "mutate" /\ phase' = "mutate" /\ type' = type /\ id' = id /\ root' = root
      /\ f \in PointersOf(type[root[k]])
      /\ fld' = [fld EXCEPT ![root[k]][f] = v]
  BY DEF SetField, gcVars
<1>3. /\ IdentityInv' /\ SurvivorsReachable' /\ Alive' = Alive
      /\ \A x \in Alive : At(x)' = At(x)
      /\ [x \in Alive |-> type[At(x)]]' = [x \in Alive |-> type[At(x)]]
  BY <1>1, <1>2, SameObjects
<1>4. [g \in Handles |-> IdOf(root[g])]' = [g \in Handles |-> IdOf(root[g])]
  BY <1>2 DEF IdOf
<1>5. PICK p \in Pos : p = root[k]
  BY <1>1 DEF TypeOK, Ptr
<1>6. p \in Visible /\ IdOf(p) = id[p] /\ id[p] \in Alive /\ At(id[p]) = p /\ IdOf(p) # Null
  BY <1>1, <1>2, <1>5, HandleObject
<1>7. ASSUME NEW x \in Alive, NEW g \in Fields
      PROVE  IdOf(fld[At(x)][g])' = IF x = id[p] /\ g = f THEN IdOf(v) ELSE IdOf(fld[At(x)][g])
  <2>1. PICK r \in Visible : id[r] = x /\ At(x) = r /\ At(x)' = r
    BY <1>1, <1>3, View DEF OnePosition
  <2>2. r \in Pos /\ (x = id[p] <=> r = p)
    BY <1>6, <2>1 DEF Visible
  <2>3. fld'[r][g] = IF r = p /\ g = f THEN v ELSE fld[r][g]
    BY <1>1, <1>2, <1>5, <2>2 DEF TypeOK
  <2>4. IdOf(fld[At(x)][g])' = IF r = p /\ g = f THEN IdOf(v) ELSE IdOf(fld[r][g])
    BY <1>2, <2>1, <2>3 DEF IdOf
  <2>5. QED BY <2>1, <2>2, <2>4
<1> DEFINE F == [x \in Alive |-> [g \in Fields |-> IdOf(fld[At(x)][g])]]
<1>8. F' = [F EXCEPT ![id[p]][f] = IdOf(v)]
  <2>1. F' = [x \in Alive |-> [g \in Fields |->
                IF x = id[p] /\ g = f THEN IdOf(v) ELSE IdOf(fld[At(x)][g])]]
    BY <1>3, <1>7
  <2>2. [F EXCEPT ![id[p]][f] = IdOf(v)]
          = [x \in Alive |-> IF x = id[p] THEN [F[x] EXCEPT ![f] = IdOf(v)] ELSE F[x]]
    BY <1>6
  <2>3. \A x \in Alive :
          [F[x] EXCEPT ![f] = IdOf(v)]
            = [g \in Fields |-> IF g = f THEN IdOf(v) ELSE IdOf(fld[At(x)][g])]
    OBVIOUS
  <2>4. QED BY <2>1, <2>2, <2>3
<1>9. f \in StrongOf[[x \in Alive |-> type[At(x)]][id[p]]]
           \cup WeakOf[[x \in Alive |-> type[At(x)]][id[p]]]
  BY <1>2, <1>5, <1>6 DEF PointersOf
<1>10. Graph!SetField(id[p], f, IdOf(v))
  BY <1>3, <1>4, <1>8, <1>9 DEF Graph!SetField, Graph!PointersOf
<1>11. QED BY <1>3, <1>5, <1>6, <1>10

LEMMA MakeGraph ==
  ASSUME RefinementInv, IInv', NEW h \in Handles, NEW t \in Types, NEW x \in Ids,
         NEW p \in Pos, NEW init \in [Fields -> HandleValues], Make(h, t, x, p, init)
  PROVE  /\ IdentityInv' /\ SurvivorsReachable'
         /\ Graph!New(h, t, x, [f \in Fields |-> IdOf(init[f])])
<1>1. IInv /\ IdentityInv /\ TypeOK /\ TypeOK' /\ NoDangling /\ MutateInv
  BY DEF RefinementInv, IInv
<1>2. /\ phase = "mutate" /\ phase' = "mutate" /\ root[h] = Null /\ type[p] = Free
      /\ \A q \in Pos : IsObject(q) => id[q] # x
  BY DEF Make, gcVars
<1>3. /\ type' = [type EXCEPT ![p] = t] /\ id' = [id EXCEPT ![p] = x]
      /\ fld' = [fld EXCEPT ![p] = init] /\ root' = [root EXCEPT ![h] = p]
  BY DEF Make
<1>4. p \notin Visible /\ Visible' = Visible \cup {p}
  BY <1>1, <1>2, <1>3 DEF Visible, IsObject, TypeOK
<1>5. \A q \in Visible : q \in Pos /\ q # p /\ id[q] # x /\ id'[q] = id[q] /\ type'[q] = type[q]
                         /\ fld'[q] = fld[q]
  BY <1>1, <1>2, <1>3, <1>4 DEF Visible, TypeOK
<1>6. id'[p] = x /\ type'[p] = t /\ fld'[p] = init
  BY <1>1, <1>3 DEF TypeOK
<1>7. IdentityInv'
  BY <1>1, <1>2, <1>3, <1>4, <1>5, <1>6 DEF IdentityInv, IsObject, Visible
<1>8. SurvivorsReachable'
  BY <1>2 DEF SurvivorsReachable
<1>9. x \notin Alive /\ Alive' = Alive \cup {x}
  BY <1>4, <1>5, <1>6 DEF Alive
<1>10. ASSUME NEW v, v = Null \/ v \in Visible
       PROVE  IdOf(v)' = IdOf(v)
  BY <1>5, <1>10 DEF IdOf
<1>11. \A v \in HandleValues : v = Null \/ v \in Visible
  BY <1>1, <1>2, HandleObject DEF HandleValues
<1>12. ASSUME NEW q \in Visible, NEW f \in Fields
       PROVE  fld[q][f] = Null \/ fld[q][f] \in Visible
  BY <1>1, <1>2, MembersResolve DEF NoDangling, UsedRef, Visible
<1>13. At(x)' = p
  BY <1>1, <1>4, <1>6, <1>7, ViewNext DEF OnePosition
<1>14. ASSUME NEW y \in Alive
       PROVE  At(y) \in Visible /\ At(y)' = At(y)
  <2>1. PICK q \in Visible : id[q] = y /\ At(y) = q
    BY <1>1, View DEF OnePosition
  <2>2. q \in Visible' /\ id'[q] = y
    BY <1>4, <1>5, <2>1
  <2>3. At(y)' = q
    BY <1>1, <1>7, <2>2, ViewNext DEF OnePosition
  <2>4. QED BY <2>1, <2>3
<1>15. \A f \in Fields : IdOf(fld[At(x)][f])' = IdOf(init[f])
  <2>1. ASSUME NEW f \in Fields PROVE IdOf(fld[At(x)][f])' = IdOf(init[f])'
    BY <1>6, <1>13 DEF IdOf
  <2>2. QED BY <1>10, <1>11, <2>1
<1>16. ASSUME NEW y \in Alive, NEW f \in Fields
       PROVE  IdOf(fld[At(y)][f])' = IdOf(fld[At(y)][f])
  <2>1. PICK q \in Visible : At(y) = q /\ At(y)' = q
    BY <1>14
  <2>2. PICK v : v = fld[q][f] /\ v = fld'[q][f]
    BY <1>5
  <2>3. IdOf(fld[At(y)][f])' = IdOf(v)'
    BY <2>1, <2>2 DEF IdOf
  <2>4. QED BY <1>10, <1>12, <2>1, <2>2, <2>3
<1>17. [y \in Alive |-> type[At(y)]]'
         = [y \in Alive' |-> IF y = x THEN t ELSE [z \in Alive |-> type[At(z)]][y]]
  BY <1>5, <1>6, <1>9, <1>13, <1>14
<1>18. [y \in Alive |-> [f \in Fields |-> IdOf(fld[At(y)][f])]]'
         = [y \in Alive' |-> IF y = x THEN [f \in Fields |-> IdOf(init[f])]
              ELSE [z \in Alive |-> [f \in Fields |-> IdOf(fld[At(z)][f])]][y]]
  BY <1>9, <1>15, <1>16
<1>19. [k \in Handles |-> IdOf(root[k])]'
         = [[k \in Handles |-> IdOf(root[k])] EXCEPT ![h] = x]
  <2>1. IdOf(p)' = x
    BY <1>6 DEF IdOf
  <2>2. ASSUME NEW k \in Handles, k # h PROVE IdOf(root[k])' = IdOf(root[k])
    <3>1. PICK v : v = root[k] /\ v = root'[k]
      BY <1>1, <1>3, <2>2 DEF TypeOK
    <3>2. v = Null \/ v \in Visible
      BY <1>1, <1>2, <3>1, HandleObject
    <3>3. QED BY <1>10, <3>1, <3>2 DEF IdOf
  <2>3. IdOf(root[h])' = IdOf(p)'
    BY <1>1, <1>3 DEF IdOf, TypeOK
  <2>4. QED BY <2>1, <2>2, <2>3
<1>20. [k \in Handles |-> IdOf(root[k])][h] = Null
  BY <1>2 DEF IdOf
<1>21. Graph!New(h, t, x, [f \in Fields |-> IdOf(init[f])])
  BY <1>9, <1>17, <1>18, <1>19, <1>20 DEF Graph!New
<1>22. QED BY <1>7, <1>8, <1>21

-----------------------------------------------------------------------------

LEMMA InitRefinement == Init => RefinementInv /\ Graph!Init
<1> SUFFICES ASSUME Init PROVE RefinementInv /\ Graph!Init
  OBVIOUS
<1>1. IInv
  BY InitIInv
<1>2. Visible = {} /\ Alive = {}
  BY DEF Init, Visible, Alive, IsObject
<1>3. IdentityInv /\ SurvivorsReachable
  BY DEF Init, IdentityInv, SurvivorsReachable, IsObject
<1>4. Graph!Init
  BY <1>2 DEF Init, Graph!Init, IdOf
<1>5. QED BY <1>1, <1>3, <1>4 DEF RefinementInv

LEMMA StutterGraph ==
  ASSUME RefinementInv, UNCHANGED vars
  PROVE  Stutters
<1>1. From' = From /\ To' = To /\ Visible' = Visible /\ TypeOK /\ IdentityInv /\ TypeOK'
  BY NextRefs DEF vars, Visible, IsObject, RefinementInv, IInv, TypeOK
<1>2. IdentityInv'
  BY <1>1 DEF vars, IdentityInv, IsObject
<1>3. UNCHANGED Graph!vars
  BY <1>1, <1>2, SamePlaces DEF vars, IdOf
<1>4. SurvivorsReachable'
  BY <1>1, <1>3, SameClosed DEF vars, SurvivorsReachable, IsObject, RefinementInv
<1>5. QED BY <1>2, <1>3, <1>4 DEF Stutters

LEMMA NextRefinement ==
  RefinementInv /\ [Next]_vars => RefinementInv' /\ [Graph!Next]_(Graph!vars)
<1> SUFFICES ASSUME RefinementInv, [Next]_vars
             PROVE  RefinementInv' /\ [Graph!Next]_(Graph!vars)
  OBVIOUS
<1> DEFINE Goal == IdentityInv' /\ SurvivorsReachable' /\ [Graph!Next]_(Graph!vars)
<1>0. IInv'
  BY NextIInv DEF RefinementInv
<1>1. ASSUME NEW h \in Handles, NEW t \in Types, NEW x \in Ids, NEW p \in Pos,
             NEW init \in [Fields -> HandleValues], Make(h, t, x, p, init)
      PROVE  Goal
  <2> DEFINE i == [f \in Fields |-> IdOf(init[f])]
  <2>1. IdentityInv' /\ SurvivorsReachable' /\ Graph!New(h, t, x, i)
    BY <1>0, <1>1, MakeGraph
  <2>2. i \in [Fields -> Graph!HandleValues]
    BY ValuesView
  <2>3. \A f \in Fields \ Graph!PointersOf(t) : i[f] = Null
    BY <1>1 DEF Make, PointersOf, Graph!PointersOf, IdOf
  <2> HIDE DEF i
  <2>4. Graph!Next
    BY <2>1, <2>2, <2>3 DEF Graph!Next
  <2>5. QED BY <2>1, <2>4
<1>2. ASSUME NEW h \in Handles, NEW v \in HandleValues, SetHandle(h, v)
      PROVE  Goal
  <2>1. IdentityInv' /\ SurvivorsReachable' /\ Graph!SetHandle(h, IdOf(v))
    BY <1>0, <1>2, SetHandleGraph
  <2>2. Graph!Next
    BY <2>1, ValuesView DEF Graph!Next
  <2>3. QED BY <2>1, <2>2
<1>3. ASSUME NEW h \in Handles, NEW f \in Fields, NEW v \in HandleValues,
             root[h] # Null, SetField(root[h], f, v)
      PROVE  Goal
  <2>1. /\ IdentityInv' /\ SurvivorsReachable'
        /\ [g \in Handles |-> IdOf(root[g])][h] # Null
        /\ Graph!SetField([g \in Handles |-> IdOf(root[g])][h], f, IdOf(v))
    BY <1>0, <1>3, SetFieldGraph
  <2>2. Graph!Next
    BY <2>1, ValuesView DEF Graph!Next
  <2>3. QED BY <2>1, <2>2
<1>4. ASSUME NEW h \in Handles, NEW k \in Handles, NEW f \in Fields,
             root[k] # Null, Track(h, root[k], f)
      PROVE  Goal
  <2>1. /\ IdentityInv' /\ SurvivorsReachable'
        /\ [g \in Handles |-> IdOf(root[g])][k] # Null
        /\ Graph!GetField(h, [g \in Handles |-> IdOf(root[g])][k], f)
    BY <1>0, <1>4, TrackGraph
  <2>2. Graph!Next
    BY <2>1 DEF Graph!Next
  <2>3. QED BY <2>1, <2>2
<1>5. ASSUME GcBegin
      PROVE  Goal
  BY <1>0, <1>5, GcBeginGraph DEF Stutters
<1>6. ASSUME GcNoRoots
      PROVE  Goal
  BY <1>0, <1>6, GcNoRootsGraph DEF Graph!Next
<1>7. ASSUME NEW h \in Handles, NEW q \in Pos, FixHandleMove(h, q) \/ FixHandleForward(h, q)
      PROVE  Goal
  BY <1>0, <1>7, FixHandleMoveGraph, FixHandleForwardGraph DEF Stutters
<1>8. ASSUME NEW p \in Pos, NEW q \in Pos, NEW f \in Fields,
             FixFieldMove(p, f, q) \/ FixFieldForward(p, f, q)
      PROVE  Goal
  BY <1>0, <1>8, FixFieldMoveGraph, FixFieldForwardGraph DEF Stutters
<1>9. ASSUME FixWeak
      PROVE  Goal
  BY <1>0, <1>9, FixWeakGraph DEF Graph!Next
<1>10. ASSUME Sweep
      PROVE  Goal
  BY <1>0, <1>10, SweepGraph DEF Stutters
<1>11. ASSUME UNCHANGED vars
      PROVE  Goal
  BY <1>11, StutterGraph DEF Stutters
<1> HIDE DEF Goal
<1>12. Goal
  BY <1>1, <1>2, <1>3, <1>4, <1>5, <1>6, <1>7, <1>8, <1>9, <1>10, <1>11
  DEF Next, ClientStep, FixupStep
<1>13. QED BY <1>0, <1>12 DEF Goal, RefinementInv

(* In every state of every heap an identity names one object, a pointer    *)
(* resolves to an object of the graph, and only what a handle reaches has  *)
(* moved (garbage_collect and gc_move).                                    *)
THEOREM RefinementInvariant == Spec => []RefinementInv
<1>1. QED BY InitRefinement, NextRefinement, PTL DEF Spec

(* The collector implements the object graph: a collection is one atomic   *)
(* step that removes exactly what no handle reaches, with the weak         *)
(* pointers to it, and no other step changes what the clients see.         *)
THEOREM Refinement == Spec => ImplementsGraph
<1>1. Spec => Graph!Init /\ [][Graph!Next]_(Graph!vars)
  BY InitRefinement, NextRefinement, PTL DEF Spec
<1>2. QED BY <1>1 DEF ImplementsGraph, Graph!Spec

(* What is proved of every object graph holds of the one on the heap.      *)
GraphProofs == INSTANCE ObjectGraphProofs WITH
           alive <- Alive,
           typeOf <- [x \in Alive |-> type[At(x)]],
           field <- [x \in Alive |-> [f \in Fields |-> IdOf(fld[At(x)][f])]],
           handle <- [h \in Handles |-> IdOf(root[h])]

(* Garbage stays garbage on the collected heap as well: what no handle     *)
(* leads to, by tracked, untracked or weak members, is never found again,  *)
(* in the middle of a collection or after it.                              *)
THEOREM NoResurrectionOnHeap == Spec => GarbageStaysGarbage
<1>1. Graph!Init => GraphProofs!GraphTypeOK
  BY GraphProofs!InitGraphTypeOK DEF Graph!Init, GraphProofs!Init
<1>2. [Graph!Next]_(Graph!vars) => [GraphProofs!Next]_(GraphProofs!vars)
  <2>1. /\ Graph!HandleValues = GraphProofs!HandleValues
        /\ \A t : Graph!PointersOf(t) = GraphProofs!PointersOf(t)
    BY DEF Graph!HandleValues, GraphProofs!HandleValues, Graph!PointersOf, GraphProofs!PointersOf
  <2>2. \A h, t, x, i : Graph!New(h, t, x, i) => GraphProofs!New(h, t, x, i)
    BY DEF Graph!New, GraphProofs!New
  <2>3. \A h, v : Graph!SetHandle(h, v) => GraphProofs!SetHandle(h, v)
    BY DEF Graph!SetHandle, GraphProofs!SetHandle
  <2>4. \A x, f, v : Graph!SetField(x, f, v) => GraphProofs!SetField(x, f, v)
    BY <2>1 DEF Graph!SetField, GraphProofs!SetField
  <2>5. \A h, x, f : Graph!GetField(h, x, f) => GraphProofs!GetField(h, x, f)
    BY <2>3 DEF Graph!GetField, GraphProofs!GetField
  <2>6. Graph!Collect => GraphProofs!Collect
    BY DEF Graph!Collect, GraphProofs!Collect, Graph!Cleared, GraphProofs!Cleared,
           Graph!Reachable, GraphProofs!Reachable, Graph!Closed, GraphProofs!Closed,
           Graph!Successors, GraphProofs!Successors
  <2>7. Graph!Next => GraphProofs!Next
    BY <2>1, <2>2, <2>3, <2>4, <2>5, <2>6 DEF Graph!Next, GraphProofs!Next
  <2>8. QED BY <2>7 DEF Graph!vars, GraphProofs!vars
<1>3. GraphProofs!GraphTypeOK /\ [Graph!Next]_(Graph!vars) => GraphProofs!GraphTypeOK'
  BY <1>2, GraphProofs!NextGraphTypeOK
<1>4. GraphProofs!GraphTypeOK /\ [Graph!Next]_(Graph!vars)
        => Graph!Held' \subseteq Graph!Held \cup (Alive' \ Alive)
  <2>1. Graph!Held = GraphProofs!Held
    BY DEF Graph!Held, GraphProofs!Held, Graph!Follows, GraphProofs!Follows
  <2>2. (Graph!Held)' = (GraphProofs!Held)'
    BY DEF Graph!Held, GraphProofs!Held, Graph!Follows, GraphProofs!Follows
  <2>3. QED BY <1>2, <2>1, <2>2, GraphProofs!HeldNext
<1>5. QED BY <1>1, <1>3, <1>4, Refinement, PTL
  DEF ImplementsGraph, GarbageStaysGarbage, Graph!Spec, Graph!GarbageStaysGarbage
=============================================================================
