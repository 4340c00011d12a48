--------------------------- MODULE CopyCollector ---------------------------
(***************************************************************************)
(* The collection algorithm of gc_heap (garbage_collect and gc_move) and   *)
(* the operations a client performs between collections, on object         *)
(* positions: how much room an object takes, where in the free half it is  *)
(* placed and in which order the pending fixups are taken is left open     *)
(* (GCHeap fixes all three).                                               *)
(*                                                                         *)
(* The heap has two halves.  Clients use the active half; a collection     *)
(* moves what the handles reach to the other one.  A moved object leaves   *)
(* its type index set to gc_moved and its new position behind.  Pending    *)
(* fixups are locations that still hold a position in the old half: a      *)
(* handle (pendingHandles) or a field of a moved object (pendingFields).   *)
(* A weak field of a moved object waits in weakFixups until every pending  *)
(* fixup is done, because only then is it known what has moved.            *)
(***************************************************************************)
EXTENDS Integers

CONSTANTS
  Handles,  (* tracked pointers outside the heap                           *)
  Ids,      (* identities of objects (a history variable's values)         *)
  Types,    (* C++ types constructed on the heap                           *)
  Fields,   (* names of the pointer members an object can have             *)
  StrongOf, (* [Types -> SUBSET Fields]: tracked and untracked members     *)
  WeakOf,   (* [Types -> SUBSET Fields]: gc_heap_weak_ptr_untracked members*)
  Half0,    (* object positions of the first half                          *)
  Half1,    (* object positions of the second half                         *)
  Null,     (* position 0: the value of an empty pointer                   *)
  Free,     (* no object at this position                                  *)
  Moved     (* gc_moved_type_index                                         *)

Pos == Half0 \cup Half1

ASSUME CollectorAssumption ==
  /\ StrongOf \in [Types -> SUBSET Fields]
  /\ WeakOf \in [Types -> SUBSET Fields]
  /\ \A t \in Types : StrongOf[t] \cap WeakOf[t] = {}
  /\ Half0 \cap Half1 = {}
  /\ Null \notin Ids
  /\ Null \notin Pos
  /\ Free \notin Types /\ Moved \notin Types /\ Free # Moved

VARIABLES
  type,           (* [Pos -> Types, Free or Moved]: the allocation header  *)
  id,             (* [Pos -> Ids or Null]: which object this is (history)  *)
  fld,            (* [Pos -> [Fields -> Pos or Null]]: pointer members     *)
  newPos,         (* [Pos -> Pos or Null]: new_position of a moved object  *)
  root,           (* [Handles -> Pos or Null]                              *)
  active,         (* which half alloc_context_ describes: 0 or 1           *)
  pendingHandles, (* handles among pending_fixups                          *)
  pendingFields,  (* fields among pending_fixups                           *)
  weakFixups,     (* weak_fixups                                           *)
  phase           (* "mutate", or where garbage_collect() is               *)

gcVars == <<pendingHandles, pendingFields, weakFixups, active, phase>>
vars == <<type, id, fld, newPos, root, pendingHandles, pendingFields,
          weakFixups, active, phase>>

HalfOf(a) == IF a = 0 THEN Half0 ELSE Half1
From == HalfOf(active)       \* the half alloc_context_ allocates from
To == HalfOf(1 - active)     \* other_half()

Ptr == Pos \cup {Null}
NoFields == [f \in Fields |-> Null]
PointersOf(t) == StrongOf[t] \cup WeakOf[t]

TypeOK ==
  /\ type \in [Pos -> Types \cup {Free, Moved}]
  /\ id \in [Pos -> Ids \cup {Null}]
  /\ fld \in [Pos -> [Fields -> Ptr]]
  /\ newPos \in [Pos -> Ptr]
  /\ root \in [Handles -> Ptr]
  /\ active \in {0, 1}
  /\ pendingHandles \in SUBSET Handles
  /\ pendingFields \in SUBSET (Pos \X Fields)
  /\ weakFixups \in SUBSET (Pos \X Fields)
  /\ phase \in {"mutate", "move", "sweep"}

Init ==
  /\ type = [p \in Pos |-> Free]
  /\ id = [p \in Pos |-> Null]
  /\ fld = [p \in Pos |-> NoFields]
  /\ newPos = [p \in Pos |-> Null]
  /\ root = [h \in Handles |-> Null]
  /\ active = 0
  /\ pendingHandles = {}
  /\ pendingFields = {}
  /\ weakFixups = {}
  /\ phase = "mutate"

-----------------------------------------------------------------------------
(* What a client does between two collections.                             *)

IsObject(p) == type[p] \in Types

(* Mutant of HandleValues: a handle made from any position.                *)
AnyPositions == {p \in Pos : IsObject(p)} \cup {Null}

(* A handle can only be given a value another pointer holds already.       *)
HandleValues == {root[h] : h \in Handles} \cup {Null}

(* make<T>(...): an object at a free position of the active half, its      *)
(* members initialised from pointers the caller holds.                     *)
Make(h, t, x, p, init) ==
  /\ phase = "mutate"
  /\ root[h] = Null
  /\ p \in From /\ type[p] = Free
  /\ \A q \in Pos : IsObject(q) => id[q] # x
  /\ \A f \in Fields \ PointersOf(t) : init[f] = Null
  /\ type' = [type EXCEPT ![p] = t]
  /\ id' = [id EXCEPT ![p] = x]
  /\ fld' = [fld EXCEPT ![p] = init]
  /\ root' = [root EXCEPT ![h] = p]
  /\ UNCHANGED <<newPos, gcVars>>

(* gc_heap_ptr: copy construction, assignment and destruction of a handle. *)
SetHandle(h, v) ==
  /\ phase = "mutate"
  /\ root' = [root EXCEPT ![h] = v]
  /\ UNCHANGED <<type, id, fld, newPos, gcVars>>

(* Assignment to a pointer member of the object a handle refers to.        *)
SetField(p, f, v) ==
  /\ phase = "mutate"
  /\ IsObject(p)
  /\ f \in PointersOf(type[p])
  /\ fld' = [fld EXCEPT ![p][f] = v]
  /\ UNCHANGED <<type, id, newPos, root, gcVars>>

(* gc_heap_ptr_untracked::track: a handle made from a pointer member.      *)
Track(h, p, f) ==
  /\ phase = "mutate"
  /\ root[h] = Null
  /\ IsObject(p)
  /\ fld[p][f] # Null
  /\ root' = [root EXCEPT ![h] = fld[p][f]]
  /\ UNCHANGED <<type, id, fld, newPos, gcVars>>

-----------------------------------------------------------------------------
(* garbage_collect.                                                        *)

HandlesInUse == {h \in Handles : root[h] # Null}

(* Every tracked pointer outside the heap is a root.                       *)
GcBegin ==
  /\ phase = "mutate"
  /\ HandlesInUse # {}
  /\ pendingHandles' = HandlesInUse
  /\ phase' = "move"
  /\ UNCHANGED <<type, id, fld, newPos, root, active, pendingFields, weakFixups>>

Released(half, val, released) ==
  [p \in Pos |-> IF p \in half THEN released ELSE val[p]]

(* run_destructors on the half described by alloc_context_: every object   *)
(* of it dies and the half is free again.                                  *)
ReleaseFrom ==
  /\ type' = Released(From, type, Free)
  /\ id' = Released(From, id, Null)
  /\ fld' = Released(From, fld, NoFields)
  /\ newPos' = Released(From, newPos, Null)

(* Without roots nothing survives, and the active half stays active.       *)
GcNoRoots ==
  /\ phase = "mutate"
  /\ HandlesInUse = {}
  /\ ReleaseFrom
  /\ UNCHANGED <<root, gcVars>>

(* Mutant of WeakPointers: weak members never register.                    *)
NoWeakPointers(q, p) == {}

StrongPointers(q, p) == {<<q, f>> : f \in {g \in StrongOf[type[p]] : fld[p][g] # Null}}
WeakPointers(q, p) == {<<q, f>> : f \in {g \in WeakOf[type[p]] : fld[p][g] # Null}}

(* gc_move(p) for an object that has not moved: it is copied to a free     *)
(* position q of the other half, destroyed where it was, and the pointers  *)
(* of the copy wait for a fixup.                                           *)
Relocate(p, q) ==
  /\ IsObject(p)
  /\ q \in To /\ type[q] = Free
  /\ type' = [type EXCEPT ![p] = Moved, ![q] = type[p]]
  /\ id' = [id EXCEPT ![q] = id[p]]
  /\ newPos' = [newPos EXCEPT ![p] = q]
  /\ weakFixups' = weakFixups \cup WeakPointers(q, p)

(* gc_move(p) for an object that has moved: nothing but the new position.  *)
Forward(p, q) ==
  /\ type[p] = Moved
  /\ q = newPos[p]
  /\ UNCHANGED <<type, id, newPos, weakFixups>>

Copied(p, q) == [fld EXCEPT ![q] = fld[p], ![p] = NoFields]

FixHandle(h, q) ==
  /\ phase = "move"
  /\ h \in pendingHandles
  /\ pendingHandles' = pendingHandles \ {h}
  /\ root' = [root EXCEPT ![h] = q]
  /\ UNCHANGED <<active, phase>>

FixHandleMove(h, q) ==
  /\ FixHandle(h, q)
  /\ Relocate(root[h], q)
  /\ fld' = Copied(root[h], q)
  /\ pendingFields' = pendingFields \cup StrongPointers(q, root[h])

FixHandleForward(h, q) ==
  /\ FixHandle(h, q)
  /\ Forward(root[h], q)
  /\ UNCHANGED <<fld, pendingFields>>

FixField(p, f, q) ==
  /\ phase = "move"
  /\ <<p, f>> \in pendingFields
  /\ UNCHANGED <<root, pendingHandles, active, phase>>

FixFieldMove(p, f, q) ==
  /\ FixField(p, f, q)
  /\ Relocate(fld[p][f], q)
  /\ fld' = [Copied(fld[p][f], q) EXCEPT ![p][f] = q]
  /\ pendingFields' = (pendingFields \ {<<p, f>>}) \cup StrongPointers(q, fld[p][f])

FixFieldForward(p, f, q) ==
  /\ FixField(p, f, q)
  /\ Forward(fld[p][f], q)
  /\ fld' = [fld EXCEPT ![p][f] = q]
  /\ pendingFields' = pendingFields \ {<<p, f>>}

(* Mutant of FixedWeak: every weak pointer is cleared.                     *)
FixedWeakDropped(p) == Null

(* Weak pointers follow what has moved and are cleared otherwise.          *)
FixedWeak(p) == IF type[p] = Moved THEN newPos[p] ELSE Null

FixWeak ==
  /\ phase = "move"
  /\ pendingHandles = {} /\ pendingFields = {}
  /\ fld' = [p \in Pos |-> [f \in Fields |->
               IF <<p, f>> \in weakFixups THEN FixedWeak(fld[p][f]) ELSE fld[p][f]]]
  /\ weakFixups' = {}
  /\ phase' = "sweep"
  /\ UNCHANGED <<type, id, newPos, root, pendingHandles, pendingFields, active>>

(* The halves are swapped and what is left in the old one is destroyed.    *)
Sweep ==
  /\ phase = "sweep"
  /\ ReleaseFrom
  /\ active' = 1 - active
  /\ phase' = "mutate"
  /\ UNCHANGED <<root, pendingHandles, pendingFields, weakFixups>>

-----------------------------------------------------------------------------

ClientStep ==
  \/ \E h \in Handles, t \in Types, x \in Ids, p \in Pos :
       \E init \in [Fields -> HandleValues] : Make(h, t, x, p, init)
  \/ \E h \in Handles, v \in HandleValues : SetHandle(h, v)
  \/ \E h \in Handles, f \in Fields, v \in HandleValues :
       root[h] # Null /\ SetField(root[h], f, v)
  \/ \E h, k \in Handles, f \in Fields :
       root[k] # Null /\ Track(h, root[k], f)

FixupStep ==
  \/ \E h \in Handles, q \in Pos : FixHandleMove(h, q) \/ FixHandleForward(h, q)
  \/ \E p, q \in Pos, f \in Fields : FixFieldMove(p, f, q) \/ FixFieldForward(p, f, q)

Next == ClientStep \/ GcBegin \/ GcNoRoots \/ FixupStep \/ FixWeak \/ Sweep

Spec == Init /\ [][Next]_vars

-----------------------------------------------------------------------------
(* Safety.                                                                 *)

UsedRef(v) == v = Null \/ IsObject(v)

(* Between collections no pointer dangles: every handle and every member   *)
(* of every object, weak ones included, is empty or refers to an object    *)
(* (what the assertions pos_inside, type_check and a.type !=               *)
(* uninitialized_type_index of gc_heap rely on).                           *)
NoDangling ==
  phase = "mutate" =>
    /\ \A h \in Handles : UsedRef(root[h])
    /\ \A p \in Pos, f \in Fields : IsObject(p) => UsedRef(fld[p][f])

(* During a collection: a pointer not yet fixed up refers to the old half, *)
(* to an object or to what a moved object left behind ...                  *)
OldRef(v) == v \in From /\ type[v] # Free
(* ... and a pointer that needs no more fixups to an object of the new one.*)
NewRef(v) == v = Null \/ (v \in To /\ IsObject(v))

(* A pending location is a non-empty pointer of the right kind.            *)
PendingWellFormed ==
  /\ \A h \in pendingHandles : root[h] # Null
  /\ \A p \in Pos, f \in Fields :
       /\ <<p, f>> \in pendingFields =>
            p \in To /\ IsObject(p) /\ f \in StrongOf[type[p]] /\ fld[p][f] # Null
       /\ <<p, f>> \in weakFixups =>
            p \in To /\ IsObject(p) /\ f \in WeakOf[type[p]] /\ fld[p][f] # Null

(* An object has only the members of its type.                             *)
OnlyMembers ==
  \A p \in Pos, f \in Fields :
    IsObject(p) /\ f \notin PointersOf(type[p]) => fld[p][f] = Null

(* Outside a collection nothing is pending and the other half is empty.    *)
MutateInv ==
  phase = "mutate" =>
    /\ pendingHandles = {} /\ pendingFields = {} /\ weakFixups = {}
    /\ \A p \in Pos : type[p] # Moved
    /\ \A p \in To : type[p] = Free

(* While objects move: each pointer is fixed up or waits for its fixup.    *)
MoveInv ==
  phase = "move" =>
    /\ \A h \in Handles :
         IF h \in pendingHandles THEN OldRef(root[h]) ELSE NewRef(root[h])
    /\ \A p \in To, f \in Fields : IsObject(p) =>
         IF <<p, f>> \in pendingFields \cup weakFixups
         THEN OldRef(fld[p][f]) ELSE NewRef(fld[p][f])
    /\ \A p \in From, f \in Fields :
         IsObject(p) => fld[p][f] = Null \/ OldRef(fld[p][f])
    /\ \A p \in To : type[p] # Moved
    /\ \A p \in From : type[p] = Moved => newPos[p] \in To /\ IsObject(newPos[p])

(* Before the old half is released: nothing that survives refers to it.    *)
SweepInv ==
  phase = "sweep" =>
    /\ pendingHandles = {} /\ pendingFields = {} /\ weakFixups = {}
    /\ \A h \in Handles : NewRef(root[h])
    /\ \A p \in To, f \in Fields : IsObject(p) => NewRef(fld[p][f])
    /\ \A p \in To : type[p] # Moved

(* The inductive invariant NoDangling follows from.                        *)
IInv ==
  /\ TypeOK
  /\ OnlyMembers
  /\ PendingWellFormed
  /\ MutateInv
  /\ MoveInv
  /\ SweepInv
  /\ NoDangling

-----------------------------------------------------------------------------
(* The object graph the clients see.  A moved object and its copy are one  *)
(* object, so that positions of both halves resolve through the identity;  *)
(* what did not move is gone once the weak pointers have been cleared.     *)

Visible == {p \in Pos : IsObject(p) /\ (phase = "sweep" => p \in To)}
Alive == {id[p] : p \in Visible}
At(x) == CHOOSE p \in Visible : id[p] = x
IdOf(v) == IF v = Null THEN Null ELSE id[v]

Graph == INSTANCE ObjectGraph WITH
           alive <- Alive,
           typeOf <- [x \in Alive |-> type[At(x)]],
           field <- [x \in Alive |-> [f \in Fields |-> IdOf(fld[At(x)][f])]],
           handle <- [h \in Handles |-> IdOf(root[h])]

(* An identity names one object; what a moved object left behind has the   *)
(* identity of the copy.                                                   *)
IdentityInv ==
  /\ \A p \in Pos : IsObject(p) => id[p] \in Ids
  /\ \A p, q \in Pos : IsObject(p) /\ IsObject(q) /\ id[p] = id[q] => p = q
  /\ phase = "move" => \A p \in From : type[p] = Moved => id[newPos[p]] = id[p]

(* Only what a handle reaches is moved.                                    *)
SurvivorsReachable ==
  phase = "move" =>
    \A S \in SUBSET Alive : Graph!Closed(S) =>
      \A p \in To : IsObject(p) => id[p] \in S

(* The inductive invariant the refinement follows from.                    *)
RefinementInv == IInv /\ IdentityInv /\ SurvivorsReachable

(* A collection is one atomic step of the object graph: exactly the        *)
(* objects no handle reaches by strong pointers disappear, with every weak *)
(* pointer to them, and no other step of the collector changes the graph.  *)
ImplementsGraph == Graph!Spec

(* Garbage stays garbage: an object that no client can get hold of, by     *)
(* strong or by weak members, is never found again, before, during and     *)
(* after a collection.  A weak member may bring an object back that        *)
(* nothing keeps alive, until a collection clears it (track() of           *)
(* gc_heap_weak_ptr_untracked, which the string cache uses).               *)
GarbageStaysGarbage == Graph!GarbageStaysGarbage
=============================================================================
