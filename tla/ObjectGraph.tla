---------------------------- MODULE ObjectGraph ----------------------------
(***************************************************************************)
(* What a gc_heap promises its clients, with no storage at all: a graph of *)
(* objects named by identities, handles (the gc_heap_ptr's that live       *)
(* outside the heap) that keep objects alive, and a collection that        *)
(* removes exactly the objects no handle leads to.  An object has strong   *)
(* fields, which keep their target alive, and weak fields, which a         *)
(* collection clears when it removes their target.                         *)
(*                                                                         *)
(* CopyCollector (garbage_collect and gc_move on positions) and GCHeap     *)
(* (the slots, the pointer_set and the fixup vectors) implement this       *)
(* module.                                                                 *)
(***************************************************************************)

CONSTANTS
  Handles,  (* tracked pointers outside the heap                           *)
  Ids,      (* identities an object can have while it is on the heap       *)
  Types,    (* C++ types constructed on the heap                           *)
  Fields,   (* names of the pointer members an object can have             *)
  StrongOf, (* [Types -> SUBSET Fields]: members that keep their target    *)
  WeakOf,   (* [Types -> SUBSET Fields]: members that do not               *)
  Null      (* the value of an empty pointer                               *)

VARIABLES
  alive,  (* the identities in use                                         *)
  typeOf, (* [alive -> Types]                                              *)
  field,  (* [alive -> [Fields -> alive or Null]]                          *)
  handle  (* [Handles -> alive or Null]                                    *)

vars == <<alive, typeOf, field, handle>>

Init ==
  /\ alive = {}
  /\ typeOf = [x \in {} |-> Null]
  /\ field = [x \in {} |-> Null]
  /\ handle = [h \in Handles |-> Null]

PointersOf(t) == StrongOf[t] \cup WeakOf[t]

(* The strong references of x: what is alive when x is.                    *)
Successors(x) == {field[x][f] : f \in StrongOf[typeOf[x]]} \ {Null}

(* x is reachable when every set that holds the handles' targets and is    *)
(* closed under strong references holds x.                                 *)
Closed(S) ==
  /\ \A h \in Handles : handle[h] # Null => handle[h] \in S
  /\ \A x \in S : Successors(x) \subseteq S

Reachable == {x \in alive : \A S \in SUBSET alive : Closed(S) => x \in S}

-----------------------------------------------------------------------------

(* A handle can only be given a value another pointer holds already.       *)
HandleValues == {handle[h] : h \in Handles} \cup {Null}

New(h, t, x, init) ==
  /\ handle[h] = Null
  /\ x \notin alive
  /\ alive' = alive \cup {x}
  /\ typeOf' = [y \in alive' |-> IF y = x THEN t ELSE typeOf[y]]
  /\ field' = [y \in alive' |-> IF y = x THEN init ELSE field[y]]
  /\ handle' = [handle EXCEPT ![h] = x]

SetHandle(h, v) ==
  /\ handle' = [handle EXCEPT ![h] = v]
  /\ UNCHANGED <<alive, typeOf, field>>

SetField(x, f, v) ==
  /\ f \in PointersOf(typeOf[x])
  /\ field' = [field EXCEPT ![x][f] = v]
  /\ UNCHANGED <<alive, typeOf, handle>>

GetField(h, x, f) ==
  /\ handle[h] = Null
  /\ field[x][f] # Null
  /\ SetHandle(h, field[x][f])

Cleared(v) == IF v \in Reachable THEN v ELSE Null

Collect ==
  /\ alive' = Reachable
  /\ typeOf' = [x \in Reachable |-> typeOf[x]]
  /\ field' = [x \in Reachable |-> [f \in Fields |-> Cleared(field[x][f])]]
  /\ UNCHANGED handle

Next ==
  \/ \E h \in Handles, t \in Types, x \in Ids :
       \E init \in [Fields -> HandleValues] :
          /\ \A f \in Fields \ PointersOf(t) : init[f] = Null
          /\ New(h, t, x, init)
  \/ \E h \in Handles, v \in HandleValues : SetHandle(h, v)
  \/ \E h \in Handles, f \in Fields, v \in HandleValues :
       handle[h] # Null /\ SetField(handle[h], f, v)
  \/ \E h, k \in Handles, f \in Fields :
       handle[k] # Null /\ GetField(h, handle[k], f)
  \/ Collect

Spec == Init /\ [][Next]_vars

-----------------------------------------------------------------------------
(* What a client can still get hold of, by strong or by weak fields.       *)
Follows(S) ==
  /\ \A h \in Handles : handle[h] # Null => handle[h] \in S
  /\ \A x \in S, f \in Fields : field[x][f] # Null => field[x][f] \in S

Held == {x \in alive : \A S \in SUBSET alive : Follows(S) => x \in S}

(* Garbage stays garbage: an object that no client can get hold of is      *)
(* never found again.  A weak field may bring an object back that nothing  *)
(* keeps alive, until a collection clears it (gc_heap_weak_ptr_untracked   *)
(* has track(), which the string cache uses).                              *)
GarbageStaysGarbage == [][Held' \subseteq Held \cup (alive' \ alive)]_vars
=============================================================================
