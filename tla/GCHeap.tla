------------------------------- MODULE GCHeap -------------------------------
(***************************************************************************)
(* gc_heap as it is laid out: two halves of Half slots, objects bump-      *)
(* allocated behind a header slot, the pointer_set array of tracked        *)
(* pointers with its erase-by-swap, the pending_fixups stack, and          *)
(* garbage_collect one gc_move at a time.                                  *)
(*                                                                         *)
(* Positions are slot numbers.  An object's position is that of its first  *)
(* slot, one past its header, so that 0 is never an object and serves as   *)
(* the empty pointer.  A pointer is known by its location: <<0, h>> for    *)
(* handle h, outside the heap, and <<p, f>> for member f of the object at  *)
(* p.  Members are tracked (gc_heap_ptr: in pointers_), strong             *)
(* (gc_heap_ptr_untracked and value_representation: registered by the      *)
(* object's fixup()) or weak (gc_heap_weak_ptr_untracked).                 *)
(***************************************************************************)
EXTENDS Integers, Sequences, SequencesExt

CONSTANTS
  Half,     (* slots in each half                                          *)
  Handles,  (* tracked pointers outside the heap                           *)
  Ids,      (* identities of objects (history only)                        *)
  Types,    (* C++ types constructed on the heap                           *)
  Layout,   (* [Types -> Seq(Kind)]: pointer members in declaration order  *)
  Body,     (* [Types -> Nat]: bytes_to_slots of an object                 *)
  Free,     (* marks a position without an object (only in mappings)       *)
  Moved,    (* gc_moved_type_index                                         *)
  Uninit    (* uninitialized_type_index                                    *)

Kind == {"tracked", "strong", "weak"}

ASSUME HeapAssumption ==
  /\ Half \in Nat \ {0}
  /\ Layout \in [Types -> Seq(Kind)]
  /\ Body \in [Types -> Nat \ {0}]
  /\ 0 \notin Ids
  /\ Types \cap {Free, Moved, Uninit} = {}
  /\ Free # Moved /\ Free # Uninit /\ Moved # Uninit

VARIABLES
  start,     (* alloc_context_.start_: 0 or Half                           *)
  nextFree,  (* alloc_context_.next_free_                                  *)
  toNext,    (* new_context->next_free_, 0 when there is no new_context    *)
  obj,       (* allocations by object position, of both halves             *)
  root,      (* [Handles -> position or 0]                                 *)
  pointers,  (* pointers_: locations of the attached tracked pointers      *)
  pending,   (* gc_state_.pending_fixups                                   *)
  weak,      (* gc_state_.weak_fixups                                      *)
  phase      (* "mutate", or where garbage_collect() is                    *)

gcVars == <<toNext, pending, weak, phase>>
vars == <<start, nextFree, toNext, obj, root, pointers, pending, weak, phase>>

Pos == 1 .. 2 * Half - 1
Ptr == 0 .. 2 * Half - 1
Members == UNION {DOMAIN Layout[t] : t \in Types}
Location == ({0} \X Handles) \cup (Pos \X Members)

InHalf(p, s) == s < p /\ p < s + Half
ToStart == Half - start
IsObject(p) == p \in DOMAIN obj /\ obj[p].type \in Types
ObjectsIn(s) == {p \in DOMAIN obj : InHalf(p, s) /\ IsObject(p)}

(* slot_allocation_header, the object's pointer members, new_position of a *)
(* moved object (0 otherwise), and the identity of the object.             *)
Allocation(size, t, members, x) ==
  [size |-> size, type |-> t, member |-> members, new |-> 0, id |-> x]

Init ==
  /\ start = 0
  /\ nextFree = 0
  /\ toNext = 0
  /\ obj = [p \in {} |-> 0]
  /\ root = [h \in Handles |-> 0]
  /\ pointers = <<>>
  /\ pending = <<>>
  /\ weak = <<>>
  /\ phase = "mutate"

-----------------------------------------------------------------------------
(* pointer_set.                                                            *)

(* Mutant of Erase: the size is decremented, the swap forgotten.           *)
EraseLast(s, l) == Front(s)

(* erase searches from the back and fills the gap with the last element.   *)
Erase(s, l) ==
  LET i == Max({j \in DOMAIN s : s[j] = l})
  IN  Front([s EXCEPT ![i] = Last(s)])

EraseAll(s, ls) == FoldLeft(Erase, s, ls)

(* The elements of the sequence s that are in S, in their order.           *)
Keep(r, e) == IF e[2] THEN Append(r, e[1]) ELSE r
Chosen(s, S) == FoldLeft(Keep, <<>>, [i \in DOMAIN s |-> <<s[i], s[i] \in S>>])

-----------------------------------------------------------------------------
(* Locations of the members of an object at p, in declaration order.       *)

MemberLocations(p, t, members, kinds) ==
  Chosen([f \in DOMAIN members |-> <<p, f>>],
         {<<p, f>> : f \in {g \in DOMAIN members : Layout[t][g] \in kinds /\ members[g] # 0}})

Attached(p, a) == MemberLocations(p, a.type, a.member, {"tracked"})
(* Mutant of Untracked: fixup() runs for a class and again for its base.   *)
UntrackedTwice(p, a) ==
  LET once == MemberLocations(p, a.type, a.member, {"strong"}) IN once \o once

Untracked(p, a) == MemberLocations(p, a.type, a.member, {"strong"})
WeakMembers(p, a) == MemberLocations(p, a.type, a.member, {"weak"})

(* The destructor detaches the members in reverse order.                   *)
Destroyed(s, p) == EraseAll(s, Reverse(Attached(p, obj[p])))

ValueAt(o, r, l) == IF l[1] = 0 THEN r[l[2]] ELSE o[l[1]].member[l[2]]
Value(l) == ValueAt(obj, root, l)

(* Mutant of Fits: the capacity of the storage, not of the half.           *)
FitsStorage(next, capacity, n) == n <= 2 * Half /\ next <= 2 * Half - n

(* allocation_context::allocate: room for n slots below the capacity.      *)
Fits(next, capacity, n) == n <= capacity /\ next <= capacity - n

Slots(t) == 1 + Body[t]
IdsInUse == {obj[p].id : p \in DOMAIN obj}

-----------------------------------------------------------------------------
(* Clients, between two collections.                                       *)

(* allocate_and_construct: header, members attached by their constructors, *)
(* the type index, and the handle that is returned.                        *)
Make(h, t, x, members) ==
  /\ phase = "mutate"
  /\ root[h] = 0
  /\ x \notin IdsInUse
  /\ Fits(nextFree, start + Half, Slots(t))
  /\ LET p == nextFree + 1
         a == Allocation(Slots(t), t, members, x)
     IN  /\ obj' = [q \in DOMAIN obj \cup {p} |-> IF q = p THEN a ELSE obj[q]]
         /\ root' = [root EXCEPT ![h] = p]
         /\ pointers' = pointers \o Attached(p, a) \o << <<0, h>> >>
  /\ nextFree' = nextFree + Slots(t)
  /\ UNCHANGED <<start, gcVars>>

(* The constructor throws (a nested allocation failed): its members detach *)
(* again, the slots stay allocated and their type stays uninitialized.     *)
MakeThrows(t) ==
  /\ phase = "mutate"
  /\ Fits(nextFree, start + Half, Slots(t))
  /\ LET p == nextFree + 1
         a == [size |-> Slots(t), type |-> Uninit, member |-> <<>>, new |-> 0, id |-> 0]
     IN  obj' = [q \in DOMAIN obj \cup {p} |-> IF q = p THEN a ELSE obj[q]]
  /\ nextFree' = nextFree + Slots(t)
  /\ UNCHANGED <<start, root, pointers, gcVars>>

(* What operator= of a tracked pointer at l does to pointers_.             *)
Reattached(l, old, new) ==
  LET detached == IF old # 0 THEN Erase(pointers, l) ELSE pointers
  IN  IF new # 0 THEN Append(detached, l) ELSE detached

(* h = k for two handles, and (k empty) reset or destruction of h.         *)
SetHandle(h, v) ==
  /\ phase = "mutate"
  /\ root' = [root EXCEPT ![h] = v]
  /\ pointers' = Reattached(<<0, h>>, root[h], v)
  /\ UNCHANGED <<start, nextFree, obj, gcVars>>

(* Assignment of v to member f of the object at p.                         *)
SetMember(p, f, v) ==
  /\ phase = "mutate"
  /\ obj' = [obj EXCEPT ![p].member[f] = v]
  /\ pointers' = IF Layout[obj[p].type][f] = "tracked"
                 THEN Reattached(<<p, f>>, obj[p].member[f], v)
                 ELSE pointers
  /\ UNCHANGED <<start, nextFree, root, gcVars>>

(* A new handle from a member: track(), or copy of a tracked member.       *)
Track(h, p, f) ==
  /\ phase = "mutate"
  /\ root[h] = 0
  /\ obj[p].member[f] # 0
  /\ root' = [root EXCEPT ![h] = obj[p].member[f]]
  /\ pointers' = Append(pointers, <<0, h>>)
  /\ UNCHANGED <<start, nextFree, obj, gcVars>>

-----------------------------------------------------------------------------
(* garbage_collect.                                                        *)

(* Mutant of IsExternal: the heap is taken to be its first half.           *)
IsExternalToFirst(l) == ~(0 < l[1] /\ l[1] < Half)

(* is_internal compares the pointer's address with storage_ .. storage_ +  *)
(* capacity_, where capacity_ is the end of the active half.               *)
IsExternal(l) == ~(0 < l[1] /\ l[1] < start + Half)

ExternalPointers == Chosen(pointers, {l \in Range(pointers) : IsExternal(l)})

GcBegin ==
  /\ phase = "mutate"
  /\ pending' = ExternalPointers
  /\ pending' # <<>>
  /\ toNext' = ToStart
  /\ phase' = "move"
  /\ UNCHANGED <<start, nextFree, obj, root, pointers, weak>>

(* run_destructors walks the headers of the half described by              *)
(* alloc_context_ and destroys what is active.                             *)
Walk ==
  LET headers == {p - 1 : p \in {q \in DOMAIN obj : InHalf(q, start)}} \cup {nextFree}
      walk[pos \in headers] ==
        IF pos >= nextFree THEN <<>>
        ELSE <<pos + 1>> \o walk[pos + obj[pos + 1].size]
  IN  walk[start]

RunDestructors ==
  /\ pointers' = FoldLeft(Destroyed, pointers, Chosen(Walk, ObjectsIn(start)))
  /\ obj' = [p \in {q \in DOMAIN obj : ~InHalf(q, start)} |-> obj[p]]

GcNoRoots ==
  /\ phase = "mutate"
  /\ ExternalPointers = <<>>
  /\ RunDestructors
  /\ nextFree' = start
  /\ UNCHANGED <<start, root, gcVars>>

(* *ppos = q, in an object or in a handle.                                 *)
Stored(o, l, q) == IF l[1] = 0 THEN o ELSE [o EXCEPT ![l[1]].member[l[2]] = q]
StoreRoot(l, q) == root' = IF l[1] = 0 THEN [root EXCEPT ![l[2]] = q] ELSE root

(* The copy at q, and what the object at p leaves behind.                  *)
Relocated(p, q) ==
  [r \in DOMAIN obj \cup {q} |->
     CASE r = q -> obj[p]
       [] r = p -> [obj[p] EXCEPT !.type = Moved, !.new = q, !.member = <<>>]
       [] OTHER -> obj[r]]

(* gc_move of an object that has not moved.  The copy attaches its tracked *)
(* members at the back of pointers_, which is where they are registered    *)
(* from before the original detaches its own; then the copy's fixup()      *)
(* registers the untracked ones.                                           *)
FixupMove ==
  /\ phase = "move"
  /\ pending # <<>>
  /\ LET l == Last(pending)
         p == Value(l)
         q == toNext + 1
         a == obj[p]
         extended == pointers \o Attached(q, a)
         internal == SubSeq(extended, Len(pointers) + 1, Len(extended))
     IN  /\ IsObject(p)
         /\ Fits(toNext, ToStart + Half, a.size)
         /\ toNext' = toNext + a.size
         /\ pointers' = Destroyed(extended, p)
         /\ obj' = Stored(Relocated(p, q), l, q)
         /\ StoreRoot(l, q)
         /\ pending' = Front(pending) \o internal \o Untracked(q, a)
         /\ weak' = weak \o WeakMembers(q, a)
  /\ UNCHANGED <<start, nextFree, phase>>

(* Mutant of FixupForward: a pointer to a moved object stays pending.      *)
FixupForwardKept ==
  /\ phase = "move"
  /\ pending # <<>>
  /\ obj[Value(Last(pending))].type = Moved
  /\ UNCHANGED vars

(* gc_move of an object that has moved.                                    *)
FixupForward ==
  /\ phase = "move"
  /\ pending # <<>>
  /\ LET l == Last(pending)
         p == Value(l)
     IN  /\ p \in DOMAIN obj /\ obj[p].type = Moved
         /\ obj' = Stored(obj, l, obj[p].new)
         /\ StoreRoot(l, obj[p].new)
  /\ pending' = Front(pending)
  /\ UNCHANGED <<start, nextFree, toNext, pointers, weak, phase>>

(* Mutants of FixedWeak: no weak pointer is cleared, all of them are.      *)
FixedWeakKept(p) == IF obj[p].type = Moved THEN obj[p].new ELSE p
FixedWeakDropped(p) == 0

(* Weak pointers to what moved follow it, the others are cleared.          *)
FixedWeak(p) == IF obj[p].type = Moved THEN obj[p].new ELSE 0
FixedAt(o, l) == Stored(o, l, FixedWeak(ValueAt(o, root, l)))

FixWeak ==
  /\ phase = "move"
  /\ pending = <<>>
  /\ obj' = FoldLeft(FixedAt, obj, weak)
  /\ weak' = <<>>
  /\ phase' = "sweep"
  /\ UNCHANGED <<start, nextFree, toNext, root, pointers, pending>>

(* The contexts are swapped; what is left in the old half is destroyed.    *)
Sweep ==
  /\ phase = "sweep"
  /\ RunDestructors
  /\ start' = ToStart
  /\ nextFree' = toNext
  /\ toNext' = 0
  /\ phase' = "mutate"
  /\ UNCHANGED <<root, pending, weak>>

-----------------------------------------------------------------------------

HandleValues == {root[h] : h \in Handles} \cup {0}

ClientStep ==
  \/ \E h \in Handles, t \in Types, x \in Ids :
       \E members \in [1 .. Len(Layout[t]) -> HandleValues] : Make(h, t, x, members)
  \/ \E t \in Types : MakeThrows(t)
  \/ \E h \in Handles : \E v \in {root[k] : k \in Handles \ {h}} \cup {0} : SetHandle(h, v)
  \/ \E k \in Handles, v \in HandleValues :
       root[k] # 0 /\ \E f \in DOMAIN obj[root[k]].member : SetMember(root[k], f, v)
  \/ \E h, k \in Handles :
       root[k] # 0 /\ \E f \in DOMAIN obj[root[k]].member : Track(h, root[k], f)

CollectorStep == FixupMove \/ FixupForward \/ FixWeak \/ Sweep

Next == ClientStep \/ GcBegin \/ GcNoRoots \/ CollectorStep

(* garbage_collect is a plain function call: once begun it runs on.        *)
Fairness == WF_vars(CollectorStep)

Spec == Init /\ [][Next]_vars /\ Fairness

-----------------------------------------------------------------------------
(* Types.                                                                  *)

AllocationRecord ==
  [size : 1 .. Half, type : Types \cup {Moved, Uninit}, member : Seq(Ptr),
   new : Ptr, id : Ids \cup {0}]

TypeOK ==
  /\ start \in {0, Half}
  /\ nextFree \in start .. start + Half
  /\ toNext \in 0 .. 2 * Half
  /\ DOMAIN obj \subseteq Pos
  /\ \A p \in DOMAIN obj : obj[p] \in AllocationRecord
  /\ root \in [Handles -> Ptr]
  /\ pointers \in Seq(Location)
  /\ pending \in Seq(Location)
  /\ weak \in Seq(Location)
  /\ phase \in {"mutate", "move", "sweep"}

-----------------------------------------------------------------------------
(* Safety.                                                                 *)

(* The allocations of a half, header and body, tile it without gap or      *)
(* overlap from its start to next_free_, in both halves and at every step  *)
(* of a collection: run_destructors finds each object by adding up sizes,  *)
(* also across slots whose constructor threw and objects that have moved.  *)
(* Every position and location lies within the storage (TypeOK).           *)
Tiles(from, to) ==
  LET here == {p \in DOMAIN obj : InHalf(p, from)}
  IN  {from} \cup {p - 1 + obj[p].size : p \in here} = {to} \cup {p - 1 : p \in here}

HeapTiled ==
  /\ TypeOK
  /\ Tiles(start, nextFree)
  /\ phase # "mutate" => Tiles(ToStart, toNext)

Locations == ({0} \X Handles) \cup
             UNION {{p} \X DOMAIN obj[p].member : p \in DOMAIN obj}

IsTracked(l) == l[1] = 0 \/ Layout[obj[l[1]].type][l[2]] = "tracked"

(* pointers_ holds each attached tracked pointer exactly once and nothing  *)
(* else: no address of an object that was moved, destroyed or collected    *)
(* is left behind by the erase-by-swap, and none is lost.                  *)
PointersExact ==
  /\ IsInjective(pointers)
  /\ Range(pointers) = {l \in Locations : IsTracked(l) /\ Value(l) # 0}

(* While objects move: every location outside the old half that still      *)
(* holds an old position is registered exactly once, as a fixup if it is   *)
(* strong and as a weak fixup if it is weak; nothing else is registered.   *)
(* A location registered twice would be moved from the new half again; one *)
(* that is missed would dangle after the swap.                             *)
StaleLocations ==
  {l \in Locations : ~InHalf(l[1], start) /\ Value(l) # 0 /\ InHalf(Value(l), start)}

IsWeak(l) == l[1] # 0 /\ Layout[obj[l[1]].type][l[2]] = "weak"

FixupsExact ==
  phase = "move" =>
    /\ IsInjective(pending \o weak)
    /\ Range(pending) = {l \in StaleLocations : ~IsWeak(l)}
    /\ Range(weak) = {l \in StaleLocations : IsWeak(l)}

(* gc_move never runs out of room: its allocate can not throw in the       *)
(* middle of a collection, with pointers half fixed up.                    *)
MoveFits ==
  phase = "move" /\ pending # <<>> =>
    LET p == Value(Last(pending))
    IN  IsObject(p) => Fits(toNext, ToStart + Half, obj[p].size)

(* Between collections every handle and every member, weak ones included,  *)
(* is empty or refers to a constructed object of the active half: the      *)
(* assertions of attach, get_at and type_check hold.                       *)
NoDanglingPointer ==
  phase = "mutate" =>
    \A l \in Locations :
      Value(l) # 0 => IsObject(Value(l)) /\ Value(l) \in start + 1 .. nextFree - 1

-----------------------------------------------------------------------------
(* Liveness.                                                               *)

(* A collection that has begun ends.                                       *)
CollectionEnds == phase = "move" ~> phase = "mutate"

-----------------------------------------------------------------------------
(* GCHeap implements CopyCollector: sizes, order and slots forgotten.      *)

OfKind(kinds) == [t \in Types |-> {f \in DOMAIN Layout[t] : Layout[t][f] \in kinds}]

Exists(p) == p \in DOMAIN obj /\ obj[p].type # Uninit

Places == Pos \ {Half}
TypeAt == [p \in Places |-> IF Exists(p) THEN obj[p].type ELSE Free]
IdAt == [p \in Places |-> IF Exists(p) THEN obj[p].id ELSE 0]
MemberAt(p, f) == IF Exists(p) /\ f \in DOMAIN obj[p].member THEN obj[p].member[f] ELSE 0
FieldsAt == [p \in Places |-> [f \in Members |-> MemberAt(p, f)]]
NewPosAt == [p \in Places |-> IF Exists(p) THEN obj[p].new ELSE 0]
ActiveHalf == IF start = 0 THEN 0 ELSE 1
PendingHandles == {h \in Handles : <<0, h>> \in Range(pending)}
PendingFields == {l \in Range(pending) : l[1] # 0}
WeakFixups == Range(weak)

Collector == INSTANCE CopyCollector WITH
  Fields <- Members,
  StrongOf <- OfKind({"tracked", "strong"}),
  WeakOf <- OfKind({"weak"}),
  Half0 <- 1 .. Half - 1,
  Half1 <- Half + 1 .. 2 * Half - 1,
  Null <- 0,
  type <- TypeAt,
  id <- IdAt,
  fld <- FieldsAt,
  newPos <- NewPosAt,
  active <- ActiveHalf,
  pendingHandles <- PendingHandles,
  pendingFields <- PendingFields,
  weakFixups <- WeakFixups

(* What the proofs need besides.  An allocation has the members of its     *)
(* type; the slots of a constructor that threw, or of an object that has   *)
(* moved, have none.                                                       *)
MembersMatch ==
  \A p \in DOMAIN obj :
    LET a == obj[p]
    IN  /\ a.type \in Types => /\ a.size = Slots(a.type) /\ a.id \in Ids
                               /\ Len(a.member) = Len(Layout[a.type])
        /\ a.type \notin Types => a.member = <<>>
        /\ a.type # Moved => a.new = 0

(* The allocations of a half end below next_free_ and do not overlap.      *)
Disjoint(from, to) ==
  LET here == {p \in DOMAIN obj : InHalf(p, from)}
  IN  /\ \A p \in here : p - 1 + obj[p].size <= to
      /\ \A p, q \in here : p < q => p + obj[p].size <= q

(* The other half is in use only during a collection, and holds only       *)
(* objects.                                                                *)
HalvesInv ==
  /\ Disjoint(start, nextFree)
  /\ phase = "mutate" => toNext = 0 /\ pending = <<>> /\ weak = <<>>
  /\ phase # "mutate" => toNext \in ToStart .. ToStart + Half /\ Disjoint(ToStart, toNext)
  /\ \A p \in DOMAIN obj :
       \/ InHalf(p, start)
       \/ InHalf(p, ToStart) /\ phase # "mutate" /\ IsObject(p)

(* What has been moved takes as much room as it did.                       *)
SlotsOf(p) == p - 1 .. p - 2 + obj[p].size
MovedObjects == {p \in DOMAIN obj : InHalf(p, start) /\ obj[p].type = Moved}
RoomInv ==
  phase = "move" => Cardinality(UNION {SlotsOf(p) : p \in MovedObjects}) = toNext - ToStart

(* The inductive invariant: with the invariant of the collector.           *)
HeapInv ==
  /\ HeapTiled
  /\ MembersMatch
  /\ HalvesInv
  /\ RoomInv
  /\ PointersExact
  /\ IsInjective(pending) /\ IsInjective(weak)
  /\ Collector!IInv

(* Every step of the slot-level collector is one step of CopyCollector:    *)
(* registering tracked members from the back of pointers_ and untracked    *)
(* ones through fixup() together cover the strong members.                 *)
ImplementsCollector == Collector!Spec
=============================================================================
