------------------------- MODULE ObjectGraphProofs -------------------------
(***************************************************************************)
(* What holds of the object graph for any handles, types, members and      *)
(* identities.                                                             *)
(***************************************************************************)
EXTENDS ObjectGraph, TLAPS

(* The graph is closed: handles and members refer to objects in it.        *)
GraphTypeOK ==
  /\ alive \subseteq Ids
  /\ typeOf \in [alive -> Types]
  /\ field \in [alive -> [Fields -> alive \cup {Null}]]
  /\ handle \in [Handles -> alive \cup {Null}]

LEMMA InitGraphTypeOK == Init => GraphTypeOK
  BY DEF Init, GraphTypeOK

(* What the handles lead to is reachable, and so is what that leads to.    *)
LEMMA HandlesReach ==
  ASSUME GraphTypeOK
  PROVE  /\ Reachable \subseteq alive
         /\ \A h \in Handles : handle[h] # Null => handle[h] \in Reachable
  BY DEF Reachable, Closed, GraphTypeOK

LEMMA CollectGraphTypeOK ==
  ASSUME GraphTypeOK, Collect
  PROVE  GraphTypeOK'
<1> USE HandlesReach
<1>1. alive' \subseteq Ids /\ typeOf' \in [alive' -> Types]
  BY DEF Collect, GraphTypeOK
<1>2. field' \in [alive' -> [Fields -> alive' \cup {Null}]]
  <2>1. \A v : Cleared(v) \in Reachable \cup {Null}
    BY DEF Cleared
  <2>2. QED BY <2>1 DEF Collect
<1>3. handle' \in [Handles -> alive' \cup {Null}]
  BY DEF Collect, GraphTypeOK
<1>4. QED BY <1>1, <1>2, <1>3 DEF GraphTypeOK

LEMMA NextGraphTypeOK == GraphTypeOK /\ [Next]_vars => GraphTypeOK'
<1> SUFFICES ASSUME GraphTypeOK, [Next]_vars PROVE GraphTypeOK'
  OBVIOUS
<1>1. ASSUME NEW h \in Handles, NEW t \in Types, NEW x \in Ids,
             NEW init \in [Fields -> HandleValues], New(h, t, x, init)
      PROVE  GraphTypeOK'
  <2>1. HandleValues \subseteq alive \cup {Null}
    BY DEF HandleValues, GraphTypeOK
  <2>2. alive' = alive \cup {x} /\ handle' \in [Handles -> alive' \cup {Null}]
    BY <1>1 DEF New, GraphTypeOK
  <2>3. typeOf' \in [alive' -> Types]
    BY <1>1 DEF New, GraphTypeOK
  <2>4. field' \in [alive' -> [Fields -> alive' \cup {Null}]]
    BY <1>1, <2>1, <2>2 DEF New, GraphTypeOK
  <2>5. QED BY <2>2, <2>3, <2>4 DEF GraphTypeOK
<1>2. ASSUME NEW h \in Handles, NEW v \in HandleValues, SetHandle(h, v)
      PROVE  GraphTypeOK'
  BY <1>2 DEF SetHandle, GraphTypeOK, HandleValues
<1>3. ASSUME NEW h \in Handles, NEW f \in Fields, NEW v \in HandleValues,
             handle[h] # Null, SetField(handle[h], f, v)
      PROVE  GraphTypeOK'
  BY <1>3 DEF SetField, GraphTypeOK, HandleValues
<1>4. ASSUME NEW h \in Handles, NEW k \in Handles, NEW f \in Fields,
             handle[k] # Null, GetField(h, handle[k], f)
      PROVE  GraphTypeOK'
  BY <1>4 DEF GetField, SetHandle, GraphTypeOK
<1>5. CASE Collect
  BY <1>5, CollectGraphTypeOK
<1>6. CASE UNCHANGED vars
  BY <1>6 DEF vars, GraphTypeOK
<1>7. QED BY <1>1, <1>2, <1>3, <1>4, <1>5, <1>6 DEF Next

(* The references of a graph always stay within it.                        *)
THEOREM GraphTypes == Spec => []GraphTypeOK
<1>1. QED BY InitGraphTypeOK, NextGraphTypeOK, PTL DEF Spec

-----------------------------------------------------------------------------
(* Garbage.  A set that shows that a client can not get hold of x before a *)
(* step is turned into one that shows it after the step.                   *)

LEMMA FollowsNext ==
  ASSUME GraphTypeOK, [Next]_vars, Null \notin Ids, NEW S \in SUBSET alive, Follows(S)
  PROVE  \E T \in SUBSET alive' : Follows(T)' /\ T \cap alive \subseteq S
<1> DEFINE Goal == \E T \in SUBSET alive' : Follows(T)' /\ T \cap alive \subseteq S
<1>1. ASSUME NEW h \in Handles, NEW t \in Types, NEW x \in Ids,
             NEW init \in [Fields -> HandleValues], New(h, t, x, init)
      PROVE  Goal
  <2>1. \A v \in HandleValues : v # Null => v \in S
    BY DEF HandleValues, Follows
  <2>2. x \notin alive /\ alive' = alive \cup {x} /\ handle' = [handle EXCEPT ![h] = x]
    BY <1>1 DEF New
  <2>3. \A y \in alive', f \in Fields : field'[y][f] = IF y = x THEN init[f] ELSE field[y][f]
    BY <1>1 DEF New
  <2>4. \A y \in S \cup {x}, f \in Fields : field'[y][f] # Null => field'[y][f] \in S \cup {x}
    BY <2>1, <2>2, <2>3 DEF Follows
  <2>5. \A k \in Handles : handle'[k] # Null => handle'[k] \in S \cup {x}
    BY <2>2 DEF Follows, GraphTypeOK
  <2>6. S \cup {x} \in SUBSET alive' /\ Follows(S \cup {x})' /\ (S \cup {x}) \cap alive \subseteq S
    BY <2>2, <2>4, <2>5 DEF Follows
  <2>7. QED BY <2>6
<1>2. ASSUME NEW h \in Handles, NEW v \in HandleValues, SetHandle(h, v)
      PROVE  Goal
  <2>1. S \in SUBSET alive' /\ Follows(S)'
    BY <1>2 DEF SetHandle, HandleValues, Follows, GraphTypeOK
  <2>2. QED BY <2>1
<1>3. ASSUME NEW h \in Handles, NEW f \in Fields, NEW v \in HandleValues,
             handle[h] # Null, SetField(handle[h], f, v)
      PROVE  Goal
  <2>1. S \in SUBSET alive' /\ Follows(S)'
    BY <1>3 DEF SetField, HandleValues, Follows, GraphTypeOK
  <2>2. QED BY <2>1
<1>4. ASSUME NEW h \in Handles, NEW k \in Handles, NEW f \in Fields,
             handle[k] # Null, GetField(h, handle[k], f)
      PROVE  Goal
  <2>1. S \in SUBSET alive' /\ Follows(S)'
    BY <1>4 DEF GetField, SetHandle, Follows, GraphTypeOK
  <2>2. QED BY <2>1
<1>5. ASSUME Collect
      PROVE  Goal
  <2> PICK R \in SUBSET S : R = S \cap Reachable
    OBVIOUS
  <2>1. R \in SUBSET alive' /\ R \cap alive \subseteq S
    BY <1>5 DEF Collect
  <2>2. \A h \in Handles : handle'[h] # Null => handle'[h] \in R
    BY <1>5, HandlesReach DEF Collect, Follows
  <2>3. ASSUME NEW x \in R, NEW f \in Fields, field'[x][f] # Null
        PROVE  field'[x][f] \in R
    <3>1. field'[x][f] = Cleared(field[x][f])
      BY <1>5 DEF Collect
    <3>2. field[x][f] \in Reachable /\ field'[x][f] = field[x][f]
      BY <3>1, <2>3 DEF Cleared
    <3>3. QED BY <3>2, <2>3 DEF Follows
  <2>4. Follows(R)'
    BY <2>2, <2>3 DEF Follows
  <2>5. QED BY <2>1, <2>4
<1>6. ASSUME UNCHANGED vars
      PROVE  Goal
  <2>1. S \in SUBSET alive' /\ Follows(S)'
    BY <1>6 DEF vars, Follows
  <2>2. QED BY <2>1
<1> HIDE DEF Goal
<1>7. Goal
  BY <1>1, <1>2, <1>3, <1>4, <1>5, <1>6 DEF Next
<1>8. QED BY <1>7 DEF Goal

LEMMA HeldNext ==
  ASSUME GraphTypeOK, [Next]_vars, Null \notin Ids
  PROVE  Held' \subseteq Held \cup (alive' \ alive)
<1> SUFFICES ASSUME NEW x \in Held', x \in alive, NEW S \in SUBSET alive, Follows(S)
             PROVE  x \in S
  BY DEF Held
<1>1. PICK T \in SUBSET alive' : Follows(T)' /\ T \cap alive \subseteq S
  BY FollowsNext
<1>2. x \in T
  BY <1>1 DEF Held
<1>3. QED BY <1>1, <1>2

(* Garbage stays garbage: no operation of a client finds an object again   *)
(* that it had no way to get hold of, and a collection brings none back    *)
(* (gc_heap_ptr, the untracked pointers and track()).                      *)
THEOREM NoResurrection ==
  ASSUME Null \notin Ids
  PROVE  Spec => GarbageStaysGarbage
<1>1. GraphTypeOK /\ [Next]_vars => Held' \subseteq Held \cup (alive' \ alive)
  BY HeldNext
<1>2. QED BY <1>1, GraphTypes, PTL DEF Spec, GarbageStaysGarbage
=============================================================================
