---------------------------- MODULE StringCache ----------------------------
(***************************************************************************)
(* The string_cache of global_object: names of C++ code (char pointers)    *)
(* become heap strings, and the last few of them are shared.  The cache    *)
(* holds them by weak pointers.  A collection only clears those; the next  *)
(* lookup that comes by erases their entries.                              *)
(*                                                                         *)
(* Strings are identities and have the name they were made from; two names *)
(* with the same hash are told apart by string_equal.  What else keeps a   *)
(* string alive is the set held; recent is history.                        *)
(***************************************************************************)
EXTENDS Naturals, Sequences, SequencesExt

CONSTANTS
    Names,      \* names that are looked up
    Strings,    \* identities of strings
    Capacity,   \* capacity of the vector (the constructor of global_object has 16)
    Null        \* the empty weak pointer

ASSUME CacheAssumption == Capacity \in Nat \ {0} /\ Null \notin Strings

VARIABLES
    entries,    \* entries_: [name, s], s empty after a collection
    held,       \* the strings that a handle or an object keeps alive
    recent      \* the names by last use, the latest first, with the string returned

vars == <<entries, held, recent>>

Init ==
    /\ entries = <<>>
    /\ held = {}
    /\ recent = <<>>

\* One turn of the loop in get: at is where the name is, 0 if nowhere yet; what
\* comes after it stays, and a lost weak pointer before it is erased
Visit(found, e) ==
    CASE found.at # 0 -> [found EXCEPT !.entries = Append(@, e)]
      [] found.at = 0 /\ e.s = Null -> found
      [] OTHER -> [found EXCEPT !.entries = Append(@, e),
                                !.at = IF e.name = found.name THEN Len(found.entries) + 1 ELSE 0]

\* The loop: the entries when it ends, and where the name is
Search(es, name) == FoldLeft(Visit, [name |-> name, entries |-> <<>>, at |-> 0], es)

Entry(name, s) == [name |-> name, s |-> s]

\* An identity is free when nothing holds the string and no entry leads to it
Unused == Strings \ (held \cup {e.s : e \in ToSet(entries)})

\* The history without a name, which it has at most once
Without(name) ==
    IF \E i \in DOMAIN recent : recent[i].name = name
    THEN RemoveAt(recent, CHOOSE i \in DOMAIN recent : recent[i].name = name)
    ELSE recent

\* What get returned is held by its caller
Returned(name, s) ==
    /\ held' = held \cup {s}
    /\ recent' = <<Entry(name, s)>> \o Without(name)

\* Mutant: the entry changes places with the first one
Exchanged(es, at) == [es EXCEPT ![1] = es[at], ![at] = es[1]]

\* The swaps that move an entry to the front, one place at a time
MovedFirst(es, at) == <<es[at]>> \o RemoveAt(es, at)

\* get, when the name is there: its entry moves to the front
Hit(name) ==
    LET found == Search(entries, name)
    IN  /\ found.at # 0
        /\ entries' = MovedFirst(found.entries, found.at)
        /\ Returned(name, found.entries[found.at].s)

\* The entries without the last one when there is no more room
Room(es) == IF Len(es) < Capacity THEN es ELSE Front(es)

\* get, when it is not: a new string, in front of the others
Miss(name) ==
    LET found == Search(entries, name)
    IN  /\ found.at = 0
        /\ \E s \in Unused :
            /\ entries' = <<Entry(name, s)>> \o Room(found.entries)
            /\ Returned(name, s)

\* Nothing keeps the string alive any more; until a collection get finds it
Release(s) ==
    /\ held' = held \ {s}
    /\ UNCHANGED <<entries, recent>>

\* fixup of an entry
Cleared(e) == IF e.s \in held THEN e ELSE [e EXCEPT !.s = Null]

\* garbage_collect; what it removed can not have been returned to anyone
Collect ==
    /\ entries' = [i \in DOMAIN entries |-> Cleared(entries[i])]
    /\ recent' = [i \in DOMAIN recent |-> Cleared(recent[i])]
    /\ UNCHANGED held

Next ==
    \/ \E name \in Names : Hit(name) \/ Miss(name)
    \/ \E s \in held : Release(s)
    \/ Collect

Spec == Init /\ [][Next]_vars

----------------------------------------------------------------------------

(* A name is found as long as its string lives and fewer than Capacity     *)
(* other names have been looked up since, whatever lookups and collections *)
(* came in between: its entry then has the string that was returned for it *)
(* last.  The entries whose strings live are those of names that were      *)
(* looked up, each once, in the order of the last use (string_cache::get). *)
RecentNamesShared ==
    LET live == {i \in DOMAIN entries : entries[i].s # Null}
    IN  /\ \A i \in DOMAIN recent :
            i <= Capacity /\ recent[i].s # Null => \E j \in live : entries[j] = recent[i]
        /\ \A j \in live : \E i \in DOMAIN recent : entries[j] = recent[i]
        /\ \A j, k \in live, i, l \in DOMAIN recent :
            entries[j] = recent[i] /\ entries[k] = recent[l] => (j < k <=> i < l)

----------------------------------------------------------------------------
(* What the proof needs besides: types, the room that was made once and    *)
(* for all (the data of the vector never moves), and a history that has    *)
(* each name once.                                                         *)

Entries == [name : Names, s : Strings \cup {Null}]

TypeOK ==
    /\ entries \in Seq(Entries)
    /\ Len(entries) <= Capacity
    /\ held \in SUBSET Strings
    /\ recent \in Seq(Entries)
    /\ \A i, j \in DOMAIN recent : recent[i].name = recent[j].name => i = j

CacheInv == TypeOK /\ RecentNamesShared
============================================================================
