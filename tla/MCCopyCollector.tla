-------------------------- MODULE MCCopyCollector --------------------------
(***************************************************************************)
(* CopyCollector on two handles, halves of three positions and two types:  *)
(* a table with a strong and a weak member and a cell with a strong one.   *)
(***************************************************************************)
EXTENDS CopyCollector, TLC

CONSTANTS h1, h2, i1, i2, i3, a1, a2, a3, b1, b2, b3

MCHandles == {h1, h2}
MCIds == {i1, i2, i3}
MCTypes == {"cell", "table"}
MCFields == {1, 2}
MCStrongOf == [t \in MCTypes |-> {1}]
MCWeakOf == [t \in MCTypes |-> IF t = "table" THEN {2} ELSE {}]
MCHalf0 == {a1, a2, a3}
MCHalf1 == {b1, b2, b3}

MCSymmetry == Permutations(MCHandles) \cup Permutations(MCIds)
              \cup Permutations(MCHalf0) \cup Permutations(MCHalf1)
=============================================================================
