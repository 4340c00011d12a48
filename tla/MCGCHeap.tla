------------------------------ MODULE MCGCHeap ------------------------------
(***************************************************************************)
(* GCHeap for TLC.  Layouts are abstracted from the program's types: a     *)
(* "closure" stands for a gc_function whose captures are tracked, a        *)
(* "table" for a gc_table with a strong and a weak untracked pointer.      *)
(***************************************************************************)
EXTENDS GCHeap, TLC

CONSTANTS h1, h2, i1, i2, i3

MCHandles == {h1, h2}
MCIds == {i1, i2, i3}

MixTypes == {"closure", "table"}

(* Objects of different sizes, one with two tracked members; two closures  *)
(* or three tables fill a half of six slots.                               *)
MixLayout == [t \in MixTypes |->
                IF t = "closure" THEN <<"tracked", "tracked">> ELSE <<"strong", "weak">>]
MixBody == [t \in MixTypes |-> IF t = "closure" THEN 2 ELSE 1]

(* Two objects fill a half of four slots.                                  *)
SmallLayout == [t \in MixTypes |->
                  IF t = "closure" THEN <<"tracked">> ELSE <<"strong", "weak">>]
SmallBody == [t \in MixTypes |-> 1]

MCSymmetry == Permutations(MCHandles) \cup Permutations(MCIds)
=============================================================================
