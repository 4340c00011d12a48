--------------------------- MODULE MCStringCache ---------------------------
(***************************************************************************)
(* A cache with room for three names of four.                              *)
(***************************************************************************)
EXTENDS StringCache, TLC

CONSTANTS n1, n2, n3, n4, s1, s2, s3, s4, s5, s6

MCNames == {n1, n2, n3, n4}
MCStrings == {s1, s2, s3, s4, s5, s6}
MCSymmetry == Permutations(MCNames) \cup Permutations(MCStrings)
============================================================================
