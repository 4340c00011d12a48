-------------------------------- MODULE Once --------------------------------
(***************************************************************************)
(* F(x), with x a value.  F names an element of a set where a definition   *)
(* in a LET would be an expression, which a profile of the evaluation      *)
(* expands wherever it is used.                                            *)
(***************************************************************************)

Once(x, F(_)) == CHOOSE y \in {F(value) : value \in {x}} : TRUE
=============================================================================
