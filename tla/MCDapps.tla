------------------------------- MODULE MCDapps -------------------------------
(***************************************************************************)
(* Two calls at a time on one application.                                 *)
(***************************************************************************)
EXTENDS Dapps, TLC

Symmetry == Permutations(Calls)
=============================================================================
