-------------------------- MODULE MCTaskSequences --------------------------
(* Instance of TaskSequences for TLC. *)
EXTENDS TaskSequences
=============================================================================
