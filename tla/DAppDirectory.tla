--------------------------- MODULE DAppDirectory ----------------------------
(***************************************************************************)
(* What modules/dapps.js promises of the directory of an application: one  *)
(* call at a time works on it, from its first request to the file system   *)
(* to its last, and it alone changes it.  A directory is made where there  *)
(* is none, filled by the call that has made it, and removed as a whole or *)
(* in part; what is left when the node stops half-way, stays.              *)
(***************************************************************************)
CONSTANTS Calls

VARIABLES
  directory,   \* "none", "part" of an application, or the "whole" of it
  writers,     \* the call that works on it
  maker        \* the call that has made it and fills it

vars == <<directory, writers, maker>>

Init == directory = "none" /\ writers = {} /\ maker = {}

Enter(c) == writers = {} /\ writers' = {c} /\ UNCHANGED <<directory, maker>>

Leave(c) == writers = {c} /\ writers' = {} /\ maker' = {} /\ UNCHANGED directory

Make(c) ==
  /\ writers = {c} /\ directory = "none"
  /\ directory' = "part" /\ maker' = {c}
  /\ UNCHANGED writers

Fill(c) ==
  /\ maker = {c} /\ directory = "part"
  /\ directory' = "whole" /\ maker' = {}
  /\ UNCHANGED writers

Remove(c) ==
  /\ writers = {c} /\ maker = {}
  /\ directory' \in {"none", "part"}
  /\ writers' = {}
  /\ UNCHANGED maker

Restart ==
  /\ directory' \in IF writers = {} THEN {directory} ELSE {directory, "part"}
  /\ writers' = {} /\ maker' = {}

Next == Restart \/ \E c \in Calls : Enter(c) \/ Leave(c) \/ Make(c) \/ Fill(c) \/ Remove(c)

Spec == Init /\ [][Next]_vars
=============================================================================
