---------------------------- MODULE MCRewardPool ----------------------------
(* Two voters and a fee address, two blocks.  A single share is paid at once. *)
EXTENDS RewardPool

CONSTANTS v, w, fee

MCShare == [r \in Row |-> IF r = w THEN 2 ELSE 1]
=============================================================================
