--------------------------- MODULE MCBroadcaster ----------------------------
(* Two transactions and a signature, a block that may be deleted and forged *)
(* again.                                                                  *)
EXTENDS Broadcaster

CONSTANTS t1, t2, s
=============================================================================
