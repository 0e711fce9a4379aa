----------------------------- MODULE MCRecovery -----------------------------
(* Three blocks for TLC: a payment, a payment to oneself, an empty block.  *)
EXTENDS Recovery

CONSTANTS b1, b2, b3, alice, bob

Blocks == {b1, b2, b3}
Accounts == {alice, bob}
Merges == [b \in Blocks |-> CASE b = b1 -> <<alice, bob>> [] b = b2 -> <<bob, bob>> [] b = b3 -> <<>>]
Forgers == [b \in Blocks |-> IF b = b1 THEN bob ELSE alice]
=============================================================================
