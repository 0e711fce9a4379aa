---------------------------- MODULE MCForkChoice ----------------------------
(* Two nodes, of which both may forge for one of the two delegates.  The    *)
(* lists and rewards change within the few heights that are reached.        *)
EXTENDS ForkChoice

CONSTANTS n1, n2, d1, d2

MCLists == <<<<d1, d2>>, <<d2, d1>>>>
MCKeypairs == [n \in Node |-> IF n = n1 THEN {d1, d2} ELSE {d2}]
MCStrays == {<<n2, 2>>}
MCRewards == <<[height |-> 1, reward |-> 0], [height |-> 2, reward |-> 3], [height |-> 4, reward |-> 2]>>
=============================================================================
