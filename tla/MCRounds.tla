------------------------------ MODULE MCRounds ------------------------------
(* Three delegates, of which two forge in a round, and an account that     *)
(* votes; the blocks of a round have one reward.                           *)
EXTENDS Rounds

CONSTANTS d1, d2, d3, voter, g

Accounts == {d1, d2, d3, voter, g}
Delegates == {d1, d2, d3}
Ranks == [d \in Delegates |-> CASE d = d3 -> 1 [] d = d1 -> 2 [] d = d2 -> 3]
Balances == [a \in Accounts |-> CASE a = voter -> 9 [] a = d3 -> 4 [] OTHER -> 0]
Votes == [a \in Accounts |-> CASE a = voter -> {d1} [] a = d3 -> {d2} [] OTHER -> {}]
OneReward == [h \in 1..MaxHeight |-> 1]
Transfer(from, to, amount) ==
  [kind |-> "transfer", from |-> from, to |-> to, amount |-> amount, fee |-> 1]
Vote(from, v) == [kind |-> "vote", from |-> from, vote |-> v, fee |-> 1]
Payments == {[kind |-> "none"], Transfer(voter, d3, 3), Transfer(d3, voter, 2)}
Workload == Payments \cup {Vote(voter, Plus(d3)), Vote(voter, Minus(d1))}
=============================================================================
