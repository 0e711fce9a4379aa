------------------------ MODULE MCUnconfirmedLedger ------------------------
(* Two accounts and five transactions for TLC.  Alice can pay each of hers *)
(* and not all; what is left of her money after the large one pays one of  *)
(* the small ones and not both.  One of the small ones pays an application *)
(* of bob's.  Bob can only spend what alice sends.  The medium one pays    *)
(* alice herself: a block of it and the large one spends too much, and yet *)
(* goes through.                                                           *)
EXTENDS UnconfirmedLedger

CONSTANTS alice, bob, medium, large, small1, small2, onward

Accounts == {alice, bob}
Txs == {medium, large, small1, small2, onward}
Senders == [t \in Txs |-> IF t = onward THEN bob ELSE alice]
Applications == {small2}
Recipients ==
  [t \in Txs \ Applications |-> IF t \in {onward, medium} THEN alice ELSE bob]
Amounts == [t \in Txs |-> CASE t = medium -> 3 [] t = large -> 6 [] OTHER -> 1]
Fees == [t \in Txs |-> 1]
Balances == [a \in Accounts |-> IF a = alice THEN 10 ELSE 0]
=============================================================================
