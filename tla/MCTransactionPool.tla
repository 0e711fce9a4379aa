------------------------- MODULE MCTransactionPool -------------------------
(* A plain transaction and one that waits for signatures, for TLC.         *)
EXTENDS TransactionPool

CONSTANTS t1, m1

MixedTxs == {t1, m1}
SignedTxs == {m1}
=============================================================================
