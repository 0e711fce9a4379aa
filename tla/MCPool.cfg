SPECIFICATION Spec
CONSTANTS
  t1 = t1
  m1 = m1
  Hole = Hole
  None = None
  Tx <- MixedTxs
  MultiTx <- SignedTxs
  MaxTxsPerBlock = 1
  MaxTxsPerQueue = 2
  ReleaseLimit = 1
  MultisigLimit = 1
  ReindexAfter = 1
INVARIANTS QueuesOK OnlyVerified
PROPERTY OrderKept
