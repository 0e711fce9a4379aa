SPECIFICATION FairSpec
CONSTANTS
  None = None
  MaxPending = 1
  MaxRounds = 2
  Retries = 2
  QueryMayFail = TRUE
CHECK_DEADLOCK FALSE
INVARIANTS NeverStalls OneWriter
PROPERTY QueuesGoOn
