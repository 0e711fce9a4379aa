SPECIFICATION Spec
CONSTANTS
  d1 = d1
  d2 = d2
  d3 = d3
  voter = voter
  g = g
  Account <- Accounts
  Delegate <- Delegates
  Genesis = g
  Rank <- Ranks
  D = 2
  Balance0 <- Balances
  Voted0 <- Votes
  RewardAt <- OneReward
  Transactions <- Workload
  MaxHeight = 5
  MaxRollbacks = 2
CHECK_DEADLOCK FALSE
INVARIANTS RowsOK VotesMatch Conserved RollbackRestores
