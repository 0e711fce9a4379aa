SPECIFICATION PayoutSpec
CONSTANTS
  v = v
  w = w
  fee = fee
  Voter = {v, w}
  Fee = {fee}
  Share <- MCShare
  WithdrawalMin = 0
  MaxBlocks = 2
  MaxUpdates = 1
  MaxWithdrawals = 1
  MaxFaults = 1
CHECK_DEADLOCK FALSE
INVARIANTS RowsExact CreditsOK
