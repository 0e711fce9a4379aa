SPECIFICATION StatesSpec
CONSTANTS
  a = a
  b = b
  k = k
  l = l
  Account = {a, b}
  Key = {k, l}
  None = None
  Tx <- MCOnce
  MaxTxsPerBlock = 2
  MaxHeight = 2
  Events = {"delete", "restart", "replay", "invalid"}
CHECK_DEADLOCK FALSE
INVARIANTS RegistrationsOK AccountsOK PendingOK
