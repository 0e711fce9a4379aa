SPECIFICATION Spec
CONSTANTS
  alice = alice
  bob = bob
  medium = medium
  large = large
  small1 = small1
  small2 = small2
  onward = onward
  Account <- Accounts
  Tx <- Txs
  From <- Senders
  To <- Recipients
  InTransfers <- Applications
  Author = bob
  Amount <- Amounts
  Fee <- Fees
  Balance0 <- Balances
  MaxTxsPerBlock = 2
  MaxHeight = 2
  Retries = 2
  Events = {"expire", "sync", "replay", "delete", "overspend", "alias"}
  MaxEvents = 2
CHECK_DEADLOCK FALSE
INVARIANTS LedgerOK UnconfirmedExact NeverFatal ConfirmedOnce
