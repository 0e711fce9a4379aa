SPECIFICATION RecoveryFairSpec
CONSTANTS
  b1 = b1
  b2 = b2
  b3 = b3
  alice = alice
  bob = bob
  Block <- Blocks
  Account <- Accounts
  Touched <- Merges
  Generator <- Forgers
  Genesis = Genesis
  Nobody = Nobody
  D = 2
  MaxHeight = 3
  MaxStops = 2
CHECK_DEADLOCK FALSE
INVARIANT TablesOK
PROPERTY ServesAgain
