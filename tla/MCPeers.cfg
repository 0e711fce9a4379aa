SPECIFICATION PeersSpec
CONSTANTS
  seed = seed
  peer = peer
  self = self
  Remote = {seed, peer}
  Self = self
  Seeds = {seed}
  None = None
  MaxPeers = 2
  BroadcastLimit = 1
  Hashes = {0, 1}
  MaxChanges = 1
  MaxRestarts = 1
CHECK_DEADLOCK FALSE
INVARIANTS EntriesOK NeverToItself
PROPERTY PeersSettle
