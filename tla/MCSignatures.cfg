SPECIFICATION Spec
CONSTANTS
  m1 = m1
  m2 = m2
  Members <- MCMembers
  PeerCopies <- MCPeerCopies
  BlockCopies <- MCBlockCopies
  MinSigs = 2
  MaxTasks = 3
  MaxEvents = 3
  None = None
CHECK_DEADLOCK FALSE
INVARIANTS CopiesOK SignaturesComplete OwnBlockVerifies GroupAgreed AppliedOnce
