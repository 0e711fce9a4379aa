SPECIFICATION Spec
CONSTANTS
  t1 = t1
  t2 = t2
  s = s
  Transaction = {t1, t2}
  Signature = {s}
  ReleaseLimit = 1
  RelayLimit = 1
  MaxBlocks = 1
  MaxDeleted = 1
CHECK_DEADLOCK FALSE
INVARIANTS QueueKept HeadersCurrent
PROPERTY QueueReleased
