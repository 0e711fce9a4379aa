SPECIFICATION Spec
CONSTANTS
  n1 = n1
  n2 = n2
  d1 = d1
  d2 = d2
  Node = {n1, n2}
  Delegate = {d1, d2}
  Stranger = stranger
  Lists <- MCLists
  RoundLength = 2
  Keypairs <- MCKeypairs
  Rewards <- MCRewards
  TotalAmount = 10
  SlotWindow = 2
  ReceiptSlots = 2
  AnswerLimit = 2
  MaxUpsets = 1
  Strays <- MCStrays
  MaxSlot = 3
CHECK_DEADLOCK FALSE
INVARIANTS ChainsOK SiblingsSettle
PROPERTIES  CatchesUp
