CONSTANTS
  S = S
  NoSymbol = NoSymbol
  Symbol = {S}
  FreshState = 0
  DebugAssertions = TRUE
  MaxFeed = 2
  MaxCalls = 3
  Node <- MCNode
  Tensor <- MCTensor
  Size <- MCSize
  Op <- MCOp
  Advance <- MCAdvance
  Plans <- MCPlans
SPECIFICATION Spec
INVARIANTS TypeOK NoValueMissing MeansTheGraph EachNodeOnce NothingHeldTooLong 
CHECK_DEADLOCK FALSE
