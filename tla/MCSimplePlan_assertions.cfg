CONSTANTS
  S = S
  NoSymbol = NoSymbol
  Symbol = {S}
  FreshState = 0
  DebugAssertions = TRUE
  MaxFeed = 2
  MaxCalls = 1
  Node <- MCNode
  Tensor <- MCTensor
  Size <- MCSize
  Op <- MCOp
  Advance <- MCAdvance
  Plans <- MCPlans
SPECIFICATION Spec
INVARIANT AssertionsHold
CHECK_DEADLOCK FALSE
