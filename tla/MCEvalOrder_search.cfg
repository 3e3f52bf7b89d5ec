CONSTANTS
  a = n1
  Node = {n1, n2, n3}
  MaxInputs = 2
  MaxTargets = 2
  MaxMore = 1
  Problems <- MCProblems
SPECIFICATION FairSpec
INVARIANTS TypeOK ExactOrder LoopVerdict
PROPERTY Termination
CHECK_DEADLOCK FALSE
