SPECIFICATION Spec
CONSTANT Problems <- DiamondProblems
INVARIANT MeaningKept
