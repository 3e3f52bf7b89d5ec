CONSTANTS
    Problems <- MCProblems
    Samples <- MCSamples
    MaxTurns = 2
    Huge = 40
    MR = 2
    NR = 2
    Garbage = 997
SPECIFICATION Spec
INVARIANT ConvolutionComputed
CHECK_DEADLOCK FALSE
