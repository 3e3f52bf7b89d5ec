CONSTANTS
    Problems <- MCProblems
    MaxFails = 1
SPECIFICATION FairSpec
INVARIANTS SlotsAreExact ResultsUnrolled StatesCarried
PROPERTIES Settles
CHECK_DEADLOCK FALSE
