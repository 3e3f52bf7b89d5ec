CONSTANTS
    Problems <- MCProblems
    Rows <- MCRows
    UsizeMax <- MCUsizeMax
SPECIFICATION FairSpec
INVARIANTS WiresAreDelayed DelayBuffersHold NeverFails
PROPERTIES ImplementsBatch DeliversAll
CHECK_DEADLOCK FALSE
