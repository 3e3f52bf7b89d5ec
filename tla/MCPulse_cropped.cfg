CONSTANTS
    Problems <- CroppedProblems
    Rows <- MCRows
    UsizeMax <- MCUsizeMax
SPECIFICATION FairSpec
PROPERTIES ImplementsBatch
CHECK_DEADLOCK FALSE
