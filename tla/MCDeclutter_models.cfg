SPECIFICATION FairSpec
CONSTANT Problems <- PassProblems
INVARIANT MeaningKept
INVARIANT WiresChangeAsRecorded
INVARIANT PatchesFit
PROPERTY Settles
