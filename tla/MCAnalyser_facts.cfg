SPECIFICATION FairSpec
CONSTANTS
    Problems <- MCProblems
    RulesOf  <- OpRules
    WireOf   <- OpWire
INVARIANT FactsAreTrue
INVARIANT NothingMoreToLearn
INVARIANT SourcesAreEnough
PROPERTY NeverForgets
PROPERTY Terminates
