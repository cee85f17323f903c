SPECIFICATION FairSpec
CONSTANTS
    ContextLimit = 4
    ToolLimit = 2
    Scores <- SomeScores
INVARIANTS
    BestHits
    CompleteAnswer
    LadderClimbed
PROPERTIES
    NeverAsksTwice
    AlwaysReturns
CHECK_DEADLOCK FALSE
