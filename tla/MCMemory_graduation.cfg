SPECIFICATION FairSpec
CONSTANTS
    MaxRuns = 2
    MaxCheckpoints = 2
    MaxCalls = 2
    MemoryFaults <- EveryFault
    MaxFaults = 2
CHECK_DEADLOCK FALSE
INVARIANTS
    NothingLost
    GraduatedOnce
    OnlySuccessGraduates
    DeletedMeansDeleted
PROPERTIES
    MergedIsTold
    EventuallyForgotten
