SPECIFICATION Spec
CONSTANTS
    MaxRuns = 2
    MaxCheckpoints = 2
    MaxCalls = 2
    MemoryFaults <- OnlyRead
    MaxFaults = 1
CHECK_DEADLOCK FALSE
INVARIANTS
    ResultKept
