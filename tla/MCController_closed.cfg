SPECIFICATION Spec
CONSTANTS
    SpecMaxRetries = 1
    Faults <- NoFaults
    MaxFaults = 0
    PodCacheLag = FALSE
INVARIANTS
    ClosedMeansClosed
CHECK_DEADLOCK FALSE
