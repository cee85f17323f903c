SPECIFICATION Spec
CONSTANTS
    SpecMaxRetries = 1
    Faults <- NoFaults
    MaxFaults = 0
    PodCacheLag = TRUE
INVARIANTS
    NoStrayWorker
CHECK_DEADLOCK FALSE
