SPECIFICATION Spec
CONSTANTS
    SpecMaxRetries = 1
    Faults <- NoFaults
    MaxFaults = 0
    PodCacheLag = TRUE
INVARIANTS
    NotParked
    WaitingWorkerSucceeded
CHECK_DEADLOCK FALSE
