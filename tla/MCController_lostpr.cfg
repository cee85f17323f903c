SPECIFICATION Spec
CONSTANTS
    SpecMaxRetries = 1
    Faults = {"evict"}
    MaxFaults = 1
    PodCacheLag = FALSE
INVARIANTS
    RetryHoldsOpenPR
CHECK_DEADLOCK FALSE
