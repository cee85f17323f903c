SPECIFICATION FairSpec
CONSTANTS
    SpecMaxRetries = 1
    Faults <- WorldFaults
    MaxFaults = 1
    PodCacheLag = FALSE
PROPERTIES
    ComesToRest
    DecisionEndsTask
    FailedIsRetried
    PodsReleased
CHECK_DEADLOCK FALSE
