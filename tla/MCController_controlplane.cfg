SPECIFICATION Spec
CONSTANTS
    SpecMaxRetries = 0
    Faults <- ControlPlaneFaults
    MaxFaults = 2
    PodCacheLag = FALSE
INVARIANTS
    OverMeansGraduated
    WaitingMeansReady
    RetryHoldsOpenPR
PROPERTIES
    ImplementsLifecycle
CHECK_DEADLOCK FALSE
