SPECIFICATION Spec
CONSTANTS
    SpecMaxRetries = 1
    Faults <- WorldFaults
    MaxFaults = 2
    PodCacheLag = FALSE
INVARIANTS
    TypeOK
    NoStrayWorker
    WaitingWorkerSucceeded
    MergedMeansMerged
    WorkerHoldsPR
    NotParked
    Coherent
    GraduationComesLast
PROPERTIES
    ImplementsLifecycle
    KeepsPromise
CHECK_DEADLOCK FALSE
