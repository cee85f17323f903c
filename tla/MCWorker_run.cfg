SPECIFICATION FairSpec
CONSTANTS
    MaxWorkers = 3
    SkillSets <- AllSkillSets
    MaxSteps = 1
    WorkerFaults = {"git", "fetch", "github", "url", "kill", "stray", "branch"}
    MaxFaults = 1
INVARIANTS
    TypeOK
    OpenPRHoldsSuccess
    ReadyHoldsCode
    RetryKnowsOpenPR
PROPERTIES
    EveryLaunchIsAnswered
    ImplementsPromise
CHECK_DEADLOCK FALSE
