SPECIFICATION FairSpec
CONSTANTS
    t1 = t1
    t2 = t2
    Tasks <- TwoTasks
    MaxChanges = 3
    MaxFaults = 1
INVARIANTS
    ListsKeepUp
PROPERTIES
    NoRegression
    Converges
