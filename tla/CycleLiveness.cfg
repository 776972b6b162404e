SPECIFICATION FairSpec
CONSTANTS
    w1 = w1
    w2 = w2
    Workers <- MCWorkers
    NoWorker = NoWorker
    NoResult = NoResult
    MaxClusters = 1
    MaxAttempts = 2
    MaxCrashes = 1
    ExecuteValidation = TRUE
    PromoteOnApproval = TRUE
    TimelyLeases = FALSE
PROPERTY CycleEnds
CHECK_DEADLOCK FALSE
