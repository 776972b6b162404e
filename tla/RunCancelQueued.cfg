SPECIFICATION FairSpec
CONSTANTS
    w1 = w1
    w2 = w2
    Workers <- OneWorker
    NoWorker = NoWorker
    NoAggregate = NoAggregate
    NumRuns = 1
    NumCases = 1
    MaxAttempts = 2
    MaxCrashes = 0
    Cancellable = {1}
    TimelyLeases = TRUE
PROPERTY CancelEndsRun
CHECK_DEADLOCK FALSE
