SPECIFICATION FairSpec
CONSTANTS
    w1 = w1
    w2 = w2
    Workers <- MCWorkers
    NoWorker = NoWorker
    NoAggregate = NoAggregate
    NumRuns = 2
    NumCases = 1
    MaxAttempts = 2
    MaxCrashes = 1
    Cancellable = {1}
    TimelyLeases = TRUE
PROPERTIES RunsEnd CancelEndsRunning
CHECK_DEADLOCK FALSE
