SPECIFICATION Spec
CONSTANTS
    w1 = w1
    w2 = w2
    Workers <- MCWorkers
    NoWorker = NoWorker
    NoAggregate = NoAggregate
    NumRuns = 1
    NumCases = 1
    MaxAttempts = 2
    MaxCrashes = 0
    Cancellable = {}
    TimelyLeases = FALSE
INVARIANT OneExecutor
CHECK_DEADLOCK FALSE
