SPECIFICATION Spec
CONSTANTS
    w1 = w1
    w2 = w2
    Workers <- MCWorkers
    NoWorker = NoWorker
    NoAggregate = NoAggregate
    NumRuns = 2
    NumCases = 2
    MaxAttempts = 2
    MaxCrashes = 1
    Cancellable = {1}
    TimelyLeases = TRUE
SYMMETRY MCSymmetry
INVARIANTS TypeOK OneExecutor CompletedRunAccounted FirstAttemptFigures CancelledRunClosed NeverStranded
PROPERTIES ImplementsLifecycle
CHECK_DEADLOCK FALSE
