SPECIFICATION Spec
CONSTANTS
    w1 = w1
    w2 = w2
    Workers <- MCWorkers
    NoWorker = NoWorker
    NoResult = NoResult
    MaxClusters = 2
    MaxAttempts = 2
    MaxCrashes = 2
    ExecuteValidation = TRUE
    PromoteOnApproval = TRUE
    TimelyLeases = TRUE
SYMMETRY MCSymmetry
INVARIANTS OneExecutor PromotionJustified ResultAccounts NeverStranded
PROPERTIES EndedCycleIsQuiet
CHECK_DEADLOCK FALSE
