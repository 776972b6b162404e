SPECIFICATION Spec
CONSTANTS
  NoOutput = NoOutput
  NoLimit = NoLimit
  unsafe = unsafe
  execution_error = execution_error
  ErrorLabels <- MCErrorLabels
  NumCases = 2
  Repeats = 2
  Outputs = {a, b}
  Labels <- MCLabels
  Outcomes <- MCAllOutcomes
  Latencies <- MCLatencies
  Policies <- MCPolicies
  MaxCrashes = 0
INVARIANTS BlockingLabelBlocks
CHECK_DEADLOCK FALSE
