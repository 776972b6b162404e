SPECIFICATION IngestionFairSpec
CONSTANTS
  s1 = s1
  s2 = s2
  None = None
  NoId = NoId
  NoTime = NoTime
  OtelId <- MCOtelId
  Exports <- MCExports
  Sessions = {s1, s2}
  Traces <- MCTraces
  EventIds <- MCEventIds
  StepIds <- MCStepIds
  HeaderKeys = {header}
  header = header
  Requests <- MCRequests
  MaxFaults = 1
INVARIANTS StepsOnce AckedStepsKept SummaryOrderFree RecordCoherent ExportIsWhole RequestsUnstuck
PROPERTIES RetryAbsorbed ImplementsService RequestsAnswered
CHECK_DEADLOCK FALSE
