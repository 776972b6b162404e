SPECIFICATION IngestionSpec
CONSTANTS
  s1 = s1
  s2 = s2
  None = None
  NoId = NoId
  NoTime = NoTime
  OtelId <- MCOtelId
  Exports <- MCExports
  Sessions = {s1}
  Traces <- MCTraces
  EventIds <- MCEventIds
  StepIds <- MCStepIds
  HeaderKeys = {header}
  header = header
  Requests <- MCRequests
  MaxFaults = 0
INVARIANT AckedTraceKept
CHECK_DEADLOCK FALSE
