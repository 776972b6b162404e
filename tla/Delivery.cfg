SPECIFICATION FairSpec
CONSTANTS
  None = None
  t1 = t1
  t2 = t2
  x1 = x1
  Sessions = {s1, s2}
  Traced = {t1}
  Steps = {x1}
  Emitted <- MCEmitted
  Malformed <- MCMalformed
  Flushers = {f1, f2}
  Calls = {c1, c2}
  MaxFaults = 1
INVARIANTS NothingElseLost TraceWhole
PROPERTIES TraceArrives EventArrives CallAnswered
CHECK_DEADLOCK FALSE
