SPECIFICATION Spec
CONSTANTS
  None = None
  h1 = h1
  h2 = h2
  env = env
  r1 = r1
  cand1 = cand1
  Handlers = {h1, h2}
  Cycles = {w1}
  Projects = {"p1", "default"}
  Runs = {r1}
  ProjectOf <- MCProjectOf
  CandidateOf <- MCCandidateOf
  Cases = {c1, c2}
  Outcomes <- MCOutcomes
  Actionable <- MCActionable
  Contents = {x1}
  StaticKey <- MCStaticKey
  MaxCalls = 3
SYMMETRY Symmetry
INVARIANTS PromotionBacked AuditTells CatalogUnique ClustersSound PointerLatest
CHECK_DEADLOCK FALSE
