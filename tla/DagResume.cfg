\* A diamond resumed from any rows.
SPECIFICATION Spec
CONSTANTS
  a = a
  b = b
  c = c
  d = d
  Node <- DiamondNode
  Edge <- DiamondEdge
  Items <- DiamondItems
  Retries <- DiamondRetries
  Terminates = {a, b}
  Gated = {a, c}
  Batch = {}
  Asking = {c}
  Timed = {}
  Overridden = {d}
INVARIANTS ParentsEndedFirst SkipsCascade  PendingIsExplained StatusTellsTheOutcome
PROPERTIES ImplementsDagRun
CHECK_DEADLOCK FALSE
