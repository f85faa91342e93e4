\* Batch fan-out, retries, and a timeout on every node.
SPECIFICATION FairSpec
CONSTANTS
  a = a
  b = b
  c = c
  d = d
  Node <- ForkNode
  Edge <- ForkEdge
  Items <- ForkItems
  Retries <- ForkRetries
  Terminates = {a}
  Gated = {b}
  Batch = {a, c}
  Asking = {b}
  Timed = {a, b, c}
  Overridden = {}
INVARIANT StragglersAreBatchItems
PROPERTY RunEnds
CHECK_DEADLOCK FALSE
