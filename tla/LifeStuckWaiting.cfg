\* A response while the run that asked is still under way.
SPECIFICATION Spec
CONSTANTS
  a = a
  b = b
  c = c
  d = d
  j1 = j1
  j2 = j2
  j3 = j3
  w1 = w1
  w2 = w2
  u1 = u1
  u2 = u2
  Node <- JoinNode
  Edge <- JoinEdge
  Terminates = {}
  Gated = {}
  Asking = {a}
  Fallible = {}
  Job = {j1, j2}
  FirstJob = j1
  Worker = {w1}
  Client = {u1}
  Kinds = {"respond"}
  InOrder = TRUE
  MayThrow = FALSE
  MayTimeOut = FALSE
  MaxCrashes = 0
  ApiMayCrash = FALSE
INVARIANT WaitingForSomebody
CHECK_DEADLOCK FALSE
