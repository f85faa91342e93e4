\* One client that resumes, skips and deletes, one request after the other, through an API process that may die.
SPECIFICATION FairSpec
CONSTANTS
  a = a
  b = b
  c = c
  d = d
  j1 = j1
  j2 = j2
  j3 = j3
  w1 = w1
  w2 = w2
  u1 = u1
  u2 = u2
  Node <- JoinNode
  Edge <- JoinEdge
  Terminates = {a}
  Gated = {b}
  Asking = {b}
  Fallible = {a, b}
  Job = {j1, j2, j3}
  FirstJob = j1
  Worker = {w1}
  Client = {u1}
  Kinds = {"resume", "skip", "delete"}
  InOrder = TRUE
  MayThrow = TRUE
  MayTimeOut = FALSE
  MaxCrashes = 0
  ApiMayCrash = TRUE
INVARIANTS OneRunAtATime StatusMatchesRows
 
CHECK_DEADLOCK FALSE
