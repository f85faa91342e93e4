\* Two workers, a crash and a wall-clock budget, or two questions and two responders.
SPECIFICATION FairSpec
CONSTANTS
  a = a
  b = b
  c = c
  d = d
  j1 = j1
  j2 = j2
  j3 = j3
  w1 = w1
  w2 = w2
  u1 = u1
  u2 = u2
  Node <- DiamondNode
  Edge <- DiamondEdge
  Terminates = {a}
  Gated = {a}
  Asking = {a, b}
  Fallible = {d, a}
  Job = {j1, j2, j3}
  FirstJob = j1
  Worker = {w1, w2}
  Client = {u1, u2}
  Kinds = {"respond"}
  InOrder = TRUE
  MayThrow = TRUE
  MayTimeOut = TRUE
  MaxCrashes = 1
  ApiMayCrash = FALSE
CONSTRAINT Scenes
PROPERTIES SuccessIsDurable NothingIsRedone RunsAreDagRuns ExecutionSettles AnswersAreActedOn
CHECK_DEADLOCK FALSE
