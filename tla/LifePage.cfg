\* A page that awaits two answers, in any order, or hears events, of a node that fails or asks.
SPECIFICATION FairPageSpec
CONSTANTS
  a = a
  b = b
  j1 = j1
  j2 = j2
  w1 = w1
  u1 = u1
  Node <- ChainNode
  Edge <- ChainEdge
  Terminates = {}
  Gated = {}
  Asking = {b}
  Fallible = {b}
  Job = {j1, j2}
  FirstJob = j1
  Worker = {w1}
  Client = {u1}
  Kinds = {"resume"}
  InOrder = TRUE
  MayThrow = FALSE
  MayTimeOut = FALSE
  MaxCrashes = 0
  ApiMayCrash = FALSE
  MaxGets = 2
CONSTRAINT Scenes
CHECK_DEADLOCK FALSE
INVARIANT ShownIsRow
PROPERTY PageCatchesUp
