--------------------------- MODULE MCExecutionPage ---------------------------
(***************************************************************************)
(* An instance of ExecutionPage for TLC: two scenes in one state space.    *)
(***************************************************************************)
EXTENDS ExecutionPage

CONSTANTS a, b, j1, j2, w1, u1

\* A node after another.
ChainNode == {a, b}
ChainEdge == {<<a, b>>}

\* The page misses every event and awaits up to two answers, in any order.
Deaf == feed = <<>> /\ live = Nothing

\* The page hears of the nodes, and asks once at first and then at rest.
Hearing ==
  /\ Len(feed) <= 2
  /\ Cardinality({g \in Gets : get[g].at # "idle"}) <= 1
  /\ page.listening /\ get # [g \in Gets |-> NoGet] => AtRest

Scenes == Deaf \/ Hearing
=============================================================================
