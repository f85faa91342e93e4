------------------------ MODULE MCExecutionLifecycle -------------------------
(***************************************************************************)
(* Instances of ExecutionLifecycle for TLC.                                *)
(***************************************************************************)
EXTENDS ExecutionLifecycle

CONSTANTS a, b, c, d, j1, j2, j3, w1, w2, u1, u2

\* Two nodes in parallel before a third one.
JoinNode == {a, b, c}
JoinEdge == {<<a, c>>, <<b, c>>}

\* The same below a fourth one.
DiamondNode == {a, b, c, d}
DiamondEdge == JoinEdge \cup {<<d, a>>, <<d, b>>}

\* Two scenes in one state space: workers crash, nodes fail or are skipped and
\* runs exceed the budget while nobody answers, or people answer while one
\* worker runs undisturbed.
Unanswered == InHandler = {} /\ \A j \in Job \ {FirstJob} : job[j].state = "free"
Undisturbed ==
  /\ crashes = 0
  /\ \A j \in Job :
       /\ run[j].pc \notin {"rescue", "thrown"} /\ run[j].worker # w2
       /\ \A n \in Node : run[j].results[n] \notin {"failed", "skipped"}
Scenes == Unanswered \/ Undisturbed
=============================================================================
