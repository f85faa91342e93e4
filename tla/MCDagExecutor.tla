--------------------------- MODULE MCDagExecutor ----------------------------
(***************************************************************************)
(* Instances of DagExecutor for TLC.                                       *)
(***************************************************************************)
EXTENDS DagExecutor

CONSTANTS a, b, c, d

\* A diamond with a tail edge over it: two layers in parallel, a join, and a
\* node (d) whose parents sit in different layers.
DiamondNode == {a, b, c, d}
DiamondEdge == {<<a, b>>, <<a, c>>, <<b, d>>, <<c, d>>, <<a, d>>}
DiamondItems   == [n \in DiamondNode |-> 1]
DiamondRetries == [n \in DiamondNode |-> 0]

\* A batch of two items beside a plain node, both before a batch that resolves
\* to no element.
ForkNode == {a, b, c}
ForkEdge == {<<a, c>>, <<b, c>>}
ForkItems   == [n \in ForkNode |-> CASE n = a -> 2 [] n = b -> 1 [] n = c -> 0]
ForkRetries == [n \in ForkNode |-> IF n = c THEN 0 ELSE 1]

\* No batch at all.
PlainItems == [n \in Node |-> 1]
=============================================================================
