-------------------------------- MODULE Dag --------------------------------
(***************************************************************************)
(* The graph a workflow declares (backend/src/dsl/parser.js) as the engine *)
(* sees it after buildDag (backend/src/engine/scheduler.js), and the       *)
(* vocabulary of node outcomes of backend/src/engine/executor.js.          *)
(* parsed.edges is an array: an edge listed twice is counted twice both in *)
(* the in-degree and when it is released, so it behaves as one edge here.  *)
(***************************************************************************)
EXTENDS Naturals, FiniteSets

CONSTANTS
  Node,   \* the names of parsed.nodes
  Edge    \* the pairs <<from, to>> of parsed.edges

Parents(n) == {e[1] : e \in {d \in Edge : d[2] = n}}
Succs(n)   == {e[2] : e \in {d \in Edge : d[1] = n}}

\* Kahn's algorithm visits every node exactly when no set of nodes keeps all
\* of its members waiting for one another.
Acyclic ==
  \A S \in SUBSET Node : S # {} => \E n \in S : Parents(n) \cap S = {}

\* What parseDag has checked of every graph that reaches the engine.
ASSUME DagAssumption ==
  /\ IsFiniteSet(Node)
  /\ Edge \subseteq Node \X Node
  /\ Acyclic

(***************************************************************************)
(* NodeStatus.  RETRYING is only ever emitted to subscribers, never        *)
(* recorded, and RUNNING is only ever persisted.                           *)
(***************************************************************************)
Terminal == {"success", "failed", "skipped"}
Settled  == Terminal \cup {"waiting"}
=============================================================================
