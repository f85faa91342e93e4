---------------------------- MODULE MCAgentCalls -----------------------------
(***************************************************************************)
(* An instance of AgentCalls for TLC: two scenes in one state space.         *)
(***************************************************************************)
EXTENDS AgentCalls, TLC

\* A run spends its budget under one policy, whichever it is.
\* One attempt is dropped, one node is tried again, one is a loop or a route.
Spending ==
    /\ Cardinality({n \in Node : kind[n] \in {"route", "tools"}}) <= 1
    /\ now = 0 /\ cache.guard # Default /\ \A v \in DOMAIN replaced : replaced[v] > MaxTime
    /\ Cardinality({c \in Calls : c[2] > 1 /\ call[c].at # "off"}) <= 1
    /\ Cardinality({c \in Calls : call[c].dropped}) <= 1

\* The policy is edited while calls that spend nothing come and go.
Editing == tokens = 0 /\ \A c \in Calls : c[2] > 1 => call[c].at = "off"

Scenes == Spending \/ Editing

\* Nodes are interchangeable.
Symmetry == Permutations(Node)
=============================================================================
