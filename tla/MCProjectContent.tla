-------------------------- MODULE MCProjectContent ---------------------------
EXTENDS ProjectContent, Naturals, FiniteSets, TLC

\* One chunk, or two in the document named Long.
CONSTANT Long
MCSize(d) == IF d = Long THEN 2 ELSE 1

\* The conversation shares nothing with the others and moves alone; the races
\* of requests, grants and passes run without a knowledge base; its own run in
\* a project that stays.  With one document the project is deleted and purged.
Free == kb.st = "none"

Stays ==
    /\ proj[Home] = [row |-> "there", deleted |-> FALSE, expired |-> FALSE]
    /\ \A r \in Requests : request[r].at = "idle"

Goes ==
    /\ \A r \in Requests : request[r].at \in {"idle", "deleting"}
    /\ Cardinality({r \in Requests : request[r].at # "idle"})
         + Cardinality({k \in Passes : pass[k].at # "idle"}) <= 1
    /\ \A d \in Documents \ {Long} : ingest[d] = "none"

Untouched == promised = {} /\ \A g \in Grants : grant[g].st = "none"

Scenes ==
    \/ C!Init /\ (Free \/ (Untouched /\ (Stays \/ Goes)))
    \/ P!Init /\ K!Init

\* Requests and passes are interchangeable.
Symmetry == Permutations(Slots) \cup Permutations(Requests) \cup Permutations(Passes)
=============================================================================
