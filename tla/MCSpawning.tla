----------------------------- MODULE MCSpawning -----------------------------
EXTENDS Spawning, TLC

\* Graphs of two projects; the one named Other may be called from the first.
CONSTANTS Other
MCProjectOf(g) == IF g = Other THEN "q" ELSE "p"
MCGranted == {<<"p", "q">>}
MCLimit(p) == 2

\* Two scenes, one state space.  Requests race for the quota of one project
\* before any of their executions runs.
Racing ==
    /\ \A e \in Executions :
          /\ exec[e].st \in {"free", "queued"}
          /\ ~exec[e].batch /\ exec[e].resumes = 0 /\ origin[e].depth = 0
    /\ \A s \in Slots : spawn[s].graph # Other /\ spawn[s].kind # "fire"
    /\ MaxExecutions > rows + 1
    /\ \A p \in Projects : tally[p].lost + tally[p].waived <= 1

\* One request's execution runs, dies, resumes and fires, and so do those it
\* fires, until the last row is there.  The counting is put off, one execution
\* at a time runs, and one of them is batched or resumed.
Active == {e \in Executions : exec[e].st = "running" \/ (exec[e].st = "queued" /\ job[e] # None)}

Chaining ==
    /\ rows < MaxExecutions
    /\ Cardinality({e \in 1 .. rows : origin[e].depth = 0}) <= 1
    /\ Cardinality(Active) <= 2
    /\ Cardinality({e \in Active : exec[e].st = "running"}) <= 1
    /\ \A s \in Slots :
          \/ spawn[s].kind \in {None, "fire"}
          \/ spawn[s].kind = "execute" /\ (rows = 0 \/ spawn[s].new = 1)
    /\ Cardinality({e \in Executions : exec[e].batch \/ exec[e].resumes > 0}) <= 1
    /\ \A p \in Projects : usage[p] = 0 /\ tally[p].waived = 0 /\ tally[p].lost = 0

Scenes == Racing \/ Chaining

\* What the counting does makes no difference to a chain while usage is 0.
View == IF Racing THEN vars ELSE <<rows, exec, job, spawn, origin>>

\* Slots are interchangeable.
Symmetry == Permutations(Slots)
=============================================================================
