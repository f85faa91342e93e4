------------------------------- MODULE DagRun -------------------------------
(***************************************************************************)
(* What executeDag promises of a run, without layers, counters or plugin   *)
(* calls: nodes start once their parents have ended, each settles once, a  *)
(* terminating failure stops new starts but lets the started ones settle,  *)
(* and the run ends when nothing more can start.                           *)
(***************************************************************************)
EXTENDS Dag

CONSTANT Terminates

VARIABLES
  outcome,  \* per node: idle, active, an outcome, or pending once the run is over
  stopped,  \* a terminating failure has been seen
  verdict   \* the status of the run, "none" while it goes on

runVars == <<outcome, stopped, verdict>>

Is(status) == {n \in Node : outcome[n] = status}

Startable == {n \in Is("idle") : \A p \in Parents(n) : outcome[p] \in Terminal}

Init ==
  /\ outcome \in [Node -> {"idle"} \cup Settled]
  /\ stopped = FALSE
  /\ verdict = "none"

\* Of the nodes that start, some may be skipped at once.
Start(S, skipped) ==
  /\ verdict = "none" /\ ~stopped
  /\ outcome' = [n \in Node |-> IF n \in skipped THEN "skipped"
                                ELSE IF n \in S THEN "active" ELSE outcome[n]]
  /\ UNCHANGED <<stopped, verdict>>

Settle(n, status) ==
  /\ n \in Is("active")
  /\ (\E p \in Parents(n) : outcome[p] = "skipped") => status = "skipped"
  /\ outcome' = [outcome EXCEPT ![n] = status]
  /\ stopped' \in {stopped, stopped \/ (status = "failed" /\ n \in Terminates)}
  /\ UNCHANGED verdict

End ==
  /\ verdict = "none"
  /\ Is("active") = {}
  /\ stopped \/ Startable = {}
  /\ outcome' = [n \in Node |-> IF outcome[n] = "idle" THEN "pending" ELSE outcome[n]]
  /\ verdict' = IF stopped THEN "failed"
                ELSE IF Is("failed") # {} THEN "partial"
                ELSE IF Is("waiting") # {} THEN "waiting"
                ELSE "success"
  /\ UNCHANGED stopped

Next ==
  \/ \E S \in SUBSET Startable : \E skipped \in SUBSET S : Start(S, skipped)
  \/ \E n \in Node, status \in Settled : Settle(n, status)
  \/ End

Spec == Init /\ [][Next]_runVars
=============================================================================
