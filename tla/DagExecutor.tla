---------------------------- MODULE DagExecutor -----------------------------
(***************************************************************************)
(* One run of executeDag (backend/src/engine/executor.js): hydration of    *)
(* the rows a previous run left, the layer-by-layer scheduler with its     *)
(* Promise.all barrier, the life of a node inside a layer (skip cascade,   *)
(* executeIf, input resolution, plugin attempts with retries, timeouts and *)
(* batch fan-out), abort, reconciliation and the overall status.           *)
(*                                                                         *)
(* Whatever depends on the data that flows through the graph (the value of *)
(* an executeIf, whether an expression resolves, what a plugin answers) is *)
(* a nondeterministic choice.  The JavaScript between two awaits is one    *)
(* action, except that the nodes of a layer enter one at a time (toEnter): *)
(* nothing asynchronous runs until all of them have entered.               *)
(***************************************************************************)
EXTENDS Dag, Integers

CONSTANTS
  Terminates, \* nodes whose onError is "terminate" (the default); the others continue
  Gated,      \* nodes with an executeIf
  Batch,      \* nodes with a batchOver
  Asking,     \* nodes whose plugin may return the WAITING marker
  Timed,      \* nodes for which resolveNodeTimeoutMs returns a budget
  Overridden, \* nodes that have an entry in inputsOverride
  Items,      \* the number of elements batchOver resolves to (1 for a plain node)
  Retries     \* resolveMaxRetries(node.retry)

ASSUME ExecutorAssumption ==
  /\ Terminates \subseteq Node /\ Gated \subseteq Node /\ Batch \subseteq Node
  /\ Asking \subseteq Node /\ Timed \subseteq Node /\ Overridden \subseteq Node
  /\ Items \in [Node -> Nat]
  /\ Retries \in [Node -> Nat]
  /\ \A n \in Node \ Batch : Items[n] = 1

\* The rows loadNodeStates may return.  "none" stands for every row the
\* scheduler treats as not there: absent, pending, or left running by a crash.
Row == {"none"} \cup Settled

\* One plugin call per batch item; a plain node has a single one.
CallsOf(n) == {n} \X (1 .. Items[n])
Call       == UNION {CallsOf(n) : n \in Node}

VARIABLES
  initial,      \* initialNodeStates
  pc,           \* where executeDag stands
  nodeResults,  \* the outcome recorded for each node, "none" before
  remaining,    \* parents not yet released, per node
  ready,        \* nodes to take into the next layer
  layer,        \* the layer being awaited
  toEnter,      \* its members whose runOne has not started yet
  aborted,
  overall,      \* the status executeDag returns
  calls,        \* per call: idle, calling, backoff (between attempts), ok, failed
  attempts,     \* per call: attempts made
  zombies       \* per call: timed-out invocations still running in the plugin

vars == <<initial, pc, nodeResults, remaining, ready, layer, toEnter, aborted,
          overall, calls, attempts, zombies>>
schedVars == <<initial, pc, remaining, ready, layer, overall>>
callVars  == <<calls, attempts, zombies>>

-----------------------------------------------------------------------------
Init ==
  /\ initial \in [Node -> Row]
  /\ pc = "hydrate"
  /\ nodeResults = [n \in Node |-> "none"]
  /\ remaining = [n \in Node |-> Cardinality(Parents(n))]
  /\ ready = {} /\ layer = {} /\ toEnter = {}
  /\ aborted = FALSE
  /\ overall = "none"
  /\ calls = [c \in Call |-> "idle"]
  /\ attempts = [c \in Call |-> 0]
  /\ zombies = [c \in Call |-> 0]

\* A row that counts as done for the successors: TERMINAL leaves waiting out.
MutWaitingReleases(row) == row \in Settled
MutSkippedHolds(row) == row \in {"success", "failed"}
RowReleases(row) == row \in Terminal

\* Every settled row becomes a result as it is; the others are not looked at.
HydratedResults == initial

\* The prologue: settled rows become results, terminal ones release their
\* successors (a waiting one does not), and the first ready-set is built.
Hydrate ==
  /\ pc = "hydrate"
  /\ pc' = "schedule"
  /\ nodeResults' = HydratedResults
  /\ remaining' = [n \in Node |-> Cardinality({p \in Parents(n) : ~RowReleases(initial[p])})]
  /\ ready' = {n \in Node : initial[n] = "none" /\ remaining'[n] = 0}
  /\ UNCHANGED <<initial, layer, toEnter, aborted, overall, callVars>>

\* ready.splice(0): the whole ready-set becomes the layer to await.
TakeLayer ==
  /\ pc = "schedule" /\ layer = {} /\ ready # {} /\ ~aborted
  /\ layer' = ready
  /\ toEnter' = ready
  /\ ready' = {}
  /\ UNCHANGED <<initial, pc, nodeResults, remaining, aborted, overall, callVars>>

-----------------------------------------------------------------------------
(***************************************************************************)
(* The synchronous prefix of runOne.                                       *)
(***************************************************************************)
MutEverySkippedParent(n) ==
  Parents(n) # {} /\ \A p \in Parents(n) : nodeResults[p] = "skipped"
SkippedParent(n) == \E p \in Parents(n) : nodeResults[p] = "skipped"

Entering(n) ==
  /\ pc = "schedule" /\ n \in toEnter
  /\ toEnter' = toEnter \ {n}
  /\ UNCHANGED schedVars

\* recordOutcome, and handleFailure where the code calls it.
RecordAtEntry(n, status) ==
  /\ nodeResults' = [nodeResults EXCEPT ![n] = status]
  /\ UNCHANGED callVars

MutAssignsAborted(n) == aborted' = (n \in Terminates)
HandleFailure(n) == aborted' = (aborted \/ n \in Terminates)

EnterUnderSkippedParent(n) ==
  /\ Entering(n) /\ SkippedParent(n)
  /\ RecordAtEntry(n, "skipped")
  /\ UNCHANGED aborted

\* executeIf evaluated to something falsy.
GateCloses(n) ==
  /\ Entering(n) /\ ~SkippedParent(n) /\ n \in Gated
  /\ RecordAtEntry(n, "skipped")
  /\ UNCHANGED aborted

\* executeIf threw: the failure is recorded but handleFailure is not called.
GateThrows(n) ==
  /\ Entering(n) /\ ~SkippedParent(n) /\ n \in Gated
  /\ RecordAtEntry(n, "failed")
  /\ UNCHANGED aborted

\* The inputs or batchOver do not resolve, batchOver is not an array, or the
\* array is above the iteration cap.  Inputs given by a resume always resolve.
InputsFail(n) ==
  /\ Entering(n) /\ ~SkippedParent(n)
  /\ n \notin Overridden \/ n \in Batch
  /\ RecordAtEntry(n, "failed")
  /\ HandleFailure(n)

\* The node is RUNNING and its calls start.  The items of a batch resolve
\* their inputs one by one; those that throw fail the node while the others
\* are already calling the plugin.  An empty batch succeeds at once.
Invoke(n) ==
  /\ Entering(n) /\ ~SkippedParent(n)
  /\ \E bad \in SUBSET CallsOf(n) :
       /\ bad # {} => n \in Batch
       /\ calls' = [c \in Call |-> IF c \in bad THEN "failed"
                                   ELSE IF c \in CallsOf(n) THEN "calling" ELSE calls[c]]
       /\ attempts' = [c \in Call |-> IF c \in CallsOf(n) \ bad THEN 1 ELSE attempts[c]]
       /\ nodeResults' = [nodeResults EXCEPT ![n] =
                            IF bad # {} THEN "failed"
                            ELSE IF Items[n] = 0 THEN "success" ELSE "none"]
       /\ IF bad # {} THEN HandleFailure(n) ELSE UNCHANGED aborted
  /\ UNCHANGED zombies

Enter(n) ==
  \/ EnterUnderSkippedParent(n)
  \/ GateCloses(n)
  \/ GateThrows(n)
  \/ InputsFail(n)
  \/ Invoke(n)

-----------------------------------------------------------------------------
(***************************************************************************)
(* The attempts of one plugin call (attemptOnce).  A call outlives its     *)
(* node when another item of the same batch has failed it, and outlives    *)
(* the run then too: these steps do not depend on pc.                      *)
(***************************************************************************)
Awaited(c) == nodeResults[c[1]] = "none"

\* registry.invoke resolved with an ordinary output, or, in a batch, with
\* the WAITING marker, which only a plain node looks at.
AttemptSucceeds(c) ==
  /\ toEnter = {} /\ calls[c] = "calling"
  /\ calls' = [calls EXCEPT ![c] = "ok"]
  /\ nodeResults' = IF Awaited(c) /\ \A d \in CallsOf(c[1]) : calls'[d] = "ok"
                    THEN [nodeResults EXCEPT ![c[1]] = "success"]
                    ELSE nodeResults
  /\ UNCHANGED <<schedVars, toEnter, aborted, attempts, zombies>>

\* The plugin of a plain node returned the WAITING marker.
AttemptWaits(c) ==
  /\ toEnter = {} /\ calls[c] = "calling"
  /\ c[1] \in Asking \ Batch
  /\ calls' = [calls EXCEPT ![c] = "ok"]
  /\ nodeResults' = [nodeResults EXCEPT ![c[1]] = "waiting"]
  /\ UNCHANGED <<schedVars, toEnter, aborted, attempts, zombies>>

\* The catch of the retry loop: back off while the budget lasts, then fail the
\* call and, if the node still waits for it, the node.
MayRetry(c) == attempts[c] <= Retries[c[1]]

MutKeepsRetrying(c) ==
  /\ calls' = [calls EXCEPT ![c] = "backoff"]
  /\ IF ~MayRetry(c) /\ Awaited(c)
     THEN /\ nodeResults' = [nodeResults EXCEPT ![c[1]] = "failed"]
          /\ HandleFailure(c[1])
     ELSE UNCHANGED <<nodeResults, aborted>>
AttemptLost(c) ==
  IF MayRetry(c)
  THEN /\ calls' = [calls EXCEPT ![c] = "backoff"]
       /\ UNCHANGED <<nodeResults, aborted>>
  ELSE /\ calls' = [calls EXCEPT ![c] = "failed"]
       /\ IF Awaited(c)
          THEN /\ nodeResults' = [nodeResults EXCEPT ![c[1]] = "failed"]
               /\ HandleFailure(c[1])
          ELSE UNCHANGED <<nodeResults, aborted>>

AttemptThrows(c) ==
  /\ toEnter = {} /\ calls[c] = "calling"
  /\ AttemptLost(c)
  /\ UNCHANGED <<schedVars, toEnter, attempts, zombies>>

\* withTimeout rejects first; the plugin's promise is left running.
AttemptTimesOut(c) ==
  /\ toEnter = {} /\ calls[c] = "calling" /\ c[1] \in Timed
  /\ AttemptLost(c)
  /\ zombies' = [zombies EXCEPT ![c] = @ + 1]
  /\ UNCHANGED <<schedVars, toEnter, attempts>>

\* The delay is over: the loop makes its next attempt.
Retry(c) ==
  /\ toEnter = {} /\ calls[c] = "backoff"
  /\ calls' = [calls EXCEPT ![c] = "calling"]
  /\ attempts' = [attempts EXCEPT ![c] = @ + 1]
  /\ UNCHANGED <<schedVars, toEnter, nodeResults, aborted, zombies>>

\* The plugin finishes an invocation nobody waits for any more.
ZombieEnds(c) ==
  /\ toEnter = {} /\ zombies[c] > 0
  /\ zombies' = [zombies EXCEPT ![c] = @ - 1]
  /\ UNCHANGED <<schedVars, toEnter, nodeResults, aborted, calls, attempts>>

CallStep(c) ==
  \/ AttemptSucceeds(c)
  \/ AttemptWaits(c)
  \/ AttemptThrows(c)
  \/ AttemptTimesOut(c)
  \/ Retry(c)
  \/ ZombieEnds(c)

-----------------------------------------------------------------------------
(***************************************************************************)
(* The scheduler after the barrier.                                        *)
(***************************************************************************)
MutAwaitsResponders ==
  /\ pc = "schedule" /\ layer # {} /\ toEnter = {}
  /\ \A n \in layer : nodeResults[n] \notin {"none", "waiting"}
LayerSettled ==
  pc = "schedule" /\ layer # {} /\ toEnter = {} /\ \A n \in layer : nodeResults[n] # "none"

\* The members of the layer that release their successors.
MutEveryoneReleases == layer
Releasing == {n \in layer : nodeResults[n] # "waiting"}

\* r === 0 && !nodeResults[next]: the decrement that reaches zero pushes the
\* successor, unless the run already has its result.
MutPushesHydrated(n) == remaining[n] > 0 /\ remaining'[n] <= 0
Pushed(n) == remaining[n] > 0 /\ remaining'[n] <= 0 /\ nodeResults[n] = "none"

\* Every releasing member decrements its successors.
ReleaseLayer ==
  /\ LayerSettled /\ ~aborted
  /\ remaining' = [n \in Node |-> remaining[n] - Cardinality(Parents(n) \cap Releasing)]
  /\ ready' = {n \in Node : Pushed(n)}
  /\ layer' = {}
  /\ UNCHANGED <<initial, pc, nodeResults, toEnter, aborted, overall, callVars>>

\* The loop ends: "if (aborted) break" after the barrier, or nothing is ready.
LeaveLoop ==
  /\ pc = "schedule"
  /\ \/ LayerSettled /\ aborted
     \/ layer = {} /\ (ready = {} \/ aborted)
  /\ pc' = "finish"
  /\ UNCHANGED <<initial, nodeResults, remaining, ready, layer, toEnter, aborted,
                 overall, callVars>>

SomeNode(status) == \E n \in Node : nodeResults[n] = status

MutWaitingFirst ==
  IF aborted THEN "failed"
  ELSE IF SomeNode("waiting") THEN "waiting"
  ELSE IF SomeNode("failed") THEN "partial"
  ELSE "success"
Aggregate ==
  IF aborted THEN "failed"
  ELSE IF SomeNode("failed") THEN "partial"
  ELSE IF SomeNode("waiting") THEN "waiting"
  ELSE "success"

\* markRestPending and the final reconciliation, then the overall status.
Finish ==
  /\ pc = "finish"
  /\ pc' = "done"
  /\ nodeResults' = [n \in Node |-> IF nodeResults[n] = "none" THEN "pending" ELSE nodeResults[n]]
  /\ overall' = Aggregate
  /\ UNCHANGED <<initial, remaining, ready, layer, toEnter, aborted, callVars>>

-----------------------------------------------------------------------------
Next ==
  \/ Hydrate
  \/ TakeLayer
  \/ \E n \in Node : Enter(n)
  \/ \E c \in Call : CallStep(c)
  \/ ReleaseLayer
  \/ LeaveLoop
  \/ Finish

\* The engine's own steps run whenever they can: they are promise
\* continuations and timers.  A plugin owes nothing, so a call that is never
\* answered is ended only by its timeout.
Fairness ==
  /\ WF_vars(Hydrate) /\ WF_vars(TakeLayer) /\ WF_vars(ReleaseLayer)
  /\ WF_vars(LeaveLoop) /\ WF_vars(Finish)
  /\ \A n \in Node : WF_vars(Enter(n))
  /\ \A c \in Call : WF_vars(AttemptTimesOut(c)) /\ WF_vars(Retry(c))

Spec     == Init /\ [][Next]_vars
FairSpec == Spec /\ Fairness

-----------------------------------------------------------------------------
TypeOK ==
  /\ initial \in [Node -> Row]
  /\ pc \in {"hydrate", "schedule", "finish", "done"}
  /\ nodeResults \in [Node -> Row \cup {"pending"}]
  /\ remaining \in [Node -> Int]
  /\ ready \subseteq Node /\ layer \subseteq Node /\ toEnter \subseteq layer
  /\ aborted \in BOOLEAN
  /\ overall \in {"none", "failed", "partial", "waiting", "success"}
  /\ calls \in [Call -> {"idle", "calling", "backoff", "ok", "failed"}]
  /\ attempts \in [Call -> Nat]
  /\ zombies \in [Call -> Nat]

\* The run as its caller sees it: a node is active from the moment its layer is
\* taken until its outcome is recorded.
OutcomeSeen ==
  [n \in Node |->
     IF pc = "hydrate" THEN IF initial[n] = "none" THEN "idle" ELSE initial[n]
     ELSE IF nodeResults[n] # "none" THEN nodeResults[n]
     ELSE IF n \in layer THEN "active" ELSE "idle"]

Run == INSTANCE DagRun WITH outcome <- OutcomeSeen, stopped <- aborted, verdict <- overall

\* The layered scheduler implements the run that DagRun promises: nothing starts
\* early or twice, a stop lets only the current layer settle, and the run ends
\* only when nothing more may start (executeDag as a whole).
ImplementsDagRun == Run!Spec

\* The nodes this run has taken over from an earlier one.
Hydrated(n) == initial[n] # "none"

\* The nodes whose runOne has started in this run.
Ran(n) ==
  /\ ~Hydrated(n)
  /\ n \in layer \ toEnter \/ nodeResults[n] \in Settled

\* A node runs only when each of its parents has ended for good: none is
\* missing, in flight, pending or waiting for a person (the ready-set, the
\* barrier, and the waiting branch of the scheduler loop).
ParentsEndedFirst ==
  \A e \in Edge : Ran(e[2]) => nodeResults[e[1]] \in Terminal

\* A node that ran below a skipped node is skipped itself, however the parent
\* came to be skipped (the cascade at the top of runOneInner).
SkipsCascade ==
  \A e \in Edge : Ran(e[2]) /\ nodeResults[e[1]] = "skipped" => nodeResults[e[2]] = "skipped"

\* Below a node that failed under onError=terminate nothing runs, except in the
\* two cases the code lets through: the failure was hydrated from an earlier
\* run, or it came from executeIf, which does not call handleFailure.
NothingBelowATerminatingFailure ==
  \A e \in Edge :
    Ran(e[2]) /\ nodeResults[e[1]] = "failed" /\ e[1] \in Terminates =>
      Hydrated(e[1]) \/ e[1] \in Gated

\* Outcomes are written once: a run never runs a node again, nor a node it has
\* hydrated, even when a parent of that node runs again (the !nodeResults[next]
\* test of the scheduler loop).  DagRun promises it, so ImplementsDagRun checks it.
OutcomesAreFinal ==
  [][\A n \in Node : pc # "hydrate" /\ nodeResults[n] # "none" =>
                       nodeResults'[n] = nodeResults[n]]_vars

\* A run that was not aborted leaves a node "not reached" only below a node that
\* waits for a person or is itself not reached.
PendingIsExplained ==
  pc = "done" /\ ~aborted =>
    \A n \in Node : nodeResults[n] = "pending" =>
      \E p \in Parents(n) : nodeResults[p] \in {"waiting", "pending"}

\* The returned status says what became of the nodes: success means that every
\* node succeeded or was skipped, and a run that leaves nodes pending says
\* failed, waiting or partial.
StatusTellsTheOutcome ==
  pc = "done" =>
    /\ overall = "success" => \A n \in Node : nodeResults[n] \in {"success", "skipped"}
    /\ overall = "waiting" => SomeNode("waiting") /\ ~SomeNode("failed")
    /\ overall = "partial" => SomeNode("failed")
    /\ overall = "failed"  => \E n \in Terminates : nodeResults[n] = "failed" /\ ~Hydrated(n)

\* The plugin is invoked at most once more than the retry budget for each call,
\* and what still runs in the plugin is among those invocations.
RetryBudgetHolds ==
  \A c \in Call :
    /\ attempts[c] <= Retries[c[1]] + 1
    /\ zombies[c] + (IF calls[c] = "calling" THEN 1 ELSE 0) <= attempts[c]

\* A call still going on when its node has settled is an item of a batch that
\* another item has failed: nothing else calls a plugin behind the run's back.
StragglersAreBatchItems ==
  \A c \in Call :
    calls[c] \in {"calling", "backoff"} /\ ~Awaited(c) =>
      c[1] \in Batch /\ nodeResults[c[1]] = "failed"

\* When every node has a time budget, a run ends whatever its plugins do.
RunEnds == <>(pc = "done")
=============================================================================
