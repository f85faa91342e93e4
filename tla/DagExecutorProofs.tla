------------------------- MODULE DagExecutorProofs --------------------------
(***************************************************************************)
(* The safety properties of DagExecutor hold, and it implements DagRun,    *)
(* for every graph, every choice of node options and every set of rows the *)
(* run starts from.                                                        *)
(***************************************************************************)
EXTENDS DagExecutor, FiniteSetTheorems, TLAPS

-----------------------------------------------------------------------------
(***************************************************************************)
(* The inductive invariant, in named parts.                                *)
(***************************************************************************)
\* The nodes that have released their successors.
Released == {p \in Node : nodeResults[p] \in Terminal} \ layer

BeforeHydration ==
  pc = "hydrate" =>
    /\ nodeResults = [n \in Node |-> "none"]
    /\ ready = {} /\ layer = {} /\ aborted = FALSE

\* Hydrated results stay as they were on disk; pending appears only at the end.
ResultsOrigin ==
  \A n \in Node :
    /\ pc # "hydrate" /\ Hydrated(n) => nodeResults[n] = initial[n]
    /\ pc # "done" => nodeResults[n] # "pending"

\* remaining[n] counts the parents that have not released n.
Counting ==
  pc # "hydrate" => \A n \in Node : remaining[n] = Cardinality(Parents(n) \ Released)

\* While the scheduler runs, a node without a result that is in neither set is
\* held back by a parent.
ReadySet ==
  /\ pc = "schedule" =>
       \A n \in ready : nodeResults[n] = "none" /\ ~Hydrated(n) /\ Parents(n) \subseteq Released
  /\ layer # {} => ready = {}
  /\ pc = "schedule" =>
       \A n \in Node \ (layer \cup ready) :
         nodeResults[n] = "none" => \E p \in Parents(n) : p \notin Released

LayerOutsidePrologue ==
  /\ pc # "schedule" => toEnter = {}
  /\ pc # "schedule" => \A n \in layer : nodeResults[n] # "none"
  /\ \A n \in toEnter : nodeResults[n] = "none"

\* The nodes this run has committed to: in the layer, or settled by this run.
Committed(n) == ~Hydrated(n) /\ (n \in layer \/ (pc # "hydrate" /\ nodeResults[n] \in Settled))

\* A failure of p that must have aborted the run.
Terminating(p) ==
  nodeResults[p] = "failed" /\ p \in Terminates /\ ~Hydrated(p) /\ p \notin Gated

CommittedBelow ==
  /\ \A n \in layer : ~Hydrated(n)
  /\ \A n \in Node : Committed(n) =>
       \A p \in Parents(n) : nodeResults[p] \in Terminal /\ ~Terminating(p)

AbortedMeans ==
  /\ \A p \in Node : pc # "hydrate" /\ Terminating(p) => aborted
  /\ aborted => \E p \in Terminates : nodeResults[p] = "failed" /\ ~Hydrated(p)

LoopLeft ==
  pc = "finish" /\ ~aborted =>
    \A n \in Node : nodeResults[n] = "none" =>
      \E p \in Parents(n) : nodeResults[p] \in {"none", "waiting"}

\* A call exists only once its node has entered, and outlives it only in a batch
\* that another item has failed.
CallsBelong ==
  \A c \in Call :
    /\ c[1] \notin layer \ toEnter /\ Awaited(c) => calls[c] = "idle"
    /\ pc = "hydrate" => calls[c] = "idle"
    /\ calls[c] \in {"calling", "backoff"} /\ ~Awaited(c) =>
         c[1] \in Batch /\ nodeResults[c[1]] = "failed"

SchedulerInv ==
  /\ BeforeHydration /\ ResultsOrigin /\ Counting /\ ReadySet /\ LayerOutsidePrologue
  /\ CommittedBelow /\ AbortedMeans /\ LoopLeft /\ SkipsCascade

IInv ==
  /\ TypeOK /\ CallsBelong /\ SchedulerInv
  /\ PendingIsExplained /\ StatusTellsTheOutcome

-----------------------------------------------------------------------------
(***************************************************************************)
(* Facts about the graph and the calls.                                    *)
(***************************************************************************)
\* Every node has finitely many parents, all of them nodes.
LEMMA ParentsFinite ==
  ASSUME NEW n PROVE Parents(n) \subseteq Node /\ IsFiniteSet(Parents(n))
<1>1. Parents(n) \subseteq Node
  BY DagAssumption DEF Parents
<1>2. QED  BY <1>1, DagAssumption, FS_Subset

\* The parents not in S are none left exactly when their number is 0.
LEMMA NoneLeft ==
  ASSUME NEW n, NEW S
  PROVE  /\ Cardinality(Parents(n) \ S) \in Nat
         /\ Cardinality(Parents(n) \ S) = 0 <=> Parents(n) \subseteq S
<1>1. IsFiniteSet(Parents(n) \ S)
  BY ParentsFinite, FS_Difference
<1>2. QED  BY <1>1, FS_CardinalityType, FS_EmptySet

\* A call belongs to the node it names.
LEMMA CallNode ==
  ASSUME NEW c \in Call PROVE c[1] \in Node /\ c \in CallsOf(c[1])
BY DEF Call, CallsOf

\* The calls of a node are calls, and name that node.
LEMMA CallsOfInCall ==
  ASSUME NEW n \in Node PROVE CallsOf(n) \subseteq Call /\ \A c \in CallsOf(n) : c[1] = n
BY DEF Call, CallsOf

-----------------------------------------------------------------------------
(***************************************************************************)
(* Type correctness.                                                       *)
(***************************************************************************)
\* A fresh run is well typed.
LEMMA TypeInit == Init => TypeOK
<1> SUFFICES ASSUME Init PROVE TypeOK
  OBVIOUS
<1>1. \A n \in Node : Cardinality(Parents(n)) \in Int
  BY ParentsFinite, FS_CardinalityType
<1>2. remaining \in [Node -> Int]
  BY <1>1 DEF Init
<1>3. nodeResults \in [Node -> Row \cup {"pending"}]
  BY DEF Init, Row
<1>4. QED  BY <1>2, <1>3 DEF Init, TypeOK

\* Hydration (executor.js:137-193) keeps the types.
LEMMA TypeHydrate == TypeOK /\ Hydrate => TypeOK'
<1> SUFFICES ASSUME TypeOK, Hydrate PROVE TypeOK'
  OBVIOUS
<1>1. \A n \in Node : {p \in Parents(n) : ~RowReleases(initial[p])}
                        = Parents(n) \ {p \in Parents(n) : RowReleases(initial[p])}
  OBVIOUS
<1>2. \A n \in Node : Cardinality({p \in Parents(n) : ~RowReleases(initial[p])}) \in Nat
  BY <1>1, NoneLeft
<1>3. QED  BY <1>2 DEF TypeOK, Hydrate, HydratedResults, callVars

\* A node that enters, whichever way runOneInner takes, keeps the types.
LEMMA TypeEnter == ASSUME NEW n \in Node PROVE TypeOK /\ Enter(n) => TypeOK'
<1> SUFFICES ASSUME TypeOK, Enter(n) PROVE TypeOK'
  OBVIOUS
<1> USE DEF TypeOK, Entering, schedVars, callVars, RecordAtEntry, HandleFailure, Row, Settled, Terminal
<1>1. CASE EnterUnderSkippedParent(n)
  BY <1>1 DEF EnterUnderSkippedParent
<1>2. CASE GateCloses(n)
  BY <1>2 DEF GateCloses
<1>3. CASE GateThrows(n)
  BY <1>3 DEF GateThrows
<1>4. CASE InputsFail(n)
  BY <1>4 DEF InputsFail
<1>5. CASE Invoke(n)
  <2>1. /\ nodeResults' \in [Node -> Row \cup {"pending"}]
        /\ calls' \in [Call -> {"idle", "calling", "backoff", "ok", "failed"}]
        /\ attempts' \in [Call -> Nat]
    BY <1>5 DEF Invoke
  <2>2. aborted' \in BOOLEAN
    BY <1>5 DEF Invoke
  <2>3. QED  BY <1>5, <2>1, <2>2 DEF Invoke
<1>6. QED  BY <1>1, <1>2, <1>3, <1>4, <1>5 DEF Enter

\* An attempt that fails for the last time, or is tried again, keeps the types.
LEMMA TypeAttemptLost ==
  ASSUME TypeOK, NEW c \in Call, AttemptLost(c)
  PROVE  /\ nodeResults' \in [Node -> Row \cup {"pending"}]
         /\ aborted' \in BOOLEAN
         /\ calls' \in [Call -> {"idle", "calling", "backoff", "ok", "failed"}]
<1>1. c[1] \in Node
  BY CallNode
<1>2. nodeResults' \in [Node -> Row \cup {"pending"}]
  BY <1>1 DEF TypeOK, AttemptLost, Row, Settled, Terminal
<1>3. aborted' \in BOOLEAN
  BY DEF TypeOK, AttemptLost, HandleFailure
<1>4. calls' \in [Call -> {"idle", "calling", "backoff", "ok", "failed"}]
  BY DEF TypeOK, AttemptLost
<1>5. QED  BY <1>2, <1>3, <1>4

\* Whatever a plugin call does, the types are kept.
LEMMA TypeCallStep == ASSUME NEW c \in Call PROVE TypeOK /\ CallStep(c) => TypeOK'
<1> SUFFICES ASSUME TypeOK, CallStep(c) PROVE TypeOK'
  OBVIOUS
<1>0. c[1] \in Node
  BY CallNode
<1> USE DEF TypeOK, schedVars, Row, Settled, Terminal
<1>1. CASE AttemptSucceeds(c)
  <2>1. nodeResults' \in [Node -> Row \cup {"pending"}]
    BY <1>0, <1>1 DEF AttemptSucceeds
  <2>2. calls' \in [Call -> {"idle", "calling", "backoff", "ok", "failed"}]
    BY <1>1 DEF AttemptSucceeds
  <2>3. QED  BY <1>1, <2>1, <2>2 DEF AttemptSucceeds
<1>2. CASE AttemptWaits(c)
  BY <1>0, <1>2 DEF AttemptWaits
<1>3. CASE AttemptThrows(c)
  BY <1>3, TypeAttemptLost DEF AttemptThrows
<1>4. CASE AttemptTimesOut(c)
  <2>1. zombies' \in [Call -> Nat]
    BY <1>4 DEF AttemptTimesOut
  <2>2. QED  BY <1>4, <2>1, TypeAttemptLost DEF AttemptTimesOut
<1>5. CASE Retry(c)
  BY <1>0, <1>5 DEF Retry
<1>6. CASE ZombieEnds(c)
  BY <1>0, <1>6 DEF ZombieEnds
<1>7. QED  BY <1>1, <1>2, <1>3, <1>4, <1>5, <1>6 DEF CallStep

\* The layer loop (executor.js:503-554) keeps the types.
LEMMA TypeScheduler ==
  TypeOK /\ (TakeLayer \/ ReleaseLayer \/ LeaveLoop \/ Finish) => TypeOK'
<1> SUFFICES ASSUME TypeOK, TakeLayer \/ ReleaseLayer \/ LeaveLoop \/ Finish PROVE TypeOK'
  OBVIOUS
<1> USE DEF TypeOK, callVars
<1>1. CASE TakeLayer
  BY <1>1 DEF TakeLayer
<1>2. CASE ReleaseLayer
  <2>1. \A n \in Node : IsFiniteSet(Parents(n) \cap Releasing)
    BY ParentsFinite, FS_Subset
  <2>2. \A n \in Node : Cardinality(Parents(n) \cap Releasing) \in Nat
    BY <2>1, FS_CardinalityType
  <2>3. remaining' \in [Node -> Int]
    BY <1>2, <2>2 DEF ReleaseLayer
  <2>4. QED  BY <1>2, <2>3 DEF ReleaseLayer, LayerSettled
<1>3. CASE LeaveLoop
  BY <1>3 DEF LeaveLoop
<1>4. CASE Finish
  BY <1>4 DEF Finish, Aggregate
<1>5. QED  BY <1>1, <1>2, <1>3, <1>4

\* Every step keeps the types.
LEMMA TypeNext == TypeOK /\ [Next]_vars => TypeOK'
<1> SUFFICES ASSUME TypeOK, [Next]_vars PROVE TypeOK'
  OBVIOUS
<1>1. CASE UNCHANGED vars
  BY <1>1 DEF TypeOK, vars
<1>2. CASE Next
  BY <1>2, TypeHydrate, TypeEnter, TypeCallStep, TypeScheduler DEF Next
<1>3. QED  BY <1>1, <1>2

\* The variables of a run keep their types (the counters never leave Int, the
\* layer is a set of declared nodes), whatever the graph.
THEOREM TypeCorrect == Spec => []TypeOK
BY TypeInit, TypeNext, PTL DEF Spec

-----------------------------------------------------------------------------
(***************************************************************************)
(* What the steps of one node do to the scheduler.  Every step of Enter    *)
(* and CallStep is a NodeStep of some node of the layer or leaves the      *)
(* scheduler alone.                                                        *)
(***************************************************************************)
NodeStep(n) ==
  /\ pc = "schedule" /\ n \in layer /\ nodeResults[n] = "none"
  /\ UNCHANGED schedVars
  /\ toEnter' \subseteq toEnter /\ n \notin toEnter'
  /\ \A m \in Node \ {n} : nodeResults'[m] = nodeResults[m]
  /\ nodeResults'[n] \in Settled \cup {"none"}
  /\ SkippedParent(n) => nodeResults'[n] = "skipped"
  /\ aborted => aborted'
  /\ nodeResults'[n] = "failed" /\ n \in Terminates \ Gated => aborted'
  /\ aborted' => aborted \/ (nodeResults'[n] = "failed" /\ n \in Terminates)
  /\ \A m \in toEnter : m = n \/ m \in toEnter'

SchedulerIdle == UNCHANGED <<schedVars, nodeResults, toEnter, aborted>>

\* A node that enters is a NodeStep: what the scheduler sees of it is its result, at
\* most an abort, and that it has entered.
LEMMA EnterIsNodeStep ==
  ASSUME IInv, NEW n \in Node, Enter(n) PROVE NodeStep(n)
<1>0. n \in layer /\ nodeResults[n] = "none" /\ pc = "schedule" /\ UNCHANGED schedVars
      /\ toEnter' = toEnter \ {n}
  BY DEF IInv, SchedulerInv, LayerOutsidePrologue, TypeOK, Enter, EnterUnderSkippedParent,
         GateCloses, GateThrows, InputsFail, Invoke, Entering
<1>1. nodeResults \in [Node -> Row \cup {"pending"}] /\ aborted \in BOOLEAN
  BY DEF IInv, TypeOK
<1> USE DEF NodeStep, RecordAtEntry, HandleFailure, Settled, Terminal
<1>2. CASE EnterUnderSkippedParent(n)
  BY <1>0, <1>1, <1>2 DEF EnterUnderSkippedParent
<1>3. CASE GateCloses(n)
  BY <1>0, <1>1, <1>3 DEF GateCloses
<1>4. CASE GateThrows(n)
  BY <1>0, <1>1, <1>4 DEF GateThrows
<1>5. CASE InputsFail(n)
  BY <1>0, <1>1, <1>5 DEF InputsFail
<1>6. CASE Invoke(n)
  BY <1>0, <1>1, <1>6 DEF Invoke
<1>7. QED  BY <1>2, <1>3, <1>4, <1>5, <1>6 DEF Enter

\* A call its node still waits for belongs to a node that has entered, and whose
\* parents are not skipped.
LEMMA AwaitedCall ==
  ASSUME IInv, NEW c \in Call, calls[c] # "idle", Awaited(c)
  PROVE  /\ pc = "schedule" /\ c[1] \in layer /\ c[1] \notin toEnter
         /\ ~SkippedParent(c[1])
<1>0. c[1] \in Node
  BY CallNode
<1>1. c[1] \in layer /\ c[1] \notin toEnter
  BY DEF IInv, CallsBelong
<1>2. pc = "schedule"
  BY <1>1 DEF IInv, SchedulerInv, LayerOutsidePrologue, Awaited
<1>3. ~SkippedParent(c[1])
  <2> SUFFICES ASSUME NEW p \in Parents(c[1]), nodeResults[p] = "skipped" PROVE FALSE
    BY DEF SkippedParent
  <2>1. PICK e \in Edge : e[1] = p /\ e[2] = c[1]
    BY DEF Parents
  <2>2. Ran(e[2])
    BY <1>1, <2>1 DEF IInv, SchedulerInv, CommittedBelow, Ran
  <2>3. QED  BY <2>1, <2>2 DEF IInv, SchedulerInv, SkipsCascade, Awaited
<1>4. QED  BY <1>1, <1>2, <1>3

\* A step of a call is a NodeStep of its node, or the scheduler does not see it.
LEMMA CallStepIsNodeStep ==
  ASSUME IInv, NEW c \in Call, CallStep(c) PROVE NodeStep(c[1]) \/ SchedulerIdle
<1>0. c[1] \in Node /\ c \in CallsOf(c[1])
  BY CallNode
<1>1. nodeResults \in [Node -> Row \cup {"pending"}] /\ aborted \in BOOLEAN
  BY DEF IInv, TypeOK
<1>2. calls[c] \in {"calling", "backoff"} /\ ~Awaited(c) => c[1] \in Batch
  BY DEF IInv, CallsBelong
<1>3. calls[c] # "idle" /\ Awaited(c) =>
        pc = "schedule" /\ c[1] \in layer /\ c[1] \notin toEnter /\ ~SkippedParent(c[1])
  BY AwaitedCall
<1> USE DEF NodeStep, SchedulerIdle, HandleFailure, Settled, Terminal
<1>4. CASE AttemptSucceeds(c)
  BY <1>0, <1>1, <1>3, <1>4 DEF AttemptSucceeds, Awaited
<1>5. CASE AttemptWaits(c)
  BY <1>0, <1>1, <1>2, <1>3, <1>5 DEF AttemptWaits, Awaited
<1>6. ASSUME calls[c] = "calling", toEnter' = toEnter, UNCHANGED schedVars, AttemptLost(c)
      PROVE  NodeStep(c[1]) \/ SchedulerIdle
  BY <1>0, <1>1, <1>3, <1>6 DEF AttemptLost, Awaited
<1>7. CASE AttemptThrows(c) \/ AttemptTimesOut(c)
  BY <1>6, <1>7 DEF AttemptThrows, AttemptTimesOut
<1>8. CASE Retry(c) \/ ZombieEnds(c)
  BY <1>8 DEF Retry, ZombieEnds
<1>9. QED  BY <1>4, <1>5, <1>7, <1>8 DEF CallStep

-----------------------------------------------------------------------------
(***************************************************************************)
(* The scheduler's part of the invariant is kept by the steps of a node.   *)
(***************************************************************************)
\* A NodeStep keeps the scheduler's part of the invariant.
LEMMA NodeStepKeepsScheduler ==
  ASSUME IInv, TypeOK', NEW n \in Node, NodeStep(n)
  PROVE  SchedulerInv' /\ PendingIsExplained' /\ StatusTellsTheOutcome'
<1> USE DEF IInv, SchedulerInv
<1>0. /\ pc = "schedule" /\ pc' = "schedule" /\ initial' = initial /\ remaining' = remaining
      /\ ready' = ready /\ layer' = layer /\ overall' = overall
      /\ n \in layer /\ nodeResults[n] = "none" /\ ~Hydrated(n)
      /\ \A m \in Node \ {n} : nodeResults'[m] = nodeResults[m]
      /\ nodeResults'[n] \in Settled \cup {"none"}
      /\ \A m : Hydrated(m)' = Hydrated(m)
  BY DEF NodeStep, schedVars, CommittedBelow, Hydrated
<1>1. Released' = Released
  BY <1>0 DEF Released
<1>2. BeforeHydration' /\ LoopLeft' /\ PendingIsExplained' /\ StatusTellsTheOutcome'
  BY <1>0 DEF BeforeHydration, LoopLeft, PendingIsExplained, StatusTellsTheOutcome
<1>3. ResultsOrigin'
  BY <1>0 DEF ResultsOrigin, Settled, Terminal
<1>4. Counting'
  BY <1>0, <1>1 DEF Counting
<1>5. ReadySet'
  BY <1>0, <1>1 DEF ReadySet
<1>6. LayerOutsidePrologue'
  BY <1>0, TypeOK' DEF LayerOutsidePrologue, NodeStep, TypeOK
<1>7. \A p \in Node : nodeResults[p] \in Terminal => nodeResults'[p] = nodeResults[p]
  BY <1>0 DEF Terminal
<1>8. CommittedBelow'
  <2>1. \A m \in layer' : ~Hydrated(m)'
    BY <1>0 DEF CommittedBelow
  <2>2. \A m \in Node : Committed(m)' => Committed(m)
    BY <1>0 DEF Committed
  <2>3. \A m \in Node : Committed(m) =>
          \A p \in Parents(m) : nodeResults'[p] \in Terminal /\ ~Terminating(p)'
    BY <1>0, <1>7, ParentsFinite DEF CommittedBelow, Terminating
  <2>4. QED  BY <2>1, <2>2, <2>3 DEF CommittedBelow
<1>9. AbortedMeans'
  <2>1. ASSUME NEW p \in Node, Terminating(p)' PROVE aborted'
    BY <1>0, <2>1 DEF AbortedMeans, Terminating, NodeStep
  <2>2. ASSUME aborted' PROVE \E p \in Terminates : nodeResults'[p] = "failed" /\ ~Hydrated(p)'
    <3>1. CASE aborted
      BY <1>0, <1>7, <3>1, ExecutorAssumption DEF AbortedMeans, Terminal
    <3>2. CASE nodeResults'[n] = "failed" /\ n \in Terminates
      BY <1>0, <3>2
    <3>3. QED  BY <2>2, <3>1, <3>2 DEF NodeStep
  <2>3. QED  BY <2>1, <2>2 DEF AbortedMeans
<1>10. SkipsCascade'
  <2> SUFFICES ASSUME NEW e \in Edge, Ran(e[2])', nodeResults'[e[1]] = "skipped"
               PROVE  nodeResults'[e[2]] = "skipped"
    BY DEF SkipsCascade
  <2>1. e[1] \in Parents(e[2]) /\ e[1] \in Node /\ e[2] \in Node
    BY DagAssumption DEF Parents
  <2>2. nodeResults[e[1]] = "skipped"
    <3>1. Committed(e[2])
      BY <1>0, <2>1 DEF Ran, Committed
    <3>2. QED  BY <1>0, <1>7, <2>1, <3>1 DEF CommittedBelow
  <2>3. CASE e[2] = n
    BY <2>1, <2>2, <2>3 DEF NodeStep, SkippedParent
  <2>4. CASE e[2] # n
    <3>1. Ran(e[2])
      BY <1>0, <2>1, <2>4 DEF Ran, NodeStep
    <3>2. QED  BY <1>0, <2>1, <2>2, <2>4, <3>1 DEF SkipsCascade
  <2>5. QED  BY <2>3, <2>4
<1>11. QED  BY <1>2, <1>3, <1>4, <1>5, <1>6, <1>8, <1>9, <1>10

\* A step the scheduler does not see keeps the scheduler's part of the invariant.
LEMMA IdleKeepsScheduler ==
  ASSUME IInv, SchedulerIdle
  PROVE  SchedulerInv' /\ PendingIsExplained' /\ StatusTellsTheOutcome'
<1>1. /\ pc' = pc /\ initial' = initial /\ remaining' = remaining /\ ready' = ready
      /\ layer' = layer /\ overall' = overall /\ nodeResults' = nodeResults
      /\ toEnter' = toEnter /\ aborted' = aborted
  BY DEF SchedulerIdle, schedVars
<1>2. QED
  BY <1>1 DEF IInv, SchedulerInv, BeforeHydration, ResultsOrigin, Counting, ReadySet,
              LayerOutsidePrologue, CommittedBelow, AbortedMeans, LoopLeft, SkipsCascade,
              PendingIsExplained, StatusTellsTheOutcome, Released, Hydrated, Ran, Committed,
              Terminating, SomeNode

-----------------------------------------------------------------------------
(***************************************************************************)
(* The scheduler's own steps.                                              *)
(***************************************************************************)
\* Hydration establishes what the loop relies on: the counts of the parents that
\* have not ended, and the ready nodes among those without a result.
LEMMA HydrateKeepsScheduler ==
  ASSUME IInv, Hydrate
  PROVE  SchedulerInv' /\ PendingIsExplained' /\ StatusTellsTheOutcome'
<1> USE DEF IInv, SchedulerInv
<1>0. /\ pc = "hydrate" /\ pc' = "schedule" /\ initial' = initial /\ nodeResults' = initial
      /\ layer = {} /\ layer' = {} /\ toEnter' = {} /\ ~aborted /\ ~aborted'
      /\ initial \in [Node -> Row]
      /\ \A m : Hydrated(m)' = Hydrated(m)
  BY DEF Hydrate, HydratedResults, BeforeHydration, TypeOK, Hydrated
<1>1. \A n \in Node : {p \in Parents(n) : ~RowReleases(initial[p])} = Parents(n) \ Released'
  BY <1>0, ParentsFinite DEF Released, RowReleases
<1>2. \A n \in Node : remaining'[n] = Cardinality(Parents(n) \ Released')
  BY <1>1 DEF Hydrate
<1>3. ready' = {n \in Node : initial[n] = "none" /\ Parents(n) \subseteq Released'}
  <2>1. \A n \in Node : remaining'[n] = 0 <=> Parents(n) \subseteq Released'
    BY <1>2, NoneLeft
  <2>2. QED  BY <2>1 DEF Hydrate
<1>4. ReadySet'
  BY <1>0, <1>3 DEF ReadySet, Hydrated
<1>5. \A n \in Node : ~Committed(n)' /\ ~Terminating(n)'
  BY <1>0 DEF Committed, Terminating, Hydrated, Settled, Terminal
<1>6. CommittedBelow' /\ AbortedMeans'
  BY <1>0, <1>5 DEF CommittedBelow, AbortedMeans
<1>7. SkipsCascade'
  BY <1>0, DagAssumption DEF SkipsCascade, Ran, Hydrated, Settled, Terminal
<1>8. ResultsOrigin'
  BY <1>0 DEF ResultsOrigin, Row, Settled, Terminal
<1>9. QED
  BY <1>0, <1>2, <1>4, <1>6, <1>7, <1>8
  DEF BeforeHydration, Counting, LayerOutsidePrologue, LoopLeft, PendingIsExplained,
      StatusTellsTheOutcome

\* Taking the ready nodes as a layer keeps the scheduler's part of the invariant.
LEMMA TakeLayerKeepsScheduler ==
  ASSUME IInv, TakeLayer
  PROVE  SchedulerInv' /\ PendingIsExplained' /\ StatusTellsTheOutcome'
<1> USE DEF IInv, SchedulerInv
<1>0. /\ pc = "schedule" /\ pc' = pc /\ initial' = initial /\ remaining' = remaining
      /\ nodeResults' = nodeResults /\ layer = {} /\ layer' = ready /\ toEnter' = ready
      /\ ready' = {} /\ ~aborted /\ aborted' = aborted
      /\ \A m : Hydrated(m)' = Hydrated(m)
  BY DEF TakeLayer, Hydrated
<1>1. \A n \in ready : nodeResults[n] = "none" /\ ~Hydrated(n) /\ Parents(n) \subseteq Released
  BY <1>0 DEF ReadySet
<1>2. Released' = Released
  BY <1>0, <1>1 DEF Released, Terminal
<1>3. ReadySet'
  BY <1>0, <1>2 DEF ReadySet
<1>4. CommittedBelow'
  <2>1. ASSUME NEW n \in ready, NEW p \in Parents(n)
        PROVE  nodeResults[p] \in Terminal /\ ~Terminating(p)
    BY <1>0, <1>1, <2>1, ParentsFinite DEF Released, AbortedMeans
  <2>2. \A n \in Node : Committed(n)' => n \in ready \/ Committed(n)
    BY <1>0 DEF Committed
  <2>3. QED  BY <1>0, <1>1, <2>1, <2>2 DEF CommittedBelow, Terminating
<1>5. SkipsCascade'
  BY <1>0, <1>1 DEF SkipsCascade, Ran
<1>6. QED
  BY <1>0, <1>1, <1>2, <1>3, <1>4, <1>5
  DEF BeforeHydration, ResultsOrigin, Counting, LayerOutsidePrologue, AbortedMeans, Terminating,
      LoopLeft, PendingIsExplained, StatusTellsTheOutcome

\* Releasing the children of a layer (executor.js:513-524) keeps the counts right.
LEMMA ReleaseLayerKeepsScheduler ==
  ASSUME IInv, ReleaseLayer
  PROVE  SchedulerInv' /\ PendingIsExplained' /\ StatusTellsTheOutcome'
<1> USE DEF IInv, SchedulerInv
<1>0. /\ pc = "schedule" /\ pc' = pc /\ initial' = initial /\ nodeResults' = nodeResults
      /\ layer # {} /\ layer' = {} /\ ready = {} /\ toEnter = {} /\ toEnter' = {} /\ ~aborted /\ ~aborted'
      /\ \A n \in layer : nodeResults[n] # "none"
      /\ \A m : Hydrated(m)' = Hydrated(m)
      /\ nodeResults \in [Node -> Row \cup {"pending"}] /\ layer \subseteq Node
  BY DEF ReleaseLayer, LayerSettled, Hydrated, TypeOK, ReadySet
<1>1. Releasing = {p \in layer : nodeResults[p] \in Terminal}
  BY <1>0 DEF Releasing, ResultsOrigin, Row, Settled, Terminal
<1>2. Released' = Released \cup Releasing /\ Released \cap Releasing = {}
  BY <1>0, <1>1 DEF Released
<1>3. \A n \in Node : remaining'[n] = Cardinality(Parents(n) \ Released')
  <2> SUFFICES ASSUME NEW n \in Node PROVE remaining'[n] = Cardinality(Parents(n) \ Released')
    OBVIOUS
  <2>1. remaining[n] = Cardinality(Parents(n) \ Released)
    BY <1>0 DEF Counting
  <2>2. /\ Parents(n) \ Released' = (Parents(n) \ Released) \ Releasing
        /\ (Parents(n) \ Released) \cap Releasing = Parents(n) \cap Releasing
    BY <1>2
  <2>3. IsFiniteSet(Parents(n) \ Released)
    BY ParentsFinite, FS_Difference
  <2>4. Cardinality(Parents(n) \ Released') =
          Cardinality(Parents(n) \ Released) - Cardinality(Parents(n) \cap Releasing)
    BY <2>2, <2>3, FS_Difference
  <2>5. QED  BY <2>1, <2>4 DEF ReleaseLayer
<1>4. \A n \in Node :
        /\ remaining[n] \in Nat /\ remaining'[n] \in Nat
        /\ remaining[n] = 0 <=> Parents(n) \subseteq Released
        /\ remaining'[n] = 0 <=> Parents(n) \subseteq Released'
  <2>1. \A n \in Node : remaining[n] = Cardinality(Parents(n) \ Released)
    BY <1>0 DEF Counting
  <2>2. \A n \in Node : remaining[n] \in Nat /\ (remaining[n] = 0 <=> Parents(n) \subseteq Released)
    BY <2>1, NoneLeft
  <2>3. \A n \in Node : remaining'[n] \in Nat /\ (remaining'[n] = 0 <=> Parents(n) \subseteq Released')
    BY <1>3, NoneLeft
  <2>4. QED  BY <2>2, <2>3
<1>5. \A n \in Node : n \in ready' <=>
        nodeResults[n] = "none" /\ ~(Parents(n) \subseteq Released) /\ Parents(n) \subseteq Released'
  BY <1>4 DEF ReleaseLayer, Pushed
<1>6. ReadySet'
  <2>1. \A n \in ready' : nodeResults'[n] = "none" /\ ~Hydrated(n)' /\ Parents(n) \subseteq Released'
    BY <1>0, <1>5 DEF ReleaseLayer, ResultsOrigin, Hydrated
  <2>2. ASSUME NEW n \in Node \ ready', nodeResults[n] = "none"
        PROVE  \E p \in Parents(n) : p \notin Released'
    <3>1. n \notin layer \cup ready
      BY <1>0, <2>2
    <3>2. ~(Parents(n) \subseteq Released)
      BY <1>0, <2>2, <3>1 DEF ReadySet
    <3>3. QED  BY <1>5, <2>2, <3>2
  <2>3. QED  BY <1>0, <2>1, <2>2 DEF ReadySet
<1>7. \A n \in Node : Committed(n)' => Committed(n)
  BY <1>0 DEF Committed
<1>8. CommittedBelow'
  BY <1>0, <1>7, ParentsFinite DEF CommittedBelow, Terminating
<1>9. SkipsCascade'
  BY <1>0 DEF SkipsCascade, Ran
<1>10. QED
  BY <1>0, <1>3, <1>6, <1>8, <1>9
  DEF BeforeHydration, ResultsOrigin, Counting, LayerOutsidePrologue, AbortedMeans, Terminating,
      LoopLeft, PendingIsExplained, StatusTellsTheOutcome

\* Leaving the loop, aborted or out of ready nodes, keeps the invariant.
LEMMA LeaveLoopKeepsScheduler ==
  ASSUME IInv, LeaveLoop
  PROVE  SchedulerInv' /\ PendingIsExplained' /\ StatusTellsTheOutcome'
<1> USE DEF IInv, SchedulerInv
<1>0. /\ pc = "schedule" /\ pc' = "finish" /\ initial' = initial /\ nodeResults' = nodeResults
      /\ layer' = layer /\ ready' = ready /\ toEnter' = toEnter /\ aborted' = aborted
      /\ remaining' = remaining
      /\ \A m : Hydrated(m)' = Hydrated(m)
      /\ nodeResults \in [Node -> Row \cup {"pending"}]
      /\ toEnter = {} /\ \A n \in layer : nodeResults[n] # "none"
  BY DEF LeaveLoop, LayerSettled, Hydrated, TypeOK
<1>1. Released' = Released
  BY <1>0 DEF Released
<1>2. LoopLeft'
  <2> SUFFICES ASSUME ~aborted, NEW n \in Node, nodeResults[n] = "none"
               PROVE  \E p \in Parents(n) : nodeResults[p] \in {"none", "waiting"}
    BY <1>0 DEF LoopLeft
  <2>1. layer = {} /\ ready = {}
    BY DEF LeaveLoop
  <2>2. PICK p \in Parents(n) : p \notin Released
    BY <1>0, <2>1 DEF ReadySet
  <2>3. p \in Node /\ nodeResults[p] \notin Terminal
    BY <2>1, <2>2, ParentsFinite DEF Released
  <2>4. nodeResults[p] \in {"none", "waiting"}
    BY <1>0, <2>3 DEF ResultsOrigin, Row, Settled
  <2>5. QED  BY <2>4
<1>3. \A n \in Node : (Committed(n)' <=> Committed(n)) /\ (Ran(n)' <=> Ran(n))
  BY <1>0 DEF Committed, Ran
<1>4. CommittedBelow' /\ SkipsCascade'
  BY <1>0, <1>3, DagAssumption DEF CommittedBelow, Terminating, SkipsCascade
<1>5. QED
  BY <1>0, <1>1, <1>2, <1>4
  DEF BeforeHydration, ResultsOrigin, Counting, ReadySet, LayerOutsidePrologue, AbortedMeans,
      Terminating, PendingIsExplained, StatusTellsTheOutcome

\* The aggregation (executor.js:540-553) and markRestPending give the verdict the
\* invariant asks for.
LEMMA FinishKeepsScheduler ==
  ASSUME IInv, Finish
  PROVE  SchedulerInv' /\ PendingIsExplained' /\ StatusTellsTheOutcome'
<1> USE DEF IInv, SchedulerInv
<1>0. /\ pc = "finish" /\ pc' = "done" /\ initial' = initial /\ layer' = layer
      /\ ready' = ready /\ toEnter' = toEnter /\ aborted' = aborted /\ remaining' = remaining
      /\ overall' = Aggregate
      /\ \A m : Hydrated(m)' = Hydrated(m)
      /\ nodeResults \in [Node -> Row \cup {"pending"}] /\ ready \subseteq Node /\ layer \subseteq Node
      /\ toEnter = {}
  BY DEF Finish, Hydrated, TypeOK, LayerOutsidePrologue
<1>1. \A n \in Node : /\ nodeResults[n] = "none" => nodeResults'[n] = "pending"
                      /\ nodeResults[n] # "none" => nodeResults'[n] = nodeResults[n]
                      /\ nodeResults[n] # "pending"
  BY <1>0 DEF Finish, ResultsOrigin
<1>2. \A n \in Node : \A s \in Settled : nodeResults'[n] = s <=> nodeResults[n] = s
  BY <1>1 DEF Settled, Terminal
<1>3. \A n \in Node : nodeResults'[n] \in Terminal <=> nodeResults[n] \in Terminal
  BY <1>2 DEF Settled
<1>4. Released' = Released
  BY <1>0, <1>3 DEF Released
<1>5. ReadySet' /\ Counting'
  BY <1>0, <1>4 DEF ReadySet, Counting, Finish
<1>6. \A n \in Node : (Committed(n)' <=> Committed(n)) /\ (Terminating(n)' <=> Terminating(n))
  BY <1>0, <1>2 DEF Committed, Terminating, Settled, Terminal
<1>7. CommittedBelow' /\ AbortedMeans'
  <2>1. CommittedBelow'
    BY <1>0, <1>3, <1>6, ParentsFinite DEF CommittedBelow
  <2>2. \A p \in Node : nodeResults[p] = "failed" => nodeResults'[p] = "failed"
    BY <1>1
  <2>3. AbortedMeans'
    BY <1>0, <1>6, <2>2, ExecutorAssumption DEF AbortedMeans
  <2>4. QED  BY <2>1, <2>3
<1>8. SkipsCascade'
  <2> SUFFICES ASSUME NEW e \in Edge, Ran(e[2])', nodeResults'[e[1]] = "skipped"
               PROVE  nodeResults'[e[2]] = "skipped"
    BY DEF SkipsCascade
  <2>1. e[1] \in Node /\ e[2] \in Node
    BY DagAssumption
  <2>2. Ran(e[2]) /\ nodeResults[e[1]] = "skipped"
    BY <1>0, <1>2, <2>1 DEF Ran, Settled, Terminal
  <2>3. QED  BY <1>1, <2>1, <2>2 DEF SkipsCascade
<1>9. PendingIsExplained'
  <2> SUFFICES ASSUME ~aborted, NEW n \in Node, nodeResults'[n] = "pending"
               PROVE  \E p \in Parents(n) : nodeResults'[p] \in {"waiting", "pending"}
    BY <1>0 DEF PendingIsExplained
  <2>1. nodeResults[n] = "none"
    BY <1>1
  <2>2. PICK p \in Parents(n) : nodeResults[p] \in {"none", "waiting"}
    BY <1>0, <2>1 DEF LoopLeft
  <2>3. QED  BY <1>1, <2>2, ParentsFinite
<1>10. StatusTellsTheOutcome'
  <2>1. CASE aborted
    <3>1. PICK p \in Terminates : nodeResults[p] = "failed" /\ ~Hydrated(p)
      BY <2>1 DEF AbortedMeans
    <3>2. nodeResults'[p] = "failed"
      BY <1>1, <3>1, ExecutorAssumption
    <3>3. QED  BY <1>0, <2>1, <3>1, <3>2 DEF StatusTellsTheOutcome, Aggregate
  <2>2. CASE ~aborted /\ SomeNode("failed")
    BY <1>0, <1>1, <2>2 DEF StatusTellsTheOutcome, Aggregate, SomeNode
  <2>3. CASE ~aborted /\ ~SomeNode("failed") /\ SomeNode("waiting")
    <3>1. SomeNode("waiting")' /\ ~SomeNode("failed")'
      BY <1>2, <2>3 DEF SomeNode, Settled, Terminal
    <3>2. QED  BY <1>0, <2>3, <3>1 DEF StatusTellsTheOutcome, Aggregate
  <2>4. CASE ~aborted /\ ~SomeNode("failed") /\ ~SomeNode("waiting")
    <3>1. \A n \in Node : nodeResults'[n] \notin {"failed", "waiting"}
      BY <1>2, <2>4 DEF SomeNode, Settled, Terminal
    <3> DEFINE P == {n \in Node : nodeResults'[n] = "pending"}
    <3>2. P = {}
      <4> SUFFICES ASSUME P # {} PROVE FALSE
        OBVIOUS
      <4>1. PICK n \in P : Parents(n) \cap P = {}
        BY DagAssumption DEF Acyclic
      <4>2. PICK p \in Parents(n) : nodeResults'[p] \in {"waiting", "pending"}
        BY <1>0, <1>9, <2>4, <4>1 DEF PendingIsExplained
      <4>3. QED  BY <3>1, <4>1, <4>2, ParentsFinite
    <3>3. \A n \in Node : nodeResults'[n] \in {"success", "skipped"}
      BY <1>0, <1>1, <3>1, <3>2 DEF Row, Settled, Terminal
    <3>4. QED  BY <1>0, <2>4, <3>3 DEF StatusTellsTheOutcome, Aggregate
  <2>5. QED  BY <2>1, <2>2, <2>3, <2>4
<1>11. ResultsOrigin'
  BY <1>0, <1>1 DEF ResultsOrigin, Hydrated
<1>12. LayerOutsidePrologue'
  BY <1>0, <1>1 DEF LayerOutsidePrologue
<1>13. QED
  BY <1>0, <1>5, <1>7, <1>8, <1>9, <1>10, <1>11, <1>12 DEF BeforeHydration, LoopLeft

-----------------------------------------------------------------------------
(***************************************************************************)
(* The calls' part of the invariant.                                       *)
(***************************************************************************)
\* A plain node has a single call.
LEMMA PlainCall ==
  ASSUME NEW c \in Call, NEW d \in Call, c[1] = d[1], c[1] \notin Batch PROVE c = d
BY ExecutorAssumption DEF Call, CallsOf

\* A node that enters makes calls of its own only.
LEMMA EnterKeepsCalls ==
  ASSUME IInv, TypeOK', NEW n \in Node, Enter(n) PROVE CallsBelong'
<1>0. NodeStep(n)
  BY EnterIsNodeStep
<1>1. /\ pc' = pc /\ pc # "hydrate" /\ layer' = layer /\ n \in layer /\ toEnter' = toEnter \ {n}
      /\ n \in toEnter /\ nodeResults[n] = "none"
      /\ \A m \in Node \ {n} : nodeResults'[m] = nodeResults[m]
  BY <1>0 DEF NodeStep, schedVars, Enter, EnterUnderSkippedParent, GateCloses, GateThrows,
              InputsFail, Invoke, Entering
<1>2. \A c \in Call : c[1] # n => calls'[c] = calls[c]
  <2>1. CASE UNCHANGED callVars
    BY <2>1 DEF callVars
  <2>2. CASE Invoke(n)
    BY <2>2, CallsOfInCall DEF Invoke
  <2>3. QED
    BY <2>1, <2>2 DEF Enter, EnterUnderSkippedParent, GateCloses, GateThrows, InputsFail, RecordAtEntry
<1>3. \A c \in Call : c[1] = n =>
        /\ calls[c] = "idle"
        /\ calls'[c] \in {"calling", "backoff"} /\ nodeResults'[n] # "none" =>
             n \in Batch /\ nodeResults'[n] = "failed"
  <2> SUFFICES ASSUME NEW c \in Call, c[1] = n
               PROVE  /\ calls[c] = "idle"
                      /\ calls'[c] \in {"calling", "backoff"} /\ nodeResults'[n] # "none" =>
                           n \in Batch /\ nodeResults'[n] = "failed"
    OBVIOUS
  <2>1. calls[c] = "idle"
    BY <1>1 DEF IInv, CallsBelong, Awaited
  <2>2. CASE UNCHANGED callVars
    BY <2>1, <2>2 DEF callVars
  <2>3. CASE Invoke(n)
    <3>1. PICK bad \in SUBSET CallsOf(n) :
            /\ bad # {} => n \in Batch
            /\ nodeResults' = [nodeResults EXCEPT ![n] =
                                 IF bad # {} THEN "failed"
                                 ELSE IF Items[n] = 0 THEN "success" ELSE "none"]
      BY <2>3 DEF Invoke
    <3>2. Items[n] # 0
      BY CallNode, ExecutorAssumption DEF CallsOf
    <3>3. QED  BY <2>1, <3>1, <3>2 DEF IInv, TypeOK
  <2>4. QED
    BY <2>1, <2>2, <2>3 DEF Enter, EnterUnderSkippedParent, GateCloses, GateThrows, InputsFail, RecordAtEntry
<1>4. QED
  BY <1>1, <1>2, <1>3, CallNode DEF IInv, CallsBelong, Awaited

\* A step of a call keeps the calls of every node in the states its result allows.
LEMMA CallStepKeepsCalls ==
  ASSUME IInv, TypeOK', NEW c \in Call, CallStep(c) PROVE CallsBelong'
<1>0. /\ pc' = pc /\ layer' = layer /\ toEnter' = toEnter /\ c[1] \in Node
      /\ \A d \in Call : d # c => calls'[d] = calls[d]
      /\ calls[c] # "idle" \/ calls' = calls
  BY CallNode DEF CallStep, AttemptSucceeds, AttemptWaits, AttemptThrows, AttemptTimesOut,
                  AttemptLost, Retry, ZombieEnds, schedVars, IInv, TypeOK
<1>1. NodeStep(c[1]) \/ SchedulerIdle
  BY CallStepIsNodeStep
<1>2. \A m \in Node : nodeResults[m] # "none" => nodeResults'[m] = nodeResults[m]
  BY <1>1 DEF NodeStep, SchedulerIdle
<1>3. \A m \in Node : m # c[1] => nodeResults'[m] = nodeResults[m]
  BY <1>0, <1>1 DEF NodeStep, SchedulerIdle
<1>4. \A d \in Call :
        /\ d[1] \notin layer \ toEnter /\ nodeResults'[d[1]] = "none" => calls'[d] = "idle"
        /\ pc = "hydrate" => calls'[d] = "idle"
  BY <1>0, <1>2, CallNode DEF IInv, CallsBelong, Awaited
<1>5. ASSUME NEW d \in Call, calls'[d] \in {"calling", "backoff"}, nodeResults'[d[1]] # "none"
      PROVE  d[1] \in Batch /\ nodeResults'[d[1]] = "failed"
  <2>0. d[1] \in Node
    BY CallNode
  <2>1. CASE nodeResults[d[1]] # "none" /\ calls[d] \in {"calling", "backoff"}
    BY <1>2, <2>0, <2>1 DEF IInv, CallsBelong, Awaited
  <2>2. CASE calls[d] \notin {"calling", "backoff"}
    BY <1>0, <1>5, <2>2 DEF CallStep, AttemptSucceeds, AttemptWaits, AttemptThrows,
         AttemptTimesOut, AttemptLost, Retry, ZombieEnds, IInv, TypeOK
  <2>3. CASE nodeResults[d[1]] = "none"
    <3>1. d[1] = c[1] /\ nodeResults' # nodeResults
      BY <1>3, <1>5, <2>0, <2>3
    <3>2. CASE AttemptSucceeds(c)
      <4>1. calls'[d] = "ok"
        BY <1>5, <2>3, <3>1, <3>2, CallNode DEF AttemptSucceeds
      <4>2. QED  BY <1>5, <4>1
    <3>3. CASE AttemptWaits(c)
      <4>1. d = c
        BY <3>1, <3>3, PlainCall DEF AttemptWaits
      <4>2. QED  BY <1>5, <3>3, <4>1 DEF AttemptWaits, IInv, TypeOK
    <3>4. CASE AttemptLost(c) /\ calls[c] = "calling"
      <4>1. nodeResults' = [nodeResults EXCEPT ![c[1]] = "failed"] /\ calls'[c] = "failed"
        BY <3>1, <3>4 DEF AttemptLost, IInv, TypeOK
      <4>2. d # c /\ nodeResults'[d[1]] = "failed"
        BY <1>0, <1>5, <3>1, <4>1 DEF IInv, TypeOK
      <4>3. QED  BY <3>1, <4>2, PlainCall
    <3>5. CASE Retry(c) \/ ZombieEnds(c)
      BY <3>1, <3>5 DEF Retry, ZombieEnds
    <3>6. QED
      BY <3>2, <3>3, <3>4, <3>5 DEF CallStep, AttemptThrows, AttemptTimesOut
  <2>4. QED  BY <2>1, <2>2, <2>3
<1>6. QED  BY <1>0, <1>4, <1>5 DEF CallsBelong, Awaited

\* The scheduler's own steps do not touch the calls.
LEMMA SchedulerKeepsCalls ==
  ASSUME IInv, Hydrate \/ TakeLayer \/ ReleaseLayer \/ LeaveLoop \/ Finish PROVE CallsBelong'
<1> USE DEF IInv, CallsBelong, Awaited, callVars
<1>0. calls' = calls /\ \A c \in Call : c[1] \in Node
  BY CallNode DEF Hydrate, TakeLayer, ReleaseLayer, LeaveLoop, Finish
<1>1. CASE Hydrate
  BY <1>0, <1>1 DEF Hydrate
<1>2. CASE TakeLayer
  BY <1>0, <1>2 DEF TakeLayer
<1>3. CASE ReleaseLayer
  BY <1>0, <1>3 DEF ReleaseLayer, LayerSettled
<1>4. CASE LeaveLoop
  BY <1>0, <1>4 DEF LeaveLoop
<1>5. CASE Finish
  <2>1. \A n \in Node : nodeResults[n] = "none" => n \notin layer \ toEnter
    BY <1>5 DEF Finish, SchedulerInv, LayerOutsidePrologue
  <2>2. \A n \in Node : /\ nodeResults[n] = "none" => nodeResults'[n] = "pending"
                        /\ nodeResults[n] # "none" => nodeResults'[n] = nodeResults[n]
    BY <1>5 DEF Finish
  <2>3. pc' = "done"
    BY <1>5 DEF Finish
  <2>4. QED  BY <1>0, <2>1, <2>2, <2>3
<1>6. QED  BY <1>1, <1>2, <1>3, <1>4, <1>5

-----------------------------------------------------------------------------
(***************************************************************************)
(* The inductive invariant and the theorems.                               *)
(***************************************************************************)
\* The invariant holds of a fresh run.
LEMMA InvInit == Init => IInv
<1> SUFFICES ASSUME Init PROVE IInv
  OBVIOUS
<1>1. TypeOK
  BY TypeInit
<1>2. CallsBelong
  BY DEF Init, CallsBelong
<1>3. \A n \in Node : ~Committed(n) /\ ~Ran(n)
  BY DEF Init, Committed, Ran, Settled, Terminal
<1>4. SkipsCascade
  BY <1>3, DagAssumption DEF SkipsCascade
<1>5. SchedulerInv
  BY <1>3, <1>4 DEF Init, SchedulerInv, BeforeHydration, ResultsOrigin, Counting, ReadySet,
                    LayerOutsidePrologue, CommittedBelow, AbortedMeans, LoopLeft
<1>6. QED
  BY <1>1, <1>2, <1>5 DEF Init, IInv, PendingIsExplained, StatusTellsTheOutcome

\* The invariant is inductive.
LEMMA InvNext == IInv /\ [Next]_vars => IInv'
<1> SUFFICES ASSUME IInv, [Next]_vars PROVE IInv'
  OBVIOUS
<1>0. TypeOK'
  BY TypeNext DEF IInv
<1>1. CASE UNCHANGED vars
  <2>1. SchedulerIdle /\ pc' = pc /\ calls' = calls /\ nodeResults' = nodeResults
        /\ layer' = layer /\ toEnter' = toEnter
    BY <1>1 DEF vars, SchedulerIdle, schedVars
  <2>2. CallsBelong'
    BY <2>1 DEF IInv, CallsBelong, Awaited
  <2>3. QED  BY <1>0, <2>1, <2>2, IdleKeepsScheduler DEF IInv
<1>2. ASSUME NEW n \in Node, Enter(n) PROVE IInv'
  BY <1>0, <1>2, EnterIsNodeStep, NodeStepKeepsScheduler, EnterKeepsCalls DEF IInv
<1>3. ASSUME NEW c \in Call, CallStep(c) PROVE IInv'
  BY <1>0, <1>3, CallNode, CallStepIsNodeStep, NodeStepKeepsScheduler, IdleKeepsScheduler,
     CallStepKeepsCalls DEF IInv
<1>4. CASE Hydrate
  BY <1>0, <1>4, HydrateKeepsScheduler, SchedulerKeepsCalls DEF IInv
<1>5. CASE TakeLayer
  BY <1>0, <1>5, TakeLayerKeepsScheduler, SchedulerKeepsCalls DEF IInv
<1>6. CASE ReleaseLayer
  BY <1>0, <1>6, ReleaseLayerKeepsScheduler, SchedulerKeepsCalls DEF IInv
<1>7. CASE LeaveLoop
  BY <1>0, <1>7, LeaveLoopKeepsScheduler, SchedulerKeepsCalls DEF IInv
<1>8. CASE Finish
  BY <1>0, <1>8, FinishKeepsScheduler, SchedulerKeepsCalls DEF IInv
<1>9. QED  BY <1>1, <1>2, <1>3, <1>4, <1>5, <1>6, <1>7, <1>8 DEF Next

\* The scheduler keeps its inductive invariant: types, the counters of the layer loop,
\* the origin of every result, what an abort means, and the states of the calls.
THEOREM Invariance == Spec => []IInv
BY InvInit, InvNext, PTL DEF Spec

\* A node runs only when each of its parents has ended for good.
THEOREM ParentsEndFirst == Spec => []ParentsEndedFirst
<1>1. IInv => ParentsEndedFirst
  <2> SUFFICES ASSUME IInv, NEW e \in Edge, Ran(e[2]) PROVE nodeResults[e[1]] \in Terminal
    BY DEF ParentsEndedFirst
  <2>1. e[1] \in Parents(e[2]) /\ e[2] \in Node
    BY DagAssumption DEF Parents
  <2>2. Committed(e[2])
    BY <2>1 DEF IInv, SchedulerInv, BeforeHydration, Ran, Committed, Settled, Terminal
  <2>3. QED  BY <2>1, <2>2 DEF IInv, SchedulerInv, CommittedBelow
<1>2. QED  BY <1>1, Invariance, PTL

\* Whatever ran below a skipped node was skipped.
THEOREM SkipsReachDescendants == Spec => []SkipsCascade
BY Invariance, PTL DEF IInv, SchedulerInv

\* Nothing runs below a terminating failure of this run, executeIf aside.
THEOREM FailureShieldsDescendants == Spec => []NothingBelowATerminatingFailure
<1>1. IInv => NothingBelowATerminatingFailure
  <2> SUFFICES ASSUME IInv, NEW e \in Edge, Ran(e[2]), nodeResults[e[1]] = "failed",
                      e[1] \in Terminates, ~Hydrated(e[1]), e[1] \notin Gated
               PROVE  FALSE
    BY DEF NothingBelowATerminatingFailure
  <2>1. e[1] \in Parents(e[2]) /\ e[2] \in Node
    BY DagAssumption DEF Parents
  <2>2. Committed(e[2])
    BY <2>1 DEF IInv, SchedulerInv, BeforeHydration, Ran, Committed, Settled, Terminal
  <2>3. QED  BY <2>1, <2>2 DEF IInv, SchedulerInv, CommittedBelow, Terminating
<1>2. QED  BY <1>1, Invariance, PTL

\* A run that was not aborted leaves nodes pending only below waiting ones.
THEOREM PendingHasAReason == Spec => []PendingIsExplained
BY Invariance, PTL DEF IInv

\* The returned status says what became of the nodes; success in particular
\* covers every declared node, because the graph has no cycle.
THEOREM StatusIsTruthful == Spec => []StatusTellsTheOutcome
BY Invariance, PTL DEF IInv

\* Only the items of a failed batch go on calling a plugin behind the run.
THEOREM StragglersBelongToBatches == Spec => []StragglersAreBatchItems
<1>1. IInv => StragglersAreBatchItems
  BY DEF IInv, CallsBelong, StragglersAreBatchItems
<1>2. QED  BY <1>1, Invariance, PTL

\* A recorded outcome is never overwritten within a run.
THEOREM OutcomesNeverChange == Spec => OutcomesAreFinal
<1> DEFINE Kept == \A n \in Node : pc # "hydrate" /\ nodeResults[n] # "none" =>
                                   nodeResults'[n] = nodeResults[n]
<1>1. ASSUME IInv, [Next]_vars PROVE Kept
  <2>1. ASSUME NEW n \in Node, Enter(n) PROVE Kept
    BY <1>1, <2>1, EnterIsNodeStep DEF NodeStep
  <2>2. ASSUME NEW c \in Call, CallStep(c) PROVE Kept
    BY <1>1, <2>2, CallStepIsNodeStep DEF NodeStep, SchedulerIdle
  <2>3. CASE UNCHANGED vars
    BY <2>3 DEF vars
  <2>4. CASE Hydrate
    BY <2>4 DEF Hydrate
  <2>5. CASE TakeLayer \/ ReleaseLayer \/ LeaveLoop
    BY <2>5 DEF TakeLayer, ReleaseLayer, LeaveLoop
  <2>6. CASE Finish
    BY <2>6 DEF Finish
  <2>7. QED  BY <1>1, <2>1, <2>2, <2>3, <2>4, <2>5, <2>6 DEF Next
<1>2. QED  BY <1>1, Invariance, PTL DEF Spec, OutcomesAreFinal

-----------------------------------------------------------------------------
(***************************************************************************)
(* The retry budget.                                                       *)
(***************************************************************************)
\* A call in backoff has an attempt left, and what still runs in the plugin was
\* once an attempt.
Budget ==
  \A c \in Call :
    /\ attempts[c] <= Retries[c[1]] + 1
    /\ calls[c] = "backoff" => attempts[c] <= Retries[c[1]]
    /\ calls[c] = "idle" => attempts[c] = 0
    /\ zombies[c] + (IF calls[c] = "calling" THEN 1 ELSE 0) <= attempts[c]

\* A node that enters starts its calls at their first attempt.
LEMMA EnterKeepsBudget ==
  ASSUME IInv, Budget, NEW n \in Node, Enter(n) PROVE Budget'
<1>1. CASE UNCHANGED callVars
  BY <1>1 DEF Budget, callVars
<1>2. CASE Invoke(n)
  <2>1. zombies' = zombies /\ zombies \in [Call -> Nat] /\ attempts \in [Call -> Nat]
    BY <1>2 DEF Invoke, IInv, TypeOK
  <2>2. PICK bad \in SUBSET CallsOf(n) :
          /\ calls' = [d \in Call |-> IF d \in bad THEN "failed"
                                      ELSE IF d \in CallsOf(n) THEN "calling" ELSE calls[d]]
          /\ attempts' = [d \in Call |-> IF d \in CallsOf(n) \ bad THEN 1 ELSE attempts[d]]
    BY <1>2 DEF Invoke
  <2>3. \A c \in CallsOf(n) : calls[c] = "idle" /\ c \in Call
    <3>1. n \in toEnter
      BY <1>2 DEF Invoke, Entering
    <3>2. nodeResults[n] = "none"
      BY <3>1 DEF IInv, SchedulerInv, LayerOutsidePrologue
    <3>3. QED  BY <3>1, <3>2, CallsOfInCall DEF IInv, CallsBelong, Awaited
  <2>4. ASSUME NEW c \in Call, c \in CallsOf(n)
        PROVE  /\ attempts'[c] <= Retries[c[1]] + 1
               /\ calls'[c] \in {"failed", "calling"}
               /\ zombies'[c] + (IF calls'[c] = "calling" THEN 1 ELSE 0) <= attempts'[c]
    <3>1. Retries[c[1]] \in Nat
      BY CallNode, ExecutorAssumption
    <3>2. attempts[c] = 0 /\ zombies[c] = 0
      BY <2>1, <2>3, <2>4 DEF Budget
    <3>3. CASE c \in bad
      BY <2>1, <2>2, <3>1, <3>2, <3>3
    <3>4. CASE c \notin bad
      BY <2>1, <2>2, <2>4, <3>1, <3>2, <3>4
    <3>5. QED  BY <3>3, <3>4
  <2>5. \A c \in Call : c \notin CallsOf(n) =>
          calls'[c] = calls[c] /\ attempts'[c] = attempts[c] /\ zombies'[c] = zombies[c]
    BY <2>1, <2>2
  <2>6. QED  BY <2>4, <2>5 DEF Budget
<1>3. QED
  BY <1>1, <1>2 DEF Enter, EnterUnderSkippedParent, GateCloses, GateThrows, InputsFail, RecordAtEntry

\* A retry happens only below the budget (executor.js:389-396).
LEMMA CallStepKeepsBudget ==
  ASSUME TypeOK, Budget, NEW c \in Call, CallStep(c) PROVE Budget'
<1>0. /\ Retries[c[1]] \in Nat /\ attempts \in [Call -> Nat] /\ zombies \in [Call -> Nat]
      /\ calls \in [Call -> {"idle", "calling", "backoff", "ok", "failed"}]
  BY CallNode, ExecutorAssumption DEF TypeOK
<1>1. \A d \in Call : d # c =>
        calls'[d] = calls[d] /\ attempts'[d] = attempts[d] /\ zombies'[d] = zombies[d]
  BY <1>0 DEF CallStep, AttemptSucceeds, AttemptWaits, AttemptThrows, AttemptTimesOut, AttemptLost,
              Retry, ZombieEnds
<1>2. CASE AttemptSucceeds(c) \/ AttemptWaits(c)
  <2>1. calls[c] = "calling" /\ calls'[c] = "ok" /\ attempts' = attempts /\ zombies' = zombies
    BY <1>0, <1>2 DEF AttemptSucceeds, AttemptWaits
  <2>2. QED  BY <1>0, <1>1, <2>1 DEF Budget
<1>3. CASE AttemptThrows(c) \/ AttemptTimesOut(c)
  <2>1. /\ calls[c] = "calling" /\ attempts' = attempts
        /\ zombies'[c] \in {zombies[c], zombies[c] + 1}
    BY <1>0, <1>3 DEF AttemptThrows, AttemptTimesOut
  <2>2. calls'[c] = IF attempts[c] <= Retries[c[1]] THEN "backoff" ELSE "failed"
    BY <1>0, <1>3 DEF AttemptThrows, AttemptTimesOut, AttemptLost, MayRetry
  <2>3. QED  BY <1>0, <1>1, <2>1, <2>2 DEF Budget
<1>4. CASE Retry(c)
  <2>1. /\ calls[c] = "backoff" /\ calls'[c] = "calling" /\ zombies' = zombies
        /\ attempts'[c] = attempts[c] + 1
    BY <1>0, <1>4 DEF Retry
  <2>2. QED  BY <1>0, <1>1, <2>1 DEF Budget
<1>5. CASE ZombieEnds(c)
  <2>1. calls' = calls /\ attempts' = attempts /\ zombies[c] > 0 /\ zombies'[c] = zombies[c] - 1
    BY <1>0, <1>5 DEF ZombieEnds
  <2>2. QED  BY <1>0, <1>1, <2>1 DEF Budget
<1>6. QED  BY <1>2, <1>3, <1>4, <1>5 DEF CallStep

\* No call makes more attempts than its retry budget allows, and no more
\* invocations of it run in the plugin than it made attempts.
THEOREM RetriesAreBounded == Spec => []RetryBudgetHolds
<1>1. Init => Budget
  BY CallNode, ExecutorAssumption DEF Init, Budget
<1>2. ASSUME IInv, Budget, [Next]_vars PROVE Budget'
  <2>1. CASE UNCHANGED callVars
    BY <1>2, <2>1 DEF Budget, callVars
  <2>2. ASSUME NEW n \in Node, Enter(n) PROVE Budget'
    BY <1>2, <2>2, EnterKeepsBudget
  <2>3. ASSUME NEW c \in Call, CallStep(c) PROVE Budget'
    BY <1>2, <2>3, CallStepKeepsBudget DEF IInv
  <2>4. QED
    BY <1>2, <2>1, <2>2, <2>3
    DEF Next, Hydrate, TakeLayer, ReleaseLayer, LeaveLoop, Finish, vars, callVars
<1>3. Budget => RetryBudgetHolds
  BY DEF Budget, RetryBudgetHolds
<1>4. QED  BY <1>1, <1>2, <1>3, Invariance, PTL DEF Spec

-----------------------------------------------------------------------------
(***************************************************************************)
(* The layered scheduler implements the run of DagRun: initial states map  *)
(* to initial states and every step to a step of DagRun or to a stutter.   *)
(***************************************************************************)
\* executeDag computes its status last.
VerdictLast == pc # "done" => overall = "none"

\* There is a verdict only once the run is over.
LEMMA VerdictComesLast == Spec => []VerdictLast
<1>1. Init => VerdictLast
  BY DEF Init, VerdictLast
<1>2. VerdictLast /\ [Next]_vars => VerdictLast'
  <2> SUFFICES ASSUME VerdictLast, [Next]_vars PROVE VerdictLast'
    OBVIOUS
  <2>1. CASE UNCHANGED <<pc, overall>>
    BY <2>1 DEF VerdictLast
  <2>2. ASSUME NEW n \in Node, Enter(n) PROVE UNCHANGED <<pc, overall>>
    BY <2>2 DEF Enter, EnterUnderSkippedParent, GateCloses, GateThrows, InputsFail, Invoke,
                Entering, schedVars
  <2>3. ASSUME NEW c \in Call, CallStep(c) PROVE UNCHANGED <<pc, overall>>
    BY <2>3 DEF CallStep, AttemptSucceeds, AttemptWaits, AttemptThrows, AttemptTimesOut, Retry,
                ZombieEnds, schedVars
  <2>4. CASE Hydrate \/ TakeLayer \/ ReleaseLayer \/ LeaveLoop \/ Finish
    BY <2>4 DEF Hydrate, TakeLayer, ReleaseLayer, LeaveLoop, Finish, VerdictLast
  <2>5. QED  BY <2>1, <2>2, <2>3, <2>4 DEF Next, vars
<1>3. QED  BY <1>1, <1>2, PTL DEF Spec

-----------------------------------------------------------------------------
\* DagRun speaks of the same graph and the same outcomes.
LEMMA SameVocabulary ==
  (\A n : Run!Parents(n) = Parents(n)) /\ Run!Settled = Settled /\ Run!Terminal = Terminal
BY DEF Run!Parents, Parents, Run!Settled, Settled, Run!Terminal, Terminal

\* A fresh scheduler is a fresh run.
LEMMA InitRefines == Init => Run!Init
<1> SUFFICES ASSUME Init PROVE Run!Init
  OBVIOUS
<1>1. OutcomeSeen \in [Node -> {"idle"} \cup Settled]
  BY DEF Init, OutcomeSeen, Row
<1>2. QED  BY <1>1, SameVocabulary DEF Init, Run!Init

\* A node that enters or settles is a step of the abstract run, or invisible to it.
LEMMA NodeStepRefines ==
  ASSUME IInv, TypeOK', NEW n \in Node, NodeStep(n)
  PROVE  Run!Next \/ UNCHANGED Run!runVars
<1>0. /\ pc = "schedule" /\ pc' = "schedule" /\ layer' = layer /\ n \in layer
      /\ nodeResults[n] = "none" /\ overall' = overall /\ initial' = initial
      /\ \A m \in Node \ {n} : nodeResults'[m] = nodeResults[m]
      /\ nodeResults'[n] \in Settled \cup {"none"}
      /\ aborted \in BOOLEAN
  BY DEF NodeStep, schedVars, IInv, TypeOK
<1>1. CASE nodeResults'[n] = "none"
  <2>1. OutcomeSeen' = OutcomeSeen
    BY <1>0, <1>1 DEF OutcomeSeen
  <2>2. aborted' = aborted
    <3>1. aborted' \in BOOLEAN /\ (aborted => aborted') /\ (aborted' => aborted)
      BY <1>1 DEF NodeStep, TypeOK
    <3>2. CASE aborted = TRUE
      BY <3>1, <3>2
    <3>3. CASE aborted = FALSE
      BY <3>1, <3>3
    <3>4. QED  BY <1>0, <3>2, <3>3
  <2>3. QED  BY <1>0, <2>1, <2>2 DEF Run!runVars
<1>2. CASE nodeResults'[n] \in Settled
  <2> DEFINE s == nodeResults'[n]
  <2>1. n \in Run!Is("active")
    BY <1>0 DEF Run!Is, OutcomeSeen
  <2>2. (\E p \in Parents(n) : OutcomeSeen[p] = "skipped") => s = "skipped"
    <3> SUFFICES ASSUME NEW p \in Parents(n), OutcomeSeen[p] = "skipped" PROVE s = "skipped"
      OBVIOUS
    <3>1. nodeResults[p] = "skipped"
      BY <1>0, ParentsFinite DEF OutcomeSeen
    <3>2. QED  BY <3>1 DEF NodeStep, SkippedParent
  <2>3. OutcomeSeen' = [OutcomeSeen EXCEPT ![n] = s]
    BY <1>0, <1>2 DEF OutcomeSeen, Settled, Terminal
  <2>4. aborted' \in {aborted, aborted \/ (s = "failed" /\ n \in Terminates)}
    <3>1. aborted' \in BOOLEAN
      BY DEF TypeOK
    <3>2. /\ aborted => aborted'
          /\ aborted' => aborted \/ (s = "failed" /\ n \in Terminates)
      BY DEF NodeStep
    <3>3. QED  BY <1>0, <3>1, <3>2, Zenon
  <2>5. Run!Settle(n, s)
    BY <1>0, <2>1, <2>2, <2>3, <2>4, SameVocabulary DEF Run!Settle
  <2>6. QED  BY <1>2, <2>5, SameVocabulary, ParentsFinite DEF Run!Next
<1>3. QED  BY <1>0, <1>1, <1>2

\* Taking a layer of one or more ready nodes is a step of the abstract run.
LEMMA TakeLayerRefines ==
  ASSUME IInv, VerdictLast, TakeLayer PROVE Run!Next
<1>0. /\ pc = "schedule" /\ pc' = pc /\ nodeResults' = nodeResults /\ layer = {} /\ layer' = ready
      /\ ~aborted /\ aborted' = aborted /\ overall' = overall /\ overall = "none"
      /\ ready \subseteq Node
      /\ \A n \in ready : nodeResults[n] = "none" /\ Parents(n) \subseteq Released
  BY DEF TakeLayer, VerdictLast, IInv, SchedulerInv, ReadySet, TypeOK
<1>1. ready \in SUBSET Run!Startable
  <2> SUFFICES ASSUME NEW n \in ready PROVE n \in Run!Startable
    OBVIOUS
  <2>1. n \in Node /\ OutcomeSeen[n] = "idle"
    BY <1>0 DEF OutcomeSeen
  <2>2. \A p \in Parents(n) : OutcomeSeen[p] \in Terminal
    BY <1>0, ParentsFinite DEF OutcomeSeen, Released, Terminal
  <2>3. QED  BY <2>1, <2>2, SameVocabulary DEF Run!Startable, Run!Is
<1>2. OutcomeSeen' = [n \in Node |-> IF n \in ready THEN "active" ELSE OutcomeSeen[n]]
  BY <1>0 DEF OutcomeSeen
<1>3. Run!Start(ready, {})
  BY <1>0, <1>2 DEF Run!Start
<1>4. {} \in SUBSET ready
  OBVIOUS
<1>5. QED  BY <1>1, <1>3, <1>4 DEF Run!Next

\* The abstract run does not see hydration, releases and the end of the loop.
LEMMA QuietStepRefines ==
  ASSUME IInv, Hydrate \/ ReleaseLayer \/ LeaveLoop \/ SchedulerIdle
  PROVE  UNCHANGED Run!runVars
<1>1. overall' = overall /\ aborted' = aborted
  BY DEF Hydrate, ReleaseLayer, LeaveLoop, SchedulerIdle, schedVars
<1>2. OutcomeSeen' = OutcomeSeen
  <2>1. CASE Hydrate
    BY <2>1 DEF Hydrate, HydratedResults, OutcomeSeen, IInv, SchedulerInv, BeforeHydration, TypeOK
  <2>2. CASE ReleaseLayer
    BY <2>2 DEF ReleaseLayer, LayerSettled, OutcomeSeen
  <2>3. CASE LeaveLoop
    BY <2>3 DEF LeaveLoop, OutcomeSeen
  <2>4. CASE SchedulerIdle
    BY <2>4 DEF SchedulerIdle, schedVars, OutcomeSeen
  <2>5. QED  BY <2>1, <2>2, <2>3, <2>4
<1>3. QED  BY <1>1, <1>2 DEF Run!runVars

\* Marking the rest pending and aggregating is the abstract run's end.
LEMMA FinishRefines ==
  ASSUME IInv, VerdictLast, Finish PROVE Run!Next
<1>0. /\ pc = "finish" /\ pc' = "done" /\ layer' = layer /\ aborted' = aborted
      /\ overall = "none" /\ overall' = Aggregate
      /\ \A n \in layer : nodeResults[n] # "none"
      /\ \A n \in Node : nodeResults'[n] = IF nodeResults[n] = "none" THEN "pending" ELSE nodeResults[n]
  BY DEF Finish, VerdictLast, IInv, SchedulerInv, LayerOutsidePrologue
<1>1. \A n \in Node : OutcomeSeen[n] = IF nodeResults[n] = "none" THEN "idle" ELSE nodeResults[n]
  BY <1>0 DEF OutcomeSeen
<1>2. \A n \in Node : nodeResults[n] \in Row
  BY <1>0 DEF IInv, TypeOK, SchedulerInv, ResultsOrigin
<1>3. Run!Is("active") = {}
  BY <1>1, <1>2 DEF Run!Is, Row, Settled, Terminal
<1>4. aborted \/ Run!Startable = {}
  <2> SUFFICES ASSUME ~aborted, NEW n \in Run!Startable PROVE FALSE
    OBVIOUS
  <2>1. /\ n \in Node /\ OutcomeSeen[n] = "idle"
        /\ \A p \in Parents(n) : OutcomeSeen[p] \in Terminal
    BY SameVocabulary DEF Run!Startable, Run!Is
  <2>2. nodeResults[n] = "none"
    BY <1>1, <1>2, <2>1 DEF Row, Settled, Terminal
  <2>3. PICK p \in Parents(n) : nodeResults[p] \in {"none", "waiting"}
    BY <1>0, <2>1, <2>2 DEF IInv, SchedulerInv, LoopLeft
  <2>4. QED  BY <1>1, <2>1, <2>3, ParentsFinite DEF Terminal
<1>5. OutcomeSeen' = [n \in Node |-> IF OutcomeSeen[n] = "idle" THEN "pending" ELSE OutcomeSeen[n]]
  BY <1>0, <1>1, <1>2 DEF OutcomeSeen, Row, Settled, Terminal
<1>6. \A s \in {"failed", "waiting"} : Run!Is(s) # {} <=> SomeNode(s)
  BY <1>1 DEF Run!Is, SomeNode
<1>7. Run!End
  BY <1>0, <1>3, <1>4, <1>5, <1>6 DEF Run!End, Aggregate
<1>8. QED  BY <1>7 DEF Run!Next

\* What a caller sees of executeDag is a run of DagRun: nothing starts early or
\* twice, a stop lets only started nodes settle, and the run ends when nothing
\* more may start.
THEOREM SchedulerImplementsRun == Spec => ImplementsDagRun
<1>1. ASSUME IInv, TypeOK', VerdictLast, [Next]_vars
      PROVE  Run!Next \/ UNCHANGED Run!runVars
  <2>1. ASSUME NEW n \in Node, Enter(n) PROVE Run!Next \/ UNCHANGED Run!runVars
    BY <1>1, <2>1, EnterIsNodeStep, NodeStepRefines
  <2>2. ASSUME NEW c \in Call, CallStep(c) PROVE Run!Next \/ UNCHANGED Run!runVars
    BY <1>1, <2>2, CallNode, CallStepIsNodeStep, NodeStepRefines, QuietStepRefines
  <2>3. CASE Hydrate \/ ReleaseLayer \/ LeaveLoop
    BY <1>1, <2>3, QuietStepRefines
  <2>4. CASE TakeLayer
    BY <1>1, <2>4, TakeLayerRefines
  <2>5. CASE Finish
    BY <1>1, <2>5, FinishRefines
  <2>6. CASE UNCHANGED vars
    <3>1. SchedulerIdle
      BY <2>6 DEF vars, SchedulerIdle, schedVars
    <3>2. QED  BY <1>1, <3>1, QuietStepRefines
  <2>7. QED  BY <1>1, <2>1, <2>2, <2>3, <2>4, <2>5, <2>6 DEF Next
<1>2. QED
  BY <1>1, InitRefines, Invariance, TypeCorrect, VerdictComesLast, PTL
  DEF Spec, ImplementsDagRun, Run!Spec
=============================================================================
