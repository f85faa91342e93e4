------------------------- MODULE ExecutionLifecycle --------------------------
(***************************************************************************)
(* One execution from its first job to its last: the executions row and    *)
(* the node_states rows in PostgreSQL, the BullMQ jobs that carry the      *)
(* execution, the worker processes that run them (backend/src/worker.js),  *)
(* the boot-time reaper (backend/src/engine/nodeStateStore.js) and the     *)
(* resume, skip, respond and delete requests (backend/src/api/             *)
(* executions.js).                                                         *)
(*                                                                         *)
(* Every statement a handler or a worker awaits is one action, because no  *)
(* transaction spans two of them.  A run of executeDag is reduced to its   *)
(* layers and outcomes (DagExecutor has the rest), but its upserts, which  *)
(* it does not await, are kept: each is in flight until it is applied.     *)
(***************************************************************************)
EXTENDS Dag, SequencesExt

CONSTANTS
  Terminates, \* nodes whose onError is "terminate"
  Gated,      \* nodes with an executeIf
  Asking,     \* user nodes, whose plugin returns the WAITING marker
  Fallible,   \* nodes whose plugin may fail
  Job,        \* the BullMQ jobs that may come to carry the execution (a bound)
  FirstJob,   \* the one POST /graphs/:id/execute enqueued
  Worker,     \* the worker processes
  Client,     \* the clients of the API, each with one request at a time
  Kinds,      \* the requests among "resume", "skip", "respond", "delete"
  InOrder,    \* whether the upserts of a run are applied in the order issued
  MayThrow,   \* whether the graph or its DSL may fail to load
  MayTimeOut, \* whether the workflow has a wall-clock budget
  MaxCrashes, \* the worker crashes considered
  ApiMayCrash \* whether the API process may die between two statements

ASSUME LifecycleAssumption ==
  /\ Terminates \subseteq Node /\ Gated \subseteq Node
  /\ Asking \subseteq Node /\ Fallible \subseteq Node
  /\ FirstJob \in Job
  /\ Kinds \subseteq {"resume", "skip", "respond", "delete"}
  /\ InOrder \in BOOLEAN /\ MayThrow \in BOOLEAN /\ MayTimeOut \in BOOLEAN /\ ApiMayCrash \in BOOLEAN
  /\ MaxCrashes \in Nat

VARIABLES
  exec,    \* executions.status, or "deleted"
  row,     \* node_states.status per node, "none" when there is no row
  job,     \* per job: free, queued, active or gone, and how often it stalled
  run,     \* per job: the worker's memory of its processing
  writes,  \* per job: the upserts its run has issued and not seen applied
  req,     \* per client: the progress of the handler that serves it
  boot,    \* per worker: down, reaping, marking (the rows of what it reaped) or up
  crashes

vars == <<exec, row, job, run, writes, req, boot, crashes>>

\* The memory of a job nobody processes.
Idle == [pc |-> "idle", worker |-> "none", loaded |-> [n \in Node |-> "none"],
         results |-> [n \in Node |-> "none"], active |-> {}, aborted |-> FALSE,
         dag |-> "off", overall |-> "none"]

NoRequest == [pc |-> "idle", kind |-> "none", node |-> "none"]

Finals == {"success", "partial", "waiting", "failed"}

Init ==
  /\ exec = "queued"
  /\ row = [n \in Node |-> "none"]
  /\ job = [j \in Job |-> [state |-> IF j = FirstJob THEN "queued" ELSE "free", stalls |-> 0]]
  /\ run = [j \in Job |-> Idle]
  /\ writes = [j \in Job |-> <<>>]
  /\ req = [r \in Client |-> NoRequest]
  /\ boot = [w \in Worker |-> "up"]
  /\ crashes = 0

\* An UPDATE of the executions row finds nothing once the row is deleted.
SetExec(status) == exec' = IF exec = "deleted" THEN exec ELSE status

-----------------------------------------------------------------------------
(***************************************************************************)
(* The worker: processExecutionBody.                                       *)
(***************************************************************************)
At(j, pc) == run[j].pc = pc
Goto(j, pc) == run' = [run EXCEPT ![j].pc = pc]

\* BullMQ hands a waiting job to a worker; the Worker is listening from the
\* moment the process boots, whether or not its reaper has finished.
Claim(j, w) ==
  /\ job[j].state = "queued" /\ boot[w] # "down"
  /\ job' = [job EXCEPT ![j].state = "active"]
  /\ run' = [run EXCEPT ![j] = [Idle EXCEPT !.pc = "load", !.worker = w]]
  /\ UNCHANGED <<exec, row, writes, req, boot, crashes>>

\* loadNodeStates
LoadRows(j) ==
  /\ At(j, "load")
  /\ run' = [run EXCEPT ![j].pc = "mark", ![j].loaded = row]
  /\ UNCHANGED <<exec, row, job, writes, req, boot, crashes>>

MarkRunning(j) ==
  /\ At(j, "mark")
  /\ SetExec("running")
  /\ Goto(j, "start")
  /\ UNCHANGED <<row, job, writes, req, boot, crashes>>

\* executeDag begins: settled rows are hydrated, the others run afresh.
MutForgetsSuccess == Settled \ {"success"}
Hydrated == Settled

StartDag(j) ==
  /\ At(j, "start")
  /\ run' = [run EXCEPT ![j].pc = "dag", ![j].dag = "on",
               ![j].results = [n \in Node |-> IF run[j].loaded[n] \in Hydrated
                                              THEN run[j].loaded[n] ELSE "none"]]
  /\ UNCHANGED <<exec, row, job, writes, req, boot, crashes>>

\* The graph is gone or its DSL does not parse.
BodyThrows(j) ==
  /\ MayThrow /\ At(j, "start")
  /\ Goto(j, "thrown")
  /\ UNCHANGED <<exec, row, job, writes, req, boot, crashes>>

-----------------------------------------------------------------------------
(***************************************************************************)
(* The run of executeDag that job j started.  It goes on after the job has *)
(* timed out: nothing stops it but its own end or the crash of its worker. *)
(***************************************************************************)
MutRunsBelowAQuestion(j) ==
  {n \in Node \ run[j].active :
     run[j].results[n] = "none" /\ \A p \in Parents(n) : run[j].results[p] \in Settled}

Ready(j) ==
  {n \in Node \ run[j].active :
     run[j].results[n] = "none" /\ \A p \in Parents(n) : run[j].results[p] \in Terminal}

\* The upserts of a set of nodes, in some order.
Upserts(S, status) == SetToSeq({<<n, status>> : n \in S})

\* The next layer: nodes below a skipped one and those whose gate is closed
\* are skipped at once, the others are running.
TakeLayer(j) ==
  /\ run[j].dag = "on" /\ run[j].active = {} /\ ~run[j].aborted /\ Ready(j) # {}
  /\ \E closed \in SUBSET (Ready(j) \cap Gated) :
       LET skipped == closed \cup
                      {n \in Ready(j) : \E p \in Parents(n) : run[j].results[p] = "skipped"}
           started == Ready(j) \ skipped
       IN /\ run' = [run EXCEPT ![j].active = started,
                       ![j].results = [n \in Node |-> IF n \in skipped THEN "skipped" ELSE @[n]]]
          /\ writes' = [writes EXCEPT ![j] =
                          @ \o Upserts(skipped, "skipped") \o Upserts(started, "running")]
  /\ UNCHANGED <<exec, row, job, req, boot, crashes>>

\* The outcomes the plugin of a node may have.
Outcomes(n) ==
  {IF n \in Asking THEN "waiting" ELSE "success"}
    \cup (IF n \in Fallible THEN {"failed"} ELSE {})

\* recordOutcome at the end of runOne.
SettleNode(j, n) ==
  /\ run[j].dag = "on" /\ n \in run[j].active
  /\ \E status \in Outcomes(n) :
       /\ run' = [run EXCEPT ![j].active = @ \ {n}, ![j].results[n] = status,
                    ![j].aborted = @ \/ (status = "failed" /\ n \in Terminates)]
       /\ writes' = [writes EXCEPT ![j] = Append(@, <<n, status>>)]
  /\ UNCHANGED <<exec, row, job, req, boot, crashes>>

Aggregate(j) ==
  LET Some(status) == \E n \in Node : run[j].results[n] = status
  IN IF run[j].aborted THEN "failed"
     ELSE IF Some("failed") THEN "partial"
     ELSE IF Some("waiting") THEN "waiting"
     ELSE "success"

\* Nothing more to run: the unreached nodes are recorded pending.
EndDag(j) ==
  /\ run[j].dag = "on" /\ run[j].active = {}
  /\ run[j].aborted \/ Ready(j) = {}
  /\ run' = [run EXCEPT ![j].dag = "ended", ![j].overall = Aggregate(j)]
  /\ writes' = [writes EXCEPT ![j] =
                  @ \o Upserts({n \in Node : run[j].results[n] = "none"}, "pending")]
  /\ UNCHANGED <<exec, row, job, req, boot, crashes>>

\* PostgreSQL applies an upsert.  They travel on the connections of a pool, so
\* nothing but luck keeps them in order; none survives the deletion of the row.
MutBlocksOnADeletedRow(j, i) ==
  /\ i \in 1 .. Len(writes[j]) /\ (InOrder => i = 1)
  /\ exec # "deleted"
  /\ row' = [row EXCEPT ![writes[j][i][1]] = writes[j][i][2]]
  /\ writes' = [writes EXCEPT ![j] = RemoveAt(@, i)]
  /\ UNCHANGED <<exec, job, run, req, boot, crashes>>

ApplyWrite(j, i) ==
  /\ i \in 1 .. Len(writes[j]) /\ (InOrder => i = 1)
  /\ row' = IF exec = "deleted" THEN row
            ELSE [row EXCEPT ![writes[j][i][1]] = writes[j][i][2]]
  /\ writes' = [writes EXCEPT ![j] = RemoveAt(@, i)]
  /\ UNCHANGED <<exec, job, run, req, boot, crashes>>

-----------------------------------------------------------------------------
(***************************************************************************)
(* The end of the job.                                                     *)
(***************************************************************************)
\* executeDag has returned and Promise.allSettled has drained its upserts.
MutNoDrain(j) == At(j, "dag") /\ run[j].dag = "ended"
Drained(j) == At(j, "dag") /\ run[j].dag = "ended" /\ writes[j] = <<>>

Drain(j) ==
  /\ Drained(j)
  /\ Goto(j, "final")
  /\ UNCHANGED <<exec, row, job, writes, req, boot, crashes>>

\* The last UPDATE does not look at what the row says by now.
FinalUpdate(j) ==
  /\ At(j, "final")
  /\ SetExec(run[j].overall)
  /\ Goto(j, "returned")
  /\ UNCHANGED <<row, job, writes, req, boot, crashes>>

\* WorkflowTimeoutError wins the race against executeDag, which is abandoned,
\* not stopped.
TimeOut(j) ==
  /\ MayTimeOut /\ At(j, "dag") /\ run[j].dag = "on"
  /\ Goto(j, "rescue")
  /\ UNCHANGED <<exec, row, job, writes, req, boot, crashes>>

\* The inner catch fails the row, whatever it says, and throws on.
Rescue(j) ==
  /\ At(j, "rescue")
  /\ SetExec("failed")
  /\ Goto(j, "thrown")
  /\ UNCHANGED <<row, job, writes, req, boot, crashes>>

MutThrowLeavesTheRow(j) ==
  /\ At(j, "thrown")
  /\ Goto(j, "returned")
  /\ UNCHANGED <<exec, row, job, writes, req, boot, crashes>>

\* The outer catch fails the row unless it says something final.
OuterRescue(j) ==
  /\ At(j, "thrown")
  /\ IF exec \in Finals THEN UNCHANGED exec ELSE SetExec("failed")
  /\ Goto(j, "returned")
  /\ UNCHANGED <<row, job, writes, req, boot, crashes>>

\* BullMQ takes note of the outcome; a failed job is not tried again.
Complete(j) ==
  /\ At(j, "returned")
  /\ job' = [job EXCEPT ![j].state = "gone"]
  /\ Goto(j, "done")
  /\ UNCHANGED <<exec, row, writes, req, boot, crashes>>

-----------------------------------------------------------------------------
(***************************************************************************)
(* Crashes and boots of workers.                                           *)
(***************************************************************************)
\* The process dies with all its runs; an upsert not applied by then is lost.
Crash(w) ==
  /\ boot[w] # "down" /\ crashes < MaxCrashes
  /\ crashes' = crashes + 1
  /\ boot' = [boot EXCEPT ![w] = "down"]
  /\ run' = [j \in Job |-> IF run[j].worker = w
                           THEN [Idle EXCEPT !.pc = IF At(j, "done") THEN "done" ELSE "dead"]
                           ELSE run[j]]
  /\ writes' = [j \in Job |-> IF run[j].worker = w THEN <<>> ELSE writes[j]]
  /\ UNCHANGED <<exec, row, job, req>>

\* BullMQ notices that the lock of an active job has expired: the job waits
\* again, once (maxStalledCount is 1), and is failed the next time.
Stalled(j) ==
  /\ job[j].state = "active" /\ At(j, "dead")
  /\ job' = [job EXCEPT ![j] = IF @.stalls = 0 THEN [state |-> "queued", stalls |-> 1]
                               ELSE [@ EXCEPT !.state = "gone"]]
  /\ run' = [run EXCEPT ![j] = Idle]
  /\ UNCHANGED <<exec, row, writes, req, boot, crashes>>

Boot(w) ==
  /\ boot[w] = "down"
  /\ boot' = [boot EXCEPT ![w] = "reaping"]
  /\ UNCHANGED <<exec, row, job, run, writes, req, crashes>>

\* reapOrphanedExecutions, called without active ids: every running execution.
ReapExecution(w) ==
  /\ boot[w] = "reaping"
  /\ IF exec = "running"
     THEN exec' = "failed" /\ boot' = [boot EXCEPT ![w] = "marking"]
     ELSE boot' = [boot EXCEPT ![w] = "up"] /\ UNCHANGED exec
  /\ UNCHANGED <<row, job, run, writes, req, crashes>>

MutFailsEveryRow(w) ==
  /\ boot[w] = "marking"
  /\ row' = [n \in Node |-> IF row[n] \in {"running", "success"} THEN "failed" ELSE row[n]]
  /\ boot' = [boot EXCEPT ![w] = "up"]
  /\ UNCHANGED <<exec, job, run, writes, req, crashes>>

MarkReapedRows(w) ==
  /\ boot[w] = "marking"
  /\ row' = [n \in Node |-> IF row[n] = "running" THEN "failed" ELSE row[n]]
  /\ boot' = [boot EXCEPT ![w] = "up"]
  /\ UNCHANGED <<exec, job, run, writes, req, crashes>>

-----------------------------------------------------------------------------
(***************************************************************************)
(* The API requests.                                                       *)
(***************************************************************************)
ReqGoto(r, pc) == req' = [req EXCEPT ![r].pc = pc]
Answer(r) == req' = [req EXCEPT ![r] = NoRequest]
InHandler == {r \in Client : req[r].pc # "idle"}

\* Bound: a request is made only while a job is left for it to enqueue.
MayAsk(r) ==
  /\ req[r].pc = "idle"
  /\ Cardinality(InHandler) < Cardinality({j \in Job : job[j].state = "free"})

\* /resume and /skip refuse an execution that is in flight.  With no node in its
\* body, /resume picks a failed one; it then resets whichever node was named.
MutOnlyRunningRefused == {"running", "deleted"}
NotResumable == {"running", "queued", "deleted"}

AskResumeOrSkip(r, kind, n) ==
  /\ MayAsk(r) /\ kind \in Kinds \cap {"resume", "skip"}
  /\ exec \notin NotResumable
  /\ req' = [req EXCEPT ![r] = [pc |-> "reset", kind |-> kind, node |-> n]]
  /\ UNCHANGED <<exec, row, job, run, writes, boot, crashes>>

\* /respond wants the execution to exist, whatever its status.
AskRespond(r, n) ==
  /\ MayAsk(r) /\ "respond" \in Kinds
  /\ exec # "deleted"
  /\ req' = [req EXCEPT ![r] = [pc |-> "check", kind |-> "respond", node |-> n]]
  /\ UNCHANGED <<exec, row, job, run, writes, boot, crashes>>

\* The node must be waiting when it is looked at.
CheckNode(r) ==
  /\ req[r].pc = "check"
  /\ IF row[req[r].node] = "waiting" THEN ReqGoto(r, "reset") ELSE Answer(r)
  /\ UNCHANGED <<exec, row, job, run, writes, boot, crashes>>

\* The status a request may leave in the node's row: /respond upserts,
\* resetNodeForReplay updates a row that exists, and a /resume with inputs
\* upserts it as well.
NewStatus(kind, old) ==
  CASE kind = "respond" -> {"success"}
    [] kind = "resume"  -> IF old = "none" THEN {"none", "pending"} ELSE {"pending"}
    [] kind = "skip"    -> IF old = "none" THEN {"none"} ELSE {"skipped"}

ResetNode(r) ==
  /\ req[r].pc = "reset"
  /\ IF exec = "deleted" THEN UNCHANGED row
     ELSE \E status \in NewStatus(req[r].kind, row[req[r].node]) :
            row' = [row EXCEPT ![req[r].node] = status]
  /\ IF exec = "deleted" /\ req[r].kind = "respond" THEN Answer(r) ELSE ReqGoto(r, "requeue")
  /\ UNCHANGED <<exec, job, run, writes, boot, crashes>>

Requeue(r) ==
  /\ req[r].pc = "requeue"
  /\ SetExec("queued")
  /\ ReqGoto(r, "enqueue")
  /\ UNCHANGED <<row, job, run, writes, boot, crashes>>

MutFindsAJobQueued(r) ==
  /\ req[r].pc = "enqueue"
  /\ \E j \in Job :
       /\ job[j].state = "free"
       /\ job' = IF \E k \in Job : job[k].state \in {"queued", "active"} THEN job
                 ELSE [job EXCEPT ![j].state = "queued"]
  /\ Answer(r)
  /\ UNCHANGED <<exec, row, run, writes, boot, crashes>>

Enqueue(r) ==
  /\ req[r].pc = "enqueue"
  /\ \E j \in Job : /\ job[j].state = "free"
                    /\ job' = [job EXCEPT ![j].state = "queued"]
  /\ Answer(r)
  /\ UNCHANGED <<exec, row, run, writes, boot, crashes>>

\* One DELETE, which cascades to node_states and does not look at the status.
Delete(r) ==
  /\ req[r].pc = "idle" /\ "delete" \in Kinds /\ exec # "deleted"
  /\ exec' = "deleted"
  /\ row' = [n \in Node |-> "none"]
  /\ UNCHANGED <<job, run, writes, req, boot, crashes>>

\* The API process dies, or a statement fails, between two steps of a handler.
\* Bound: the client does not ask again.
ApiCrash(r) ==
  /\ ApiMayCrash /\ req[r].pc \in {"check", "reset", "requeue", "enqueue"}
  /\ ReqGoto(r, "died")
  /\ UNCHANGED <<exec, row, job, run, writes, boot, crashes>>

-----------------------------------------------------------------------------
DagStep(j) == TakeLayer(j) \/ (\E n \in Node : SettleNode(j, n)) \/ EndDag(j)

BodyStep(j) ==
  \/ LoadRows(j) \/ MarkRunning(j) \/ StartDag(j) \/ BodyThrows(j)
  \/ Drain(j) \/ FinalUpdate(j) \/ Rescue(j) \/ OuterRescue(j) \/ Complete(j)

WorkerStep(w) == Boot(w) \/ ReapExecution(w) \/ MarkReapedRows(w)

HandlerStep(r) == CheckNode(r) \/ ResetNode(r) \/ Requeue(r) \/ Enqueue(r)

Next ==
  \/ \E j \in Job, w \in Worker : Claim(j, w)
  \/ \E j \in Job : BodyStep(j) \/ DagStep(j) \/ TimeOut(j) \/ Stalled(j)
  \/ \E j \in Job : \E i \in DOMAIN writes[j] : ApplyWrite(j, i)
  \/ \E w \in Worker : WorkerStep(w) \/ Crash(w)
  \/ \E r \in Client, n \in Node :
       AskRespond(r, n) \/ (\E kind \in Kinds : AskResumeOrSkip(r, kind, n))
  \/ \E r \in Client : HandlerStep(r) \/ Delete(r) \/ ApiCrash(r)

\* Workers and handlers go on as long as they are alive, upserts are applied,
\* BullMQ serves its jobs and a dead worker is started again.  Plugins answer
\* (a hanging one is the subject of DagExecutor).  Nothing is owed by users,
\* and neither crashes nor timeouts have to happen.
Fairness ==
  /\ \A j \in Job :
       /\ WF_vars(BodyStep(j)) /\ WF_vars(DagStep(j)) /\ WF_vars(Stalled(j))
       /\ WF_vars(\E i \in DOMAIN writes[j] : ApplyWrite(j, i))
       /\ WF_vars(\E w \in Worker : Claim(j, w))
  /\ \A w \in Worker : WF_vars(WorkerStep(w))
  /\ \A r \in Client : WF_vars(HandlerStep(r))

Spec     == Init /\ [][Next]_vars
FairSpec == Spec /\ Fairness
-----------------------------------------------------------------------------
(***************************************************************************)
(* Properties.                                                             *)
(***************************************************************************)
Statuses == {"none", "pending", "running", "waiting"} \cup Terminal

TypeOK ==
  /\ exec \in {"queued", "running", "deleted"} \cup Finals
  /\ row \in [Node -> Statuses]
  /\ \A j \in Job :
       /\ job[j].state \in {"free", "queued", "active", "gone"} /\ job[j].stalls \in 0 .. 1
       /\ run[j].results \in [Node -> {"none"} \cup Settled]
       /\ run[j].active \subseteq {n \in Node : run[j].results[n] = "none"}
       /\ \A i \in DOMAIN writes[j] :
            writes[j][i][1] \in Node /\ writes[j][i][2] \in Statuses \ {"none"}
  /\ \A r \in Client : req[r].pc # "idle" => req[r].kind \in Kinds /\ req[r].node \in Node

\* The jobs whose work on the execution is not over.
InFlight == {j \in Job : job[j].state \in {"queued", "active"} /\ ~At(j, "returned")}
Running  == {j \in Job : run[j].dag = "on"}

\* Nothing is on its way, no job, no run, no upsert, no request, no reaper, and
\* no handler has died half-way.
AtRest ==
  /\ InFlight = {} /\ Running = {} /\ InHandler = {}
  /\ \A j \in Job : writes[j] = <<>>
  /\ \A w \in Worker : boot[w] \notin {"reaping", "marking"}

RowsAre(statuses) == \A n \in Node : row[n] \in statuses
SomeRowIs(status) == \E n \in Node : row[n] = status

\* One executeDag at a time works on the rows of an execution
\* (executions.js:159, "cannot resume an in-flight run").
OneRunAtATime == Cardinality(Running) <= 1

\* Once everything has come to rest, executions.status says what node_states
\* says: the viewer offers Resume, Skip and Respond from the one by the other.
StatusMatchesRows ==
  AtRest =>
    /\ exec = "success" => RowsAre({"success", "skipped"})
    /\ exec = "partial" => SomeRowIs("failed")
    /\ exec = "waiting" => SomeRowIs("waiting") /\ ~SomeRowIs("failed")

\* An execution at rest with status 'waiting' waits for somebody: there is a
\* node to respond to (nodeStateStore.js:148, "'waiting' executions are
\* deliberately paused until a responder POSTs JSON").
WaitingForSomebody == AtRest /\ exec = "waiting" => SomeRowIs("waiting")

\* The execution has had one job and no request is under way.  Two jobs may do a
\* node twice: an answer that arrives while other nodes run brings a second one.
HasOneJob ==
  InHandler = {} /\ \A j, k \in Job : j # k => "free" \in {job[j].state, job[k].state}

\* Until somebody asks for something or deletes the execution, a success that is
\* on disk stays there, whatever runs, crashes and is delivered again.
SuccessIsDurable ==
  [][\A n \in Node : HasOneJob /\ row[n] = "success" =>
                     row'[n] = "success" \/ exec' = "deleted"]_vars

\* Nor does a run start a node whose success is on disk (executions.js:142,
\* "Already-success nodes upstream are kept as-is").
NothingIsRedone ==
  [][\A j \in Job, n \in Node :
       HasOneJob /\ n \in run'[j].active \ run[j].active => row[n] # "success"]_vars

\* A run as DagRun sees it.
OutcomeSeen(j) ==
  [n \in Node |-> IF run[j].results[n] # "none" THEN run[j].results[n]
                  ELSE IF n \in run[j].active THEN "active"
                  ELSE IF run[j].dag = "ended" THEN "pending" ELSE "idle"]

RunOf(j) == INSTANCE DagRun WITH outcome <- OutcomeSeen(j), stopped <- run[j].aborted,
                                 verdict <- run[j].overall

\* Each run of executeDag is one that DagRun promises, as DagExecutor's is, from
\* the rows it hydrates to its end or the death of its worker, whether or not
\* its job has timed out and whatever other jobs do to the rows meanwhile.
RunsAreDagRuns ==
  [][\A j \in Job :
       /\ run[j].dag = "off" /\ run'[j].dag # "off" => RunOf(j)!Init'
       /\ run[j].dag # "off" /\ run'[j].dag # "off" =>
            UNCHANGED RunOf(j)!runVars \/ RunOf(j)!Next]_vars

\* An execution that was accepted comes to a final status, whichever worker dies
\* underway and whatever throws before the run (worker.js:108-117).
ExecutionSettles == exec \in {"queued", "running"} ~> exec \in Finals

\* A worker gets rid of every job it has claimed, also of one whose execution
\* has been deleted or has run out of its budget (worker.js:325, "a single
\* upsert failure can't keep the executions row pinned").
JobsEnd == \A j \in Job : job[j].state = "active" ~> job[j].state # "active"

\* Once every question above a node is answered, some job runs the node, unless
\* one asks again (executions.js:258, "The worker's resume path replays the
\* node's outputs ... so descendants can read the posted JSON").
BelowQuestions == {n \in Node : Parents(n) # {} /\ Parents(n) \subseteq Asking}
Answered(n) == \A p \in Parents(n) : row[p] = "success"
RunByAJob(n) == \E j \in Job : run[j].results[n] # "none"

AnswersAreActedOn ==
  \A n \in BelowQuestions : Answered(n) ~> RunByAJob(n) \/ SomeRowIs("waiting")
=============================================================================
