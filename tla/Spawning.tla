------------------------------ MODULE Spawning ------------------------------
(***************************************************************************)
(* How executions come to be: POST /graphs/:id/execute (api/graphs.js), a   *)
(* trigger that fires and its "Run now" (triggers/manager.js), and an       *)
(* execution that fires another workflow (plugins/builtin/workflow.fire.js) *)
(* with its limits on depth, cycles and fan-out.  All four check the daily  *)
(* quota of the project and count against it (auth/quotas.js).  A slot is   *)
(* one such call under way; its awaited statements are its actions.         *)
(***************************************************************************)
EXTENDS Integers, FiniteSets

CONSTANTS
    Graphs,
    ProjectOf(_),   \* the project of a graph
    Granted,        \* cross_project_call_grants: pairs <<caller, callee>>
    Limit(_),       \* executions_per_day of a project
    MaxDepth,       \* MAX_DEPTH of workflow.fire
    MaxFires,       \* EXECUTION_MAX_ITERATIONS
    Slots,
    MaxExecutions,  \* bound: rows inserted
    MaxResumes,     \* bound: resumes of one execution
    None

ASSUME BoundsArePositive ==
    /\ MaxDepth \in Nat \ {0} /\ MaxFires \in Nat /\ MaxExecutions \in Nat
    /\ IsFiniteSet(Slots)
    /\ \A g \in Graphs : Limit(ProjectOf(g)) \in Nat \ {0}

Executions == 1 .. MaxExecutions
Projects == {ProjectOf(g) : g \in Graphs}

VARIABLES
    rows,       \* executions inserted so far; they are numbered as they come
    exec,       \* each execution: status, graph, and the context of its run
    job,        \* its job in the queue: the ancestors it carries, or None
    spawn,      \* each call under way
    usage,      \* quota_usage of each project, today
    bumps,      \* increments sent and not yet answered
    origin,     \* history: depth, graphs and parent of the chain that led here
    tally       \* history of each project: created, lost, waived, peak

vars == <<rows, exec, job, spawn, usage, bumps, origin, tally>>

NoRun == [st |-> "free", graph |-> None, batch |-> FALSE, ancestors |-> {},
          fires |-> 0, children |-> 0, resumes |-> 0]
Idle == [at |-> "idle", kind |-> None, by |-> 0, graph |-> None, ancestors |-> {},
         new |-> 0, abandoned |-> FALSE]

Init ==
    /\ rows = 0
    /\ exec = [e \in Executions |-> NoRun]
    /\ job = [e \in Executions |-> None]
    /\ spawn = [s \in Slots |-> Idle]
    /\ usage = [p \in Projects |-> 0]
    /\ bumps = [p \in Projects |-> 0]
    /\ origin = [e \in Executions |-> [depth |-> 0, chain |-> {}, parent |-> None, cut |-> FALSE]]
    /\ tally = [p \in Projects |-> [created |-> 0, lost |-> 0, waived |-> 0, peak |-> 0]]

\* The context of a run goes with the run.
Gone(e, st) == [exec[e] EXCEPT !.st = st, !.ancestors = {}, !.fires = 0, !.children = 0]

Project(s) == ProjectOf(spawn[s].graph)
Goes(s, at) == spawn' = [spawn EXCEPT ![s].at = at]
Ends(s) == spawn' = [spawn EXCEPT ![s] = Idle]

(***************************************************************************)
(* A run: BullMQ hands the job to a worker, again when the worker died.  A  *)
(* run whose inputs carry a list of items executes the graph once per item  *)
(* (executeBatch), with a context that holds neither the ancestors nor the  *)
(* execution.  Resumes enqueue a job without ancestors.                     *)
(***************************************************************************)
Claim(e) ==
    /\ job[e] # None
    /\ exec[e].st = "queued"
    /\ exec' = [exec EXCEPT ![e].st = "running",
                            ![e].ancestors = IF exec[e].batch THEN {} ELSE job[e]]
    /\ UNCHANGED <<rows, job, spawn, usage, bumps, origin, tally>>

\* The run ends, or its timeout does: fires under way go on without it.
Finish(e) ==
    /\ exec[e].st = "running"
    /\ exec' = [exec EXCEPT ![e] = Gone(e, "over")]
    /\ job' = [job EXCEPT ![e] = None]
    /\ spawn' = [s \in Slots |-> IF spawn[s].by = e THEN [spawn[s] EXCEPT !.abandoned = TRUE]
                                 ELSE spawn[s]]
    /\ UNCHANGED <<rows, usage, bumps, origin, tally>>

\* The worker's process dies, and the fires of its run with it; its job comes
\* again.
WorkerDies(e) ==
    /\ exec[e].st = "running"
    /\ exec' = [exec EXCEPT ![e] = Gone(e, "queued")]
    /\ spawn' = [s \in Slots |-> IF spawn[s].by = e THEN Idle ELSE spawn[s]]
    /\ UNCHANGED <<rows, job, usage, bumps, origin, tally>>

Resume(e) ==
    /\ exec[e].st = "over"
    /\ exec[e].resumes < MaxResumes
    /\ exec' = [exec EXCEPT ![e].st = "queued", ![e].resumes = @ + 1]
    /\ job' = [job EXCEPT ![e] = {}]
    /\ UNCHANGED <<rows, spawn, usage, bumps, origin, tally>>

(***************************************************************************)
(* The calls begin.                                                         *)
(***************************************************************************)
Ask(s, kind, g) ==
    /\ spawn[s] = Idle
    /\ spawn' = [spawn EXCEPT ![s] = [Idle EXCEPT !.at = "asked", !.kind = kind, !.graph = g]]
    /\ UNCHANGED <<rows, exec, job, usage, bumps, origin, tally>>

\* workflow.fire, up to its first await: depth, cycle, fan-out.  The list of
\* ancestors never repeats a graph; it is kept as a set.
MutHanded(e) == exec[e].ancestors
Handed(e) == IF exec[e].batch THEN {} ELSE exec[e].ancestors \cup {exec[e].graph}

\* Counted before it is refused, and never again in this run.  The items of a
\* batch count apart: there is always another one.
MutWithinFanOut(e) == exec[e].batch \/ exec[e].children < MaxFires
WithinFanOut(e) == exec[e].batch \/ exec[e].fires < MaxFires

MayCall(e, g) ==
    LET p == ProjectOf(exec[e].graph)
        q == ProjectOf(g) IN
    exec[e].batch \/ p = q \/ <<p, q>> \in Granted

Fire(s, e, g) ==
    /\ spawn[s] = Idle
    /\ exec[e].st = "running"
    /\ Cardinality(exec[e].ancestors) < MaxDepth
    /\ g \notin exec[e].ancestors
    /\ WithinFanOut(e)
    /\ exec' = IF exec[e].batch THEN exec ELSE [exec EXCEPT ![e].fires = @ + 1]
    /\ spawn' = IF MayCall(e, g)
                THEN [spawn EXCEPT ![s] = [Idle EXCEPT !.at = "asked", !.kind = "fire", !.by = e,
                                              !.graph = g, !.ancestors = Handed(e)]]
                ELSE spawn
    /\ UNCHANGED <<rows, job, usage, bumps, origin, tally>>

(***************************************************************************)
(* assertQuota: limit and usage of the project, as they are.  Another error *)
(* than the refusal lets a fire and a trigger pass.                         *)
(***************************************************************************)
BumpsOnInsert == {"fire", "manual"}
Uncounted(s) == spawn[s].at = "inserted" /\ spawn[s].kind \notin BumpsOnInsert
Pending(p) == bumps[p] + Cardinality({s \in Slots :
                 (spawn[s].at = "cleared" \/ Uncounted(s)) /\ Project(s) = p})

MutHasBudget(p) == usage[p] <= Limit(p)
HasBudget(p) == usage[p] < Limit(p)

Clears(s, waived) ==
    LET p == Project(s) IN
    /\ Goes(s, "cleared")
    /\ tally' = [tally EXCEPT
                   ![p].waived = IF waived THEN @ + 1 ELSE @,
                   ![p].peak = IF Pending(p) + 1 > @ THEN Pending(p) + 1 ELSE @]

AssertQuota(s) ==
    /\ spawn[s].at = "asked"
    /\ IF HasBudget(Project(s)) THEN Clears(s, FALSE) ELSE Ends(s) /\ UNCHANGED tally
    /\ UNCHANGED <<rows, exec, job, usage, bumps, origin>>

QuotaUnreadable(s) ==
    /\ spawn[s].at = "asked"
    /\ spawn[s].kind \in {"fire", "trigger"}
    /\ Clears(s, TRUE)
    /\ UNCHANGED <<rows, exec, job, usage, bumps, origin>>

(***************************************************************************)
(* INSERT INTO executions.  A fire and a "Run now" send their increment     *)
(* now, the others after the job is in the queue.                           *)
(***************************************************************************)
OriginOf(s) ==
    IF spawn[s].kind # "fire" THEN [depth |-> 0, chain |-> {}, parent |-> None, cut |-> FALSE]
    ELSE LET e == spawn[s].by IN
         [depth |-> origin[e].depth + 1,
          chain |-> origin[e].chain \cup {exec[e].graph},
          parent |-> exec[e].graph,
          cut |-> origin[e].cut \/ exec[e].batch \/ exec[e].resumes > 0]

Insert(s, batch) ==
    LET e == rows + 1
        p == Project(s) IN
    /\ spawn[s].at = "cleared"
    /\ rows < MaxExecutions
    /\ rows' = e
    /\ exec' = [i \in Executions |->
         IF i = e THEN [NoRun EXCEPT !.st = "queued", !.graph = spawn[s].graph, !.batch = batch]
         ELSE IF i = spawn[s].by /\ ~spawn[s].abandoned
         THEN [exec[i] EXCEPT !.children = @ + 1] ELSE exec[i]]
    /\ origin' = [origin EXCEPT ![e] = OriginOf(s)]
    /\ spawn' = [spawn EXCEPT ![s].at = "inserted", ![s].new = e]
    /\ bumps' = IF spawn[s].kind \in BumpsOnInsert THEN [bumps EXCEPT ![p] = @ + 1] ELSE bumps
    /\ tally' = [tally EXCEPT ![p].created = @ + 1]
    /\ UNCHANGED <<job, usage>>

Enqueue(s) ==
    LET p == Project(s) IN
    /\ spawn[s].at = "inserted"
    /\ job' = [job EXCEPT ![spawn[s].new] = spawn[s].ancestors]
    /\ bumps' = IF spawn[s].kind \in BumpsOnInsert THEN bumps ELSE [bumps EXCEPT ![p] = @ + 1]
    /\ Ends(s)
    /\ UNCHANGED <<rows, exec, usage, origin, tally>>

\* The call ends early: a statement fails or its process dies.  Between the
\* INSERT and the increment that leaves an execution that is never counted.
Drop(s) ==
    /\ spawn[s] # Idle
    /\ Ends(s)
    /\ tally' = IF Uncounted(s) THEN [tally EXCEPT ![Project(s)].lost = @ + 1] ELSE tally
    /\ UNCHANGED <<rows, exec, job, usage, bumps, origin>>

\* incrementUsage swallows its errors.
IncrementUsage(p) ==
    /\ bumps[p] > 0
    /\ bumps' = [bumps EXCEPT ![p] = @ - 1]
    /\ \/ usage' = [usage EXCEPT ![p] = @ + 1] /\ UNCHANGED tally
       \/ tally' = [tally EXCEPT ![p].lost = @ + 1] /\ UNCHANGED usage
    /\ UNCHANGED <<rows, exec, job, spawn, origin>>

Run(e) == Claim(e) \/ Finish(e) \/ WorkerDies(e) \/ Resume(e)

Call(s) ==
    \/ \E kind \in {"execute", "trigger", "manual"}, g \in Graphs : Ask(s, kind, g)
    \/ \E e \in Executions, g \in Graphs : Fire(s, e, g)
    \/ \E batch \in BOOLEAN : Insert(s, batch)
    \/ AssertQuota(s) \/ QuotaUnreadable(s) \/ Enqueue(s) \/ Drop(s)

Next ==
    \/ \E e \in Executions : Run(e)
    \/ \E s \in Slots : Call(s)
    \/ \E p \in Projects : IncrementUsage(p)

Spec == Init /\ [][Next]_vars

-----------------------------------------------------------------------------
(***************************************************************************)
(* Properties                                                              *)
(***************************************************************************)

\* A chain of fires ends: a graph comes again only right after itself, since
\* a run's own graph joins the list for its children only, and so a chain
\* that holds at most MaxDepth graphs is at most 2 * MaxDepth - 1 fires deep.
\* A resume or a batch run in the chain forgets what was before it.
ChainsEnd ==
    \A e \in 1 .. rows : ~origin[e].cut =>
        /\ origin[e].depth <= 2 * MaxDepth - 1
        /\ exec[e].graph \in origin[e].chain => exec[e].graph = origin[e].parent

\* One run inserts at most MaxFires children, however its fires overlap, are
\* retried or time out; a run over a list of items has that budget per item.
FanOutHolds ==
    \A e \in 1 .. rows : ~exec[e].batch => exec[e].children <= MaxFires

\* The daily quota is overrun by no more than the calls that were between
\* their check and their count at one time, the increments that failed, and
\* the calls that passed because the quota could not be read.
QuotaSlack ==
    \A p \in Projects :
        tally[p].created <= (Limit(p) - 1) + tally[p].peak + tally[p].lost + tally[p].waived
=============================================================================
