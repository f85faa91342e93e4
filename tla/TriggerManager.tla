---------------------------- MODULE TriggerManager ----------------------------
(***************************************************************************)
(* The life of one trigger: its row in PostgreSQL, the saved configuration *)
(* the row refers to by name, and the subscriptions that the trigger       *)
(* managers of the processes hold for it (backend/src/triggers/manager.js, *)
(* called by backend/src/api/triggers.js, backend/src/api/configs.js and   *)
(* at the boot of backend/src/worker.js).                                  *)
(*                                                                         *)
(* A manager keeps its subscriptions in a Map of its own process.  Between *)
(* two awaits a manager runs alone in its process, so every action below   *)
(* is the code from one await to the next.                                 *)
(***************************************************************************)
EXTENDS Naturals, FiniteSets

CONSTANTS
  Process,    \* the operating system processes that load the manager
  Api,        \* the one of them that serves the API
  Booting,    \* those that run worker.js, which loads the drivers and boots the triggers
  Task,       \* the syncs that may be under way at once in the API process
  Config,     \* the values of the config column
  QuietBoot,  \* environment: requests wait until the API process has booted
  MaxEdits,   \* bound: the API requests considered
  MaxCrashes  \* bound: the process crashes considered

ASSUME TriggerAssumption ==
  /\ Api \in Process /\ Booting \subseteq Process
  /\ Process \cap Task = {} /\ Config # {}
  /\ QuietBoot \in BOOLEAN
  /\ MaxEdits \in Nat /\ MaxCrashes \in Nat

VARIABLES
  row,      \* the row: whether there is one, enabled, config
  version,  \* the version of the saved configuration the row refers to
  active,   \* per process: the id in its Map, 0 for no entry, and the config
  live,     \* the subscriptions that call onFire
  failed,   \* per process: whether the last sync of the trigger threw in its driver
  task,     \* per task, and per process for its boot: the progress of a sync
  made,     \* the number of subscriptions made so far
  edits, crashes

vars == <<row, version, active, live, failed, task, made, edits, crashes>>

NoRow   == [exists |-> FALSE, enabled |-> FALSE, config |-> CHOOSE c \in Config : TRUE]
NoEntry == [id |-> 0, config |-> NoRow.config]
NoTask  == [pc |-> "idle", row |-> NoRow, force |-> FALSE, restart |-> FALSE, version |-> 0,
            id |-> 0]

Init ==
  /\ row = NoRow /\ version = 0
  /\ active = [p \in Process |-> NoEntry]
  /\ live = {}
  /\ failed = [p \in Process |-> FALSE]
  /\ task = [t \in Task \cup Process |-> IF t \in Booting THEN [NoTask EXCEPT !.pc = "boot"]
                                         ELSE NoTask]
  /\ made = 0 /\ edits = 0 /\ crashes = 0

\* The process a sync runs in, and the subscriptions of a process.
Home(t)   == IF t \in Task THEN Api ELSE t
LiveIn(p) == {s \in live : s.process = p}

At(t, pc)   == task[t].pc = pc
Goto(t, pc) == task' = [task EXCEPT ![t].pc = pc]

Down(p)  == At(p, "down")
Booted(p) == At(p, "idle")

-----------------------------------------------------------------------------
(***************************************************************************)
(* The requests.  Each is a statement on the row and, for most of them, a  *)
(* sync afterwards.                                                        *)
(***************************************************************************)
\* A request arrives, and a task is there to serve it.
Request(t) ==
  /\ At(t, "idle") /\ ~Down(Api) /\ edits < MaxEdits
  /\ QuietBoot => Booted(Api)
  /\ edits' = edits + 1
  /\ UNCHANGED <<active, live, failed, made, crashes>>

Sync(t, force) == task' = [task EXCEPT ![t] = [NoTask EXCEPT !.pc = "select", !.force = force]]

\* POST /triggers; a process without drivers knows no type to validate.
Create(t) ==
  /\ Request(t) /\ ~row.exists /\ Api \in Booting
  /\ \E enabled \in BOOLEAN, c \in Config :
       /\ row' = [exists |-> TRUE, enabled |-> enabled, config |-> c]
       /\ IF enabled THEN Sync(t, FALSE) ELSE UNCHANGED task
  /\ UNCHANGED version

\* PUT /triggers/:id, which sets config, enabled or both.
Update(t) ==
  /\ Request(t) /\ row.exists
  /\ \E enabled \in BOOLEAN, c \in Config :
       /\ c # row.config => Api \in Booting
       /\ row' = [row EXCEPT !.enabled = enabled, !.config = c]
  /\ Sync(t, FALSE)
  /\ UNCHANGED version

\* DELETE /triggers/:id
Delete(t) ==
  /\ Request(t) /\ row.exists
  /\ row' = NoRow
  /\ Sync(t, FALSE)
  /\ UNCHANGED version

\* PUT /configs/:id: the side effects run after the response.
EditConfig(t) ==
  /\ Request(t)
  /\ version' = version + 1
  /\ task' = [task EXCEPT ![t] = [NoTask EXCEPT !.pc = "match"]]
  /\ UNCHANGED row

\* resyncTriggersUsingConfig selects the enabled triggers that name the config.
Match(t) ==
  /\ At(t, "match")
  /\ IF row.enabled THEN Sync(t, TRUE) ELSE Goto(t, "idle")
  /\ UNCHANGED <<row, version, active, live, failed, made, edits, crashes>>

-----------------------------------------------------------------------------
(***************************************************************************)
(* syncTrigger, stopOne and startOne.                                      *)
(***************************************************************************)
\* SELECT * FROM triggers WHERE id = $1
Select(t) ==
  /\ At(t, "select")
  /\ task' = [task EXCEPT ![t].pc = "decide", ![t].row = row]
  /\ failed' = [failed EXCEPT ![Home(t)] = FALSE]
  /\ UNCHANGED <<row, version, active, live, made, edits, crashes>>

\* The operators named Mut... are variants of the definition they precede as a
\* slip in the code would have made it; nothing here uses them.
MutIgnoresForce(t) == active[Home(t)].config = task[t].row.config
UpToDate(t) == ~task[t].force /\ active[Home(t)].config = task[t].row.config

MutStartsBesideTheOld(t) ==
  /\ At(t, "decide")
  /\ LET p == Home(t) IN
       IF task[t].row.enabled /\ active[p].id # 0 /\ UpToDate(t)
       THEN Goto(t, "idle") /\ UNCHANGED live
       ELSE IF active[p].id # 0 /\ ~task[t].row.enabled
       THEN /\ task' = [task EXCEPT ![t].pc = "stopping"]
            /\ live' = {s \in live : s.id # active[p].id}
       ELSE Goto(t, IF task[t].row.enabled THEN "resolve" ELSE "idle") /\ UNCHANGED live
  /\ UNCHANGED <<row, version, active, failed, made, edits, crashes>>

Decide(t) ==
  /\ At(t, "decide")
  /\ LET p == Home(t) IN
       IF task[t].row.enabled /\ active[p].id # 0 /\ UpToDate(t)
       THEN Goto(t, "idle") /\ UNCHANGED live
       ELSE IF active[p].id # 0
       THEN /\ task' = [task EXCEPT ![t].pc = "stopping", ![t].restart = task[t].row.enabled]
            /\ live' = {s \in live : s.id # active[p].id}
       ELSE Goto(t, IF task[t].row.enabled THEN "resolve" ELSE "idle") /\ UNCHANGED live
  /\ UNCHANGED <<row, version, active, failed, made, edits, crashes>>

\* subscription.stop() is over: the entry goes, whichever it is by now.
Stopped(t) ==
  /\ At(t, "stopping")
  /\ active' = [active EXCEPT ![Home(t)] = NoEntry]
  /\ Goto(t, IF task[t].restart THEN "resolve" ELSE "idle")
  /\ UNCHANGED <<row, version, live, failed, made, edits, crashes>>

\* resolveTriggerConfig and the driver read the saved configuration.
Resolve(t) ==
  /\ At(t, "resolve")
  /\ task' = [task EXCEPT ![t].pc = "subscribe", ![t].version = version]
  /\ UNCHANGED <<row, version, active, live, failed, made, edits, crashes>>

\* The driver opens the subscription, which may fire before the manager knows
\* of it; or it throws.
Subscribe(t) ==
  /\ At(t, "subscribe") /\ Home(t) \in Booting
  /\ made' = made + 1
  /\ live' = live \cup {[id |-> made', process |-> Home(t), config |-> task[t].row.config,
                         version |-> task[t].version]}
  /\ task' = [task EXCEPT ![t].pc = "register", ![t].id = made']
  /\ UNCHANGED <<row, version, active, failed, edits, crashes>>

SubscribeFails(t) ==
  /\ At(t, "subscribe")
  /\ failed' = [failed EXCEPT ![Home(t)] = TRUE]
  /\ Goto(t, "idle")
  /\ UNCHANGED <<row, version, active, live, made, edits, crashes>>

\* active.set: an entry that is there is replaced, its subscription is not stopped.
Register(t) ==
  /\ At(t, "register")
  /\ active' = [active EXCEPT ![Home(t)] = [id |-> task[t].id, config |-> task[t].row.config]]
  /\ Goto(t, "idle")
  /\ UNCHANGED <<row, version, live, failed, made, edits, crashes>>

-----------------------------------------------------------------------------
(***************************************************************************)
(* Processes.                                                              *)
(***************************************************************************)
\* startTriggerManager: SELECT * FROM triggers WHERE enabled, then startOne.
MutBootStartsNothing(p) ==
  /\ At(p, "boot")
  /\ task' = [task EXCEPT ![p] = NoTask]
  /\ UNCHANGED <<row, version, active, live, failed, made, edits, crashes>>
BootSelect(p) ==
  /\ At(p, "boot")
  /\ task' = [task EXCEPT ![p] = [NoTask EXCEPT !.pc = IF row.enabled THEN "resolve" ELSE "idle",
                                                !.row = row]]
  /\ UNCHANGED <<row, version, active, live, failed, made, edits, crashes>>

\* The process dies: its Map, its subscriptions and its syncs with it.
Crash(p) ==
  /\ ~Down(p) /\ crashes < MaxCrashes
  /\ crashes' = crashes + 1
  /\ active' = [active EXCEPT ![p] = NoEntry]
  /\ live' = live \ LiveIn(p)
  /\ failed' = [failed EXCEPT ![p] = FALSE]
  /\ task' = [t \in Task \cup Process |-> IF t = p THEN [NoTask EXCEPT !.pc = "down"]
                                          ELSE IF Home(t) = p THEN NoTask ELSE task[t]]
  /\ UNCHANGED <<row, version, made, edits>>

Restart(p) ==
  /\ Down(p)
  /\ task' = [task EXCEPT ![p].pc = IF p \in Booting THEN "boot" ELSE "idle"]
  /\ UNCHANGED <<row, version, active, live, failed, made, edits, crashes>>

-----------------------------------------------------------------------------
SyncStep(t) ==
  \/ Select(t) \/ Decide(t) \/ Stopped(t) \/ Resolve(t)
  \/ Subscribe(t) \/ SubscribeFails(t) \/ Register(t)

TaskStep(t) == Create(t) \/ Update(t) \/ Delete(t) \/ EditConfig(t)

Next ==
  \/ \E t \in Task : TaskStep(t) \/ Match(t)
  \/ \E t \in Task \cup Process : SyncStep(t)
  \/ \E p \in Process : BootSelect(p) \/ Crash(p) \/ Restart(p)

\* Statements are answered, drivers come back with a result, and a dead process
\* is started again.
Fairness ==
  /\ \A t \in Task : WF_vars(Match(t))
  /\ \A t \in Task \cup Process : WF_vars(SyncStep(t))
  /\ \A p \in Process : WF_vars(BootSelect(p)) /\ WF_vars(Restart(p))

Spec     == Init /\ [][Next]_vars
FairSpec == Spec /\ Fairness

-----------------------------------------------------------------------------
(***************************************************************************)
(* Properties.                                                             *)
(***************************************************************************)
TaskState ==
  [pc : {"idle", "down", "boot", "match", "select", "decide", "stopping", "resolve",
         "subscribe", "register"},
   row : [exists : BOOLEAN, enabled : BOOLEAN, config : Config],
   force : BOOLEAN, restart : BOOLEAN, version : 0 .. MaxEdits, id : Nat]

\* The types; a row that is gone is not enabled, and only a row read as enabled
\* is ever started.
TypeOK ==
  /\ row \in [exists : BOOLEAN, enabled : BOOLEAN, config : Config]
  /\ row.enabled => row.exists
  /\ version \in 0 .. MaxEdits
  /\ active \in [Process -> [id : Nat, config : Config]]
  /\ live \subseteq [id : 1 .. made, process : Process, config : Config, version : 0 .. MaxEdits]
  /\ failed \in [Process -> BOOLEAN]
  /\ task \in [Task \cup Process -> TaskState]
  /\ \A t \in Task \cup Process :
       task[t].pc \in {"resolve", "subscribe", "register"} => task[t].row.enabled
  /\ made \in Nat /\ edits \in 0 .. MaxEdits /\ crashes \in 0 .. MaxCrashes

AtRest == \A t \in Task \cup Process : At(t, "idle")

Current(s) == s.config = row.config /\ s.version = version

\* When no sync is under way, a manager that boots with its process holds what
\* the row asks for: one subscription with the row's config and the saved
\* configuration as it is now, or none where the driver refused it (manager.js:5,
\* "keep the in-memory subscription map in sync").
InStep ==
  AtRest =>
    \A p \in Booting :
      IF row.enabled
      THEN \/ Cardinality(LiveIn(p)) = 1 /\ \A s \in LiveIn(p) : Current(s)
           \/ LiveIn(p) = {} /\ failed[p]
      ELSE LiveIn(p) = {}

\* An event fires the trigger once: at no time, not even between two awaits of
\* a restart, do two subscriptions listen.
NoEventTwice == Cardinality(live) <= 1

\* An enabled trigger comes to be heard, unless its driver refuses, also when
\* its process dies on the way.
Heard ==
  row.enabled ~> (~row.enabled \/ (\E p \in Process : failed[p]) \/ \E s \in live : Current(s))
=============================================================================
