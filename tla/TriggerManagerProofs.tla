------------------------ MODULE TriggerManagerProofs ------------------------
(***************************************************************************)
(* One API process that boots before it is asked, and one sync at a time:  *)
(* the manager holds what the row asks for, with at most one subscription, *)
(* for any number of edits and crashes.                                    *)
(***************************************************************************)
EXTENDS TriggerManager, FiniteSetTheorems, TLAPS

-----------------------------------------------------------------------------
(***************************************************************************)
(* The inductive invariant, in named parts.                                *)
(***************************************************************************)
RowState == [exists : BOOLEAN, enabled : BOOLEAN, config : Config]
Entry == [id : Nat, config : Config]
Subscription(k) == [id : 1 .. k, process : Process, config : Config, version : 0 .. MaxEdits]
Actor == Task \cup Process

\* The progress of a sync: only what is enabled is started, or started again.
TaskFits(t) ==
  /\ t \in TaskState
  /\ t.pc \in {"resolve", "subscribe", "register"} \/ t.restart => t.row.enabled
  /\ t.pc = "select" => ~t.restart

\* The types.  Each edit raises the version by one at most.
Types ==
  /\ row \in RowState /\ (row.enabled => row.exists)
  /\ edits \in 0 .. MaxEdits /\ crashes \in 0 .. MaxCrashes
  /\ version \in 0 .. edits
  /\ active \in [Process -> Entry] /\ failed \in [Process -> BOOLEAN]
  /\ made \in Nat /\ live \subseteq Subscription(made)
  /\ task \in [Actor -> TaskState] /\ \A t \in Actor : TaskFits(task[t])

\* One process, whose syncs and boot never overlap.
OneSync ==
  /\ Process = {Api} /\ Booting = Process /\ QuietBoot
  /\ \A s, t \in Task : s = t

\* The entry a of the Map is the one subscription of l, or there is none.
Holds(a, l) == \/ a.id = 0 /\ l = {}
               \/ \E s \in l : l = {s} /\ a.id = s.id /\ a.config = s.config

\* The progress t of a sync fits the row r, the version v, the entry a and the
\* subscriptions l.
Fits(t, r, v, a, l) ==
  /\ t.pc \in {"match", "select", "decide"} => Holds(a, l)
  /\ t.pc = "match" => \A s \in l : r.enabled
  /\ t.pc \in {"select", "decide"} /\ ~t.force => \A s \in l : s.version = v
  /\ t.pc \in {"decide", "stopping", "resolve", "subscribe", "register"} => t.row = r
  /\ t.pc = "stopping" => t.restart = r.enabled
  /\ t.pc \in {"stopping", "resolve", "subscribe", "boot", "down"} => l = {}
  /\ t.pc \in {"resolve", "subscribe", "register", "boot", "down"} => a.id = 0
  /\ t.pc = "subscribe" => t.version = v
  /\ t.pc = "register" => \E s \in l : l = {s} /\ s.id = t.id /\ s.config = r.config /\ s.version = v

\* With no sync under way, the subscriptions are what the row asks for.
Rests(r, v, a, l, f) ==
  /\ Holds(a, l)
  /\ \A s \in l : r.enabled /\ s.config = r.config /\ s.version = v
  /\ r.enabled => l # {} \/ f

SyncInv ==
  /\ \A t, u \in Actor : task[t].pc # "idle" /\ task[u].pc # "idle" => t = u
  /\ \A t \in Actor : Fits(task[t], row, version, active[Api], live)
  /\ AtRest => Rests(row, version, active[Api], live, failed[Api])

-----------------------------------------------------------------------------
(***************************************************************************)
(* Types.                                                                  *)
(***************************************************************************)

\* What is not there.
LEMMA Nothings ==
  /\ NoRow \in RowState /\ ~NoRow.enabled /\ ~NoRow.exists
  /\ NoEntry \in Entry /\ NoEntry.id = 0
  /\ NoTask \in TaskState /\ NoTask.pc = "idle" /\ ~NoTask.restart /\ NoTask.row = NoRow /\ NoTask.version = 0
<1>1. NoRow \in RowState /\ ~NoRow.enabled /\ ~NoRow.exists
  BY TriggerAssumption DEF NoRow, RowState
<1>2. NoEntry \in Entry /\ NoEntry.id = 0
  BY <1>1 DEF NoEntry, Entry, RowState
<1>3. MaxEdits \in Nat
  BY TriggerAssumption
<1>4. NoTask \in TaskState /\ NoTask.pc = "idle" /\ ~NoTask.restart /\ NoTask.row = NoRow /\ NoTask.version = 0
  BY <1>1, <1>3 DEF NoTask, TaskState, RowState
<1> QED  BY <1>1, <1>2, <1>4

\* The places and versions of a sync by name.
Places == {"idle", "down", "boot", "match", "select", "decide", "stopping", "resolve",
           "subscribe", "register"}
Versions == 0 .. MaxEdits

\* The type of the progress, in those names.
LEMMA TaskStateIs ==
  TaskState = [pc : Places, row : RowState, force : BOOLEAN, restart : BOOLEAN,
               version : Versions, id : Nat]
BY DEF TaskState, Places, RowState, Versions

\* A sync that only goes on.
LEMMA PcIs ==
  ASSUME NEW t \in TaskState, NEW pc \in Places, NEW x, x = [t EXCEPT !.pc = pc]
  PROVE  /\ x \in TaskState /\ x.pc = pc /\ x.row = t.row /\ x.restart = t.restart
         /\ x.version = t.version /\ x.id = t.id /\ x.force = t.force
BY TaskStateIs

\* They are the types of the model.
LEMMA TypesImply == Types => TypeOK
<1> SUFFICES ASSUME Types PROVE TypeOK
  OBVIOUS
<1>1. version \in 0 .. MaxEdits
  BY TriggerAssumption DEF Types
<1> QED  BY <1>1 DEF Types, TypeOK, RowState, Entry, Subscription, Actor, TaskFits

\* A step of one sync.
LEMMA TaskTypes ==
  ASSUME Types, NEW t \in Actor, NEW x, TaskFits(x), task' = [task EXCEPT ![t] = x]
  PROVE  task' \in [Actor -> TaskState] /\ \A u \in Actor : TaskFits(task'[u])
BY DEF Types, TaskFits

\* A sync that goes on to pc.
LEMMA GoesTo ==
  ASSUME Types, NEW t \in Actor, NEW pc,
         pc \in {"idle", "decide", "stopping", "resolve", "subscribe", "register", "boot"},
         pc \in {"resolve", "subscribe", "register"} => task[t].row.enabled
  PROVE  LET x == [task[t] EXCEPT !.pc = pc] IN TaskFits(x) /\ x.pc = pc
BY DEF Types, TaskFits, TaskState

\* Every step keeps the types.
LEMMA TypesStep == Types /\ [Next]_vars => Types'
<1> SUFFICES ASSUME Types, [Next]_vars PROVE Types'
  OBVIOUS
<1> USE DEF Actor
<1>1. /\ MaxEdits \in Nat /\ MaxCrashes \in Nat /\ Api \in Process /\ Booting \subseteq Process
      /\ \A t \in Actor : Home(t) \in Process /\ task[t] \in TaskState
  BY TriggerAssumption DEF Types, Home
<1>2. ASSUME NEW t \in Task, TaskStep(t) PROVE Types'
  <2>1. edits < MaxEdits /\ edits' = edits + 1 /\ UNCHANGED <<active, live, failed, made, crashes>>
    BY <1>2 DEF TaskStep, Create, Update, Delete, EditConfig, Request
  <2>2. edits' \in 0 .. MaxEdits /\ version' \in 0 .. edits'
    <3>1. version' \in {version, version + 1}
      BY <1>2 DEF TaskStep, Create, Update, Delete, EditConfig
    <3> QED  BY <1>1, <2>1, <3>1 DEF Types
  <2>3. row' \in RowState /\ (row'.enabled => row'.exists)
    <3>1. CASE Create(t)
      BY <3>1 DEF Create, RowState
    <3>2. CASE Update(t)
      <4>1. PICK enabled \in BOOLEAN, c \in Config : row' = [row EXCEPT !.enabled = enabled, !.config = c]
        BY <3>2 DEF Update
      <4>2. row.exists
        BY <3>2 DEF Update
      <4> QED  BY <4>1, <4>2 DEF Types, RowState
    <3> QED  BY <1>2, <3>1, <3>2, Nothings DEF TaskStep, Delete, EditConfig, Types
  <2>4. \E x : TaskFits(x) /\ task' = [task EXCEPT ![t] = x]
    <3>1. /\ \A f \in BOOLEAN : TaskFits([NoTask EXCEPT !.pc = "select", !.force = f])
          /\ TaskFits([NoTask EXCEPT !.pc = "match"])
      BY Nothings DEF TaskFits, TaskState
    <3>2. task = [task EXCEPT ![t] = task[t]] /\ TaskFits(task[t])
      BY DEF Types
    <3> QED  BY <1>2, <3>1, <3>2 DEF TaskStep, Create, Update, Delete, EditConfig, Sync
  <2>5. task' \in [Actor -> TaskState] /\ \A u \in Actor : TaskFits(task'[u])
    BY <2>4, TaskTypes
  <2> QED  BY <2>1, <2>2, <2>3, <2>5 DEF Types
<1>3. ASSUME NEW t \in Actor, NEW x, TaskFits(x), task' = [task EXCEPT ![t] = x],
             UNCHANGED <<row, version, edits, crashes>>,
             active' \in [Process -> Entry], failed' \in [Process -> BOOLEAN],
             made' \in Nat, live' \subseteq Subscription(made')
      PROVE  Types'
  BY <1>3, TaskTypes DEF Types
<1>4. ASSUME NEW t \in Task, Match(t) PROVE Types'
  <2>1. UNCHANGED <<row, version, active, live, failed, made, edits, crashes>>
    BY <1>4 DEF Match
  <2>2. \E x : TaskFits(x) /\ task' = [task EXCEPT ![t] = x]
    <3>1. TaskFits([NoTask EXCEPT !.pc = "select", !.force = TRUE])
      BY Nothings DEF TaskFits, TaskState
    <3>2. TaskFits([task[t] EXCEPT !.pc = "idle"])
      BY GoesTo
    <3> QED  BY <1>4, <3>1, <3>2 DEF Match, Sync, Goto
  <2> QED  BY <1>3, <2>1, <2>2 DEF Types
<1>5. ASSUME NEW t \in Actor, Select(t) \/ Decide(t) \/ Stopped(t) PROVE Types'
  <2>1. CASE Select(t)
    <3>0. PICK m, x : m = task[t] /\ x = [m EXCEPT !.pc = "decide", !.row = row]
      OBVIOUS
    <3>1. TaskFits(x)
      <4>1. ~task[t].restart
        BY <2>1 DEF Types, TaskFits, Select, At
      <4>2. x \in TaskState /\ x.pc = "decide" /\ x.restart = task[t].restart
        <5>1. m \in TaskState /\ row \in RowState
          BY <1>1, <3>0 DEF Types
        <5> QED  BY <5>1, <3>0, TaskStateIs DEF Places
      <4> QED  BY <4>1, <4>2 DEF TaskFits
    <3>2. failed' \in [Process -> BOOLEAN]
      BY <2>1 DEF Select, Types
    <3>3. task' = [task EXCEPT ![t] = x] /\ UNCHANGED <<row, version, active, live, made, edits, crashes>>
      BY <2>1, <3>0 DEF Select
    <3>4. active' \in [Process -> Entry] /\ made' \in Nat /\ live' \subseteq Subscription(made')
      BY <3>3 DEF Types
    <3> QED  BY <1>3, <3>1, <3>2, <3>3, <3>4
  <2>2. CASE Decide(t)
    <3>1. UNCHANGED <<row, version, active, failed, made, edits, crashes>> /\ live' \subseteq live
      BY <2>2 DEF Decide
    <3>0. PICK m, x : m = task[t] /\ x = [m EXCEPT !.pc = "stopping", !.restart = task[t].row.enabled]
      OBVIOUS
    <3>2. TaskFits(x)
      <4>1. task[t].row.enabled \in BOOLEAN
        BY <1>1, TaskStateIs DEF RowState
      <4>2. x \in TaskState /\ x.pc = "stopping" /\ x.restart = task[t].row.enabled /\ x.row = task[t].row
        <5>1. m \in TaskState /\ m.row = task[t].row
          BY <1>1, <3>0
        <5> QED  BY <5>1, <3>0, <4>1, TaskStateIs DEF Places
      <4> QED  BY <4>2 DEF TaskFits
    <3>3. \E y : TaskFits(y) /\ task' = [task EXCEPT ![t] = y]
      <4>1. CASE task' = [task EXCEPT ![t] = x]
        BY <3>2, <4>1
      <4>2. ASSUME NEW pc \in {"idle", "resolve"}, pc = "resolve" => task[t].row.enabled, Goto(t, pc)
            PROVE  \E y : TaskFits(y) /\ task' = [task EXCEPT ![t] = y]
        BY <4>2, GoesTo DEF Goto
      <4>3. \/ task' = [task EXCEPT ![t] = x]
            \/ \E pc \in {"idle", "resolve"} : (pc = "resolve" => task[t].row.enabled) /\ Goto(t, pc)
        BY <2>2, <3>0 DEF Decide
      <4> QED  BY <4>1, <4>2, <4>3
    <3> QED  BY <1>3, <3>1, <3>3 DEF Types
  <2>3. CASE Stopped(t)
    <3>1. PICK pc \in {"idle", "resolve"} : (pc = "resolve" => task[t].restart) /\ Goto(t, pc)
      BY <2>3 DEF Stopped
    <3>2. task[t].restart => task[t].row.enabled
      BY DEF Types, TaskFits
    <3>3. \E x : TaskFits(x) /\ task' = [task EXCEPT ![t] = x]
      BY <3>1, <3>2, GoesTo DEF Goto
    <3>4. active' \in [Process -> Entry]
      BY <2>3, Nothings DEF Stopped, Types
    <3> QED  BY <1>3, <2>3, <3>3, <3>4 DEF Stopped, Types
  <2> QED  BY <1>5, <2>1, <2>2, <2>3
<1>6. ASSUME NEW t \in Actor, Resolve(t) \/ Subscribe(t) \/ SubscribeFails(t) \/ Register(t)
      PROVE  Types'
  <2>1. task[t].pc \in {"resolve", "subscribe"} => task[t].row.enabled
    BY DEF Types, TaskFits
  <2>2. version \in 0 .. MaxEdits
    BY <1>1 DEF Types
  <2>3. CASE Resolve(t)
    <3>0. PICK m, x : m = task[t] /\ x = [m EXCEPT !.pc = "subscribe", !.version = version]
      OBVIOUS
    <3>1. TaskFits(x)
      <4>1. x \in TaskState /\ x.pc = "subscribe" /\ x.row = task[t].row
        <5>1. m \in TaskState /\ version \in Versions
          BY <1>1, <3>0, <2>2 DEF Versions
        <5> QED  BY <5>1, <3>0, TaskStateIs DEF Places
      <4>2. task[t].row.enabled
        BY <2>1, <2>3 DEF Resolve, At
      <4> QED  BY <4>1, <4>2 DEF TaskFits
    <3> QED  BY <1>3, <2>3, <3>0, <3>1 DEF Resolve, Types
  <2>4. CASE Subscribe(t)
    <3> DEFINE s == [id |-> made + 1, process |-> Home(t), config |-> task[t].row.config,
                     version |-> task[t].version]
    <3>0. PICK m, x : m = task[t] /\ x = [m EXCEPT !.pc = "register", !.id = made + 1]
      OBVIOUS
    <3>1. TaskFits(x)
      <4>1. x \in TaskState /\ x.pc = "register" /\ x.row = task[t].row
        <5>1. m \in TaskState /\ made + 1 \in Nat
          BY <1>1, <3>0 DEF Types
        <5> QED  BY <5>1, <3>0, TaskStateIs DEF Places
      <4>2. task[t].row.enabled
        BY <2>1, <2>4 DEF Subscribe, At
      <4> QED  BY <4>1, <4>2 DEF TaskFits
    <3>2. task[t].row.config \in Config /\ task[t].version \in 0 .. MaxEdits
      BY <1>1 DEF TaskState
    <3>3. s \in Subscription(made + 1) /\ made + 1 \in Nat
      BY <1>1, <3>2 DEF Subscription, Types
    <3>4. Subscription(made) \subseteq Subscription(made + 1)
      BY DEF Subscription, Types
    <3>5. /\ made' = made + 1 /\ live' = live \cup {s}
          /\ task' = [task EXCEPT ![t] = [task[t] EXCEPT !.pc = "register", !.id = made + 1]]
          /\ UNCHANGED <<row, version, active, failed, edits, crashes>>
      BY <2>4 DEF Subscribe
    <3> HIDE DEF s
    <3> QED  BY <1>3, <3>0, <3>1, <3>3, <3>4, <3>5 DEF Types
  <2>5. CASE SubscribeFails(t)
    <3>1. \E x : TaskFits(x) /\ task' = [task EXCEPT ![t] = x]
      BY <2>5, GoesTo DEF SubscribeFails, Goto
    <3>2. failed' \in [Process -> BOOLEAN]
      BY <2>5 DEF SubscribeFails, Types
    <3> QED  BY <1>3, <2>5, <3>1, <3>2 DEF SubscribeFails, Types
  <2>6. CASE Register(t)
    <3>1. \E x : TaskFits(x) /\ task' = [task EXCEPT ![t] = x]
      BY <2>6, GoesTo DEF Register, Goto
    <3>2. active' \in [Process -> Entry]
      BY <1>1, <2>6 DEF Register, Types, TaskState, Entry
    <3> QED  BY <1>3, <2>6, <3>1, <3>2 DEF Register, Types
  <2> QED  BY <1>6, <2>3, <2>4, <2>5, <2>6
<1>7. ASSUME NEW p \in Process, BootSelect(p) \/ Restart(p) PROVE Types'
  <2>1. UNCHANGED <<row, version, active, live, failed, made, edits, crashes>>
    BY <1>7 DEF BootSelect, Restart
  <2>2. \E x : TaskFits(x) /\ task' = [task EXCEPT ![p] = x]
    <3>1. CASE BootSelect(p)
      <4>1. TaskFits([NoTask EXCEPT !.pc = IF row.enabled THEN "resolve" ELSE "idle", !.row = row])
        BY Nothings DEF TaskFits, TaskState, Types, RowState
      <4> QED  BY <3>1, <4>1 DEF BootSelect
    <3>2. CASE Restart(p)
      <4>1. PICK pc \in {"boot", "idle"} : task' = [task EXCEPT ![p].pc = pc]
        BY <3>2 DEF Restart
      <4> QED  BY <4>1, GoesTo
    <3> QED  BY <1>7, <3>1, <3>2
  <2> QED  BY <1>3, <2>1, <2>2 DEF Types
<1>8. ASSUME NEW p \in Process, Crash(p) PROVE Types'
  <2>1. TaskFits([NoTask EXCEPT !.pc = "down"]) /\ TaskFits(NoTask)
    BY Nothings DEF TaskFits, TaskState
  <2>2. task' \in [Actor -> TaskState] /\ \A u \in Actor : TaskFits(task'[u])
    <3>1. \A u \in Actor : task'[u] \in {[NoTask EXCEPT !.pc = "down"], NoTask, task[u]}
      BY <1>8 DEF Crash
    <3>2. task' = [u \in Actor |-> task'[u]]
      BY <1>8 DEF Crash
    <3>3. \A u \in Actor : TaskFits(task'[u])
      BY <2>1, <3>1 DEF Types
    <3>4. \A u \in Actor : task'[u] \in TaskState
      BY <3>3 DEF TaskFits
    <3> HIDE DEF Actor
    <3> QED  BY <3>2, <3>3, <3>4
  <2>3. crashes' \in 0 .. MaxCrashes /\ live' \subseteq live
    BY <1>1, <1>8 DEF Crash, Types
  <2>4. active' \in [Process -> Entry] /\ failed' \in [Process -> BOOLEAN]
    BY <1>8, Nothings DEF Crash, Types
  <2> QED  BY <1>8, <2>2, <2>3, <2>4 DEF Crash, Types
<1>9. CASE UNCHANGED vars
  BY <1>9 DEF vars, Types
<1> QED  BY <1>2, <1>4, <1>5, <1>6, <1>7, <1>8, <1>9 DEF Next, SyncStep


-----------------------------------------------------------------------------
(***************************************************************************)
(* The sync.                                                               *)
(***************************************************************************)

\* The invariant after a step, written out.
LEMMA NextSyncInv ==
  ASSUME \A t, u \in Actor : task'[t].pc # "idle" /\ task'[u].pc # "idle" => t = u,
         \A t \in Actor : Fits(task'[t], row', version', active'[Api], live'),
         (\A t \in Actor : task'[t].pc = "idle") =>
            Rests(row', version', active'[Api], live', failed'[Api])
  PROVE  SyncInv'
BY DEF SyncInv, AtRest, At, Fits, Rests, Holds, Actor

\* A task at rest fits anything.
LEMMA IdleFits ==
  ASSUME NEW t, NEW r, NEW v, NEW a, NEW l, t.pc = "idle"
  PROVE  Fits(t, r, v, a, l)
BY DEF Fits

\* A step that leaves every sync but one at rest.
LEMMA StepsTo ==
  ASSUME NEW u \in Actor, NEW x, task'[u] = x,
         \A t \in Actor : t # u => task'[t].pc = "idle",
         x.pc # "idle" => Fits(x, row', version', active'[Api], live'),
         x.pc = "idle" => Rests(row', version', active'[Api], live', failed'[Api])
  PROVE  SyncInv'
<1>1. \A t, s \in Actor : task'[t].pc # "idle" /\ task'[s].pc # "idle" => t = s
  OBVIOUS
<1>2. \A t \in Actor : Fits(task'[t], row', version', active'[Api], live')
  <2> TAKE t \in Actor
  <2>1. CASE t = u
    BY <2>1, IdleFits
  <2>2. CASE t # u
    BY <2>2, IdleFits
  <2> QED  BY <2>1, <2>2
<1>3. (\A t \in Actor : task'[t].pc = "idle") =>
         Rests(row', version', active'[Api], live', failed'[Api])
  OBVIOUS
<1> QED  BY <1>1, <1>2, <1>3, NextSyncInv

\* What the invariant says of a sync under way, and at rest.
LEMMA Alone ==
  ASSUME OneSync, Types, SyncInv, NEW u \in Actor
  PROVE  /\ Home(u) = Api /\ Api \in Process /\ Api \in Actor
         /\ task[u] \in TaskState /\ TaskFits(task[u])
         /\ Fits(task[u], row, version, active[Api], live)
         /\ task[u].pc # "idle" => \A t \in Actor : t # u => task[t].pc = "idle"
         /\ \A s \in live : s.id \in Nat \ {0} /\ s.process = Api
<1>1. Home(u) = Api /\ Api \in Process /\ Api \in Actor
  BY DEF OneSync, Home, Actor
<1>2. \A s \in live : s.id \in Nat \ {0} /\ s.process = Api
  <2>1. live \subseteq Subscription(made) /\ made \in Nat
    BY DEF Types
  <2> QED  BY <2>1 DEF Subscription, OneSync
<1> QED  BY <1>1, <1>2 DEF Types, SyncInv

\* A step of the one sync under way to x.
LEMMA SyncTo ==
  ASSUME OneSync, Types, SyncInv, NEW u \in Actor, task[u].pc # "idle",
         NEW x, task' = [task EXCEPT ![u] = x],
         x.pc # "idle" => Fits(x, row', version', active'[Api], live'),
         x.pc = "idle" => Rests(row', version', active'[Api], live', failed'[Api])
  PROVE  SyncInv'
<1>1. task'[u] = x /\ \A t \in Actor : t # u => task'[t].pc = "idle"
  BY Alone DEF Types
<1> QED  BY <1>1, StepsTo

\* A request starts a sync, or leaves the row as what was held for it.
LEMMA RequestStep ==
  ASSUME OneSync, Types, SyncInv, NEW u \in Task, TaskStep(u)
  PROVE  SyncInv'
<1>1. u \in Actor /\ Api \in Actor
  BY DEF Actor, OneSync
<1>2. \A t \in Actor : task[t].pc = "idle"
  BY DEF TaskStep, Create, Update, Delete, EditConfig, Request, At, Booted, OneSync, Actor
<1>3. Rests(row, version, active[Api], live, failed[Api])
  BY <1>2 DEF SyncInv, AtRest, At, Actor
<1>4. UNCHANGED <<active, live, failed>>
  BY DEF TaskStep, Create, Update, Delete, EditConfig, Request
<1>5. ASSUME NEW x, task' = [task EXCEPT ![u] = x],
             x.pc # "idle" => Fits(x, row', version', active'[Api], live'),
             x.pc = "idle" => Rests(row', version', active'[Api], live', failed'[Api])
      PROVE  SyncInv'
  <2>1. task'[u] = x /\ \A t \in Actor : t # u => task'[t].pc = "idle"
    BY <1>1, <1>2, <1>5 DEF Types
  <2> QED  BY <1>1, <1>5, <2>1, StepsTo
<1>6. ASSUME NEW f \in BOOLEAN, NEW x, x = [NoTask EXCEPT !.pc = "select", !.force = f]
      PROVE  x.pc = "select" /\ x.force = f
  BY <1>6 DEF NoTask
<1>7. ASSUME Sync(u, FALSE), version' = version, row.enabled \/ live = {}
      PROVE  SyncInv'
  <2>1. PICK x : x = [NoTask EXCEPT !.pc = "select", !.force = FALSE]
    OBVIOUS
  <2>2. x.pc = "select" /\ x.force = FALSE
    BY <1>6, <2>1
  <2>3. Fits(x, row', version', active'[Api], live')
    BY <1>3, <1>4, <1>7, <2>2 DEF Fits, Rests
  <2> QED  BY <1>5, <1>7, <2>1, <2>2, <2>3 DEF Sync
<1>8. row.enabled \/ live = {}
  BY <1>3 DEF Rests
<1>9. CASE Create(u)
  <2>1. live = {} /\ version' = version
    BY <1>8, <1>9 DEF Create, Types
  <2>2. CASE Sync(u, FALSE)
    BY <1>7, <2>1, <2>2
  <2>3. CASE task' = task /\ ~row'.enabled
    <3>1. Rests(row', version', active'[Api], live', failed'[Api])
      BY <1>3, <1>4, <2>1, <2>3 DEF Rests
    <3>2. task' = [task EXCEPT ![u] = task[u]] /\ task[u].pc = "idle"
      BY <1>1, <1>2, <2>3 DEF Types
    <3> QED  BY <1>5, <3>1, <3>2
  <2>4. PICK enabled \in BOOLEAN, c \in Config :
          /\ row' = [exists |-> TRUE, enabled |-> enabled, config |-> c]
          /\ IF enabled THEN Sync(u, FALSE) ELSE UNCHANGED task
    BY <1>9 DEF Create
  <2>5. row'.enabled = enabled
    BY <2>4
  <2> QED  BY <2>2, <2>3, <2>4, <2>5
<1>10. CASE Update(u)
  BY <1>7, <1>8, <1>10 DEF Update
<1>11. CASE Delete(u)
  BY <1>7, <1>8, <1>11 DEF Delete
<1>12. CASE EditConfig(u)
  <2>1. PICK x : x = [NoTask EXCEPT !.pc = "match"]
    OBVIOUS
  <2>2. x.pc = "match"
    BY <2>1 DEF NoTask
  <2>3. Fits(x, row', version', active'[Api], live')
    BY <1>3, <1>4, <1>12, <2>2 DEF EditConfig, Fits, Rests
  <2> QED  BY <1>5, <1>12, <2>1, <2>2, <2>3 DEF EditConfig
<1> QED  BY <1>9, <1>10, <1>11, <1>12 DEF TaskStep


\* A sync that only goes on to pc.
LEMMA GoTo ==
  ASSUME OneSync, Types, SyncInv, NEW u \in Actor, task[u].pc # "idle",
         NEW pc \in Places, Goto(u, pc),
         \A x \in TaskState :
           /\ x.pc = pc /\ x.row = task[u].row /\ x.restart = task[u].restart
           /\ x.version = task[u].version /\ x.id = task[u].id /\ x.force = task[u].force
           => /\ pc # "idle" => Fits(x, row', version', active'[Api], live')
              /\ pc = "idle" => Rests(row', version', active'[Api], live', failed'[Api])
  PROVE  SyncInv'
<1>1. PICK m, x : m = task[u] /\ x = [m EXCEPT !.pc = pc]
  OBVIOUS
<1>2. m \in TaskState /\ task' = [task EXCEPT ![u] = x]
  BY <1>1, Alone DEF Goto
<1>3. /\ x \in TaskState /\ x.pc = pc /\ x.row = m.row /\ x.restart = m.restart
      /\ x.version = m.version /\ x.id = m.id /\ x.force = m.force
  BY <1>1, <1>2, PcIs
<1> QED  BY <1>1, <1>2, <1>3, SyncTo

\* The saved configuration was edited: an enabled row is synced once more.
LEMMA MatchStep ==
  ASSUME OneSync, Types, SyncInv, NEW u \in Task, Match(u)
  PROVE  SyncInv'
<1>1. u \in Actor /\ task[u].pc = "match" /\ UNCHANGED <<row, version, active, live, failed>>
  BY DEF Match, At, Actor
<1>2. Holds(active[Api], live) /\ \A s \in live : row.enabled
  BY <1>1, Alone DEF Fits
<1>3. CASE row.enabled
  <2>1. PICK x : x = [NoTask EXCEPT !.pc = "select", !.force = TRUE]
    OBVIOUS
  <2>2. x.pc = "select" /\ x.force = TRUE
    BY <2>1 DEF NoTask
  <2>3. Fits(x, row', version', active'[Api], live')
    BY <1>1, <1>2, <2>2 DEF Fits
  <2>4. task' = [task EXCEPT ![u] = x]
    BY <1>3, <2>1 DEF Match, Sync
  <2> QED  BY <1>1, <2>2, <2>3, <2>4, SyncTo
<1>4. CASE ~row.enabled
  <2>1. Rests(row', version', active'[Api], live', failed'[Api])
    BY <1>1, <1>2, <1>4 DEF Rests
  <2> QED  BY <1>1, <1>4, <2>1, GoTo DEF Match, Places
<1> QED  BY <1>3, <1>4

\* The sync reads the row as it is.
LEMMA SelectStep ==
  ASSUME OneSync, Types, SyncInv, NEW u \in Actor, Select(u)
  PROVE  SyncInv'
<1>1. task[u].pc = "select" /\ UNCHANGED <<row, version, active, live>>
  BY DEF Select, At
<1>2. Fits(task[u], row, version, active[Api], live) /\ task[u] \in TaskState
  BY Alone
<1>3. PICK m, x : m = task[u] /\ x = [m EXCEPT !.pc = "decide", !.row = row]
  OBVIOUS
<1>4. m \in TaskState /\ row \in RowState /\ task' = [task EXCEPT ![u] = x]
  BY <1>2, <1>3 DEF Select, Types
<1>5. x.pc = "decide" /\ x.row = row /\ x.force = m.force
  BY <1>3, <1>4, TaskStateIs
<1>6. Fits(x, row', version', active'[Api], live')
  BY <1>1, <1>2, <1>3, <1>5 DEF Fits
<1> QED  BY <1>1, <1>4, <1>5, <1>6, SyncTo

\* It leaves what is up to date, stops what is not, or starts what is missing.
LEMMA DecideStep ==
  ASSUME OneSync, Types, SyncInv, NEW u \in Actor, Decide(u)
  PROVE  SyncInv'
<1>1. task[u].pc = "decide" /\ UNCHANGED <<row, version, active, failed>>
  BY DEF Decide, At
<1>2. /\ task[u] \in TaskState /\ Home(u) = Api /\ Holds(active[Api], live)
      /\ ~task[u].force => \A s \in live : s.version = version
      /\ task[u].row = row
  BY <1>1, Alone DEF Fits
<1>3. \A s \in live : s.id # 0
  BY Alone
<1>4. CASE row.enabled /\ active[Api].id # 0 /\ UpToDate(u)
  <2>1. Goto(u, "idle") /\ UNCHANGED live
    BY <1>2, <1>4 DEF Decide
  <2>2. PICK s \in live : live = {s} /\ active[Api].config = s.config
    BY <1>2, <1>4 DEF Holds
  <2>3. s.config = row.config /\ s.version = version
    BY <1>2, <1>4, <2>2 DEF UpToDate
  <2>4. Rests(row, version, active[Api], live, failed[Api])
    BY <1>2, <1>4, <2>2, <2>3 DEF Rests
  <2>5. Rests(row', version', active'[Api], live', failed'[Api])
    BY <1>1, <2>1, <2>4
  <2> QED  BY <1>1, <2>1, <2>5, GoTo DEF Places
<1>5. CASE ~(row.enabled /\ active[Api].id # 0 /\ UpToDate(u)) /\ active[Api].id # 0
  <2>1. /\ task' = [task EXCEPT ![u].pc = "stopping", ![u].restart = task[u].row.enabled]
        /\ live' = {s \in live : s.id # active[Api].id}
    BY <1>2, <1>5 DEF Decide
  <2>2. live' = {}
    BY <1>2, <1>5, <2>1 DEF Holds
  <2>3. PICK m, x : m = task[u] /\ x = [m EXCEPT !.pc = "stopping", !.restart = m.row.enabled]
    OBVIOUS
  <2>4. m \in TaskState /\ m.row.enabled \in BOOLEAN /\ task' = [task EXCEPT ![u] = x]
    BY <1>2, <2>1, <2>3 DEF Types, RowState
  <2>5. x.pc = "stopping" /\ x.row = m.row /\ x.restart = m.row.enabled
    BY <2>3, <2>4, TaskStateIs
  <2>6. Fits(x, row', version', active'[Api], live')
    BY <1>1, <1>2, <2>2, <2>3, <2>5 DEF Fits
  <2> QED  BY <1>1, <2>4, <2>5, <2>6, SyncTo
<1>6. CASE active[Api].id = 0
  <2>1. Goto(u, IF row.enabled THEN "resolve" ELSE "idle") /\ UNCHANGED live
    BY <1>2, <1>6 DEF Decide
  <2>2. live = {}
    BY <1>2, <1>3, <1>6 DEF Holds
  <2>3. CASE row.enabled
    <3>1. \A x : x.pc = "resolve" /\ x.row = task[u].row =>
                   Fits(x, row', version', active'[Api], live')
      BY <1>1, <1>2, <1>6, <2>1, <2>2 DEF Fits
    <3> QED  BY <1>1, <2>1, <2>3, <3>1, GoTo DEF Places
  <2>4. CASE ~row.enabled
    <3>1. Rests(row', version', active'[Api], live', failed'[Api])
      BY <1>1, <1>6, <2>1, <2>2, <2>4 DEF Rests, Holds
    <3> QED  BY <1>1, <2>1, <2>4, <3>1, GoTo DEF Places
  <2> QED  BY <2>3, <2>4
<1> QED  BY <1>4, <1>5, <1>6

\* What was stopped is gone from the Map.
LEMMA StoppedStep ==
  ASSUME OneSync, Types, SyncInv, NEW u \in Actor, Stopped(u)
  PROVE  SyncInv'
<1>1. task[u].pc = "stopping" /\ UNCHANGED <<row, version, live, failed>>
  BY DEF Stopped, At
<1>2. Home(u) = Api /\ live = {} /\ task[u].row = row /\ task[u].restart = row.enabled
  BY <1>1, Alone DEF Fits
<1>3. active'[Api].id = 0
  BY <1>2, Alone, Nothings DEF Stopped, Types
<1>4. CASE row.enabled
  <2>1. \A x : x.pc = "resolve" /\ x.row = task[u].row =>
                 Fits(x, row', version', active'[Api], live')
    BY <1>1, <1>2, <1>3 DEF Fits
  <2>2. Goto(u, "resolve")
    BY <1>2, <1>4 DEF Stopped
  <2> QED  BY <1>1, <2>1, <2>2, GoTo DEF Places
<1>5. CASE ~row.enabled
  <2>1. Rests(row', version', active'[Api], live', failed'[Api])
    BY <1>1, <1>2, <1>3, <1>5 DEF Rests, Holds
  <2>2. Goto(u, "idle")
    BY <1>2, <1>5 DEF Stopped
  <2> QED  BY <1>1, <2>1, <2>2, GoTo DEF Places
<1> QED  BY <1>4, <1>5


\* It reads the saved configuration, opens a subscription or fails to, and
\* enters it in the Map.
LEMMA StartStep ==
  ASSUME OneSync, Types, SyncInv, NEW u \in Actor,
         Resolve(u) \/ Subscribe(u) \/ SubscribeFails(u) \/ Register(u)
  PROVE  SyncInv'
<1>1. /\ Home(u) = Api /\ task[u] \in TaskState /\ TaskFits(task[u])
      /\ Fits(task[u], row, version, active[Api], live)
  BY Alone
<1>2. CASE Resolve(u)
  <2>1. task[u].pc = "resolve" /\ UNCHANGED <<row, version, active, live>>
    BY <1>2 DEF Resolve, At
  <2>2. live = {} /\ active[Api].id = 0 /\ task[u].row = row
    BY <1>1, <2>1 DEF Fits
  <2>3. PICK m, x : m = task[u] /\ x = [m EXCEPT !.pc = "subscribe", !.version = version]
    OBVIOUS
  <2>4. m \in TaskState /\ version \in Versions /\ task' = [task EXCEPT ![u] = x]
    <3>1. version \in Versions
      BY TriggerAssumption DEF Types, Versions
    <3> QED  BY <1>1, <1>2, <2>3, <3>1 DEF Resolve
  <2>5. x.pc = "subscribe" /\ x.row = m.row /\ x.version = version
    BY <2>3, <2>4, TaskStateIs
  <2>6. Fits(x, row', version', active'[Api], live')
    BY <2>1, <2>2, <2>3, <2>5 DEF Fits
  <2> QED  BY <2>1, <2>4, <2>5, <2>6, SyncTo
<1>3. CASE Subscribe(u)
  <2>1. task[u].pc = "subscribe" /\ UNCHANGED <<row, version, active>>
    BY <1>3 DEF Subscribe, At
  <2>2. live = {} /\ active[Api].id = 0 /\ task[u].row = row /\ task[u].version = version
    BY <1>1, <2>1 DEF Fits
  <2>3. PICK m, x : m = task[u] /\ x = [m EXCEPT !.pc = "register", !.id = made + 1]
    OBVIOUS
  <2>4. m \in TaskState /\ made + 1 \in Nat /\ task' = [task EXCEPT ![u] = x]
    <3>1. task' = [task EXCEPT ![u] = [task[u] EXCEPT !.pc = "register", !.id = made + 1]]
      BY <1>3 DEF Subscribe
    <3> QED  BY <1>1, <2>3, <3>1 DEF Types
  <2>5. x.pc = "register" /\ x.row = m.row /\ x.id = made + 1
    BY <2>3, <2>4, TaskStateIs
  <2>6. PICK s : s = [id |-> made + 1, process |-> Home(u), config |-> task[u].row.config,
                      version |-> task[u].version]
    OBVIOUS
  <2>7. live' = {s} /\ s.id = x.id /\ s.config = row.config /\ s.version = version
    BY <1>3, <2>2, <2>5, <2>6 DEF Subscribe
  <2>8. Fits(x, row', version', active'[Api], live')
    BY <2>1, <2>2, <2>3, <2>5, <2>7 DEF Fits
  <2> QED  BY <2>1, <2>4, <2>5, <2>8, SyncTo
<1>4. CASE SubscribeFails(u)
  <2>1. task[u].pc = "subscribe" /\ UNCHANGED <<row, version, active, live>> /\ Goto(u, "idle")
    BY <1>4 DEF SubscribeFails, At
  <2>2. live = {} /\ active[Api].id = 0
    BY <1>1, <2>1 DEF Fits
  <2>3. failed'[Api]
    BY <1>1, <1>4, Alone DEF SubscribeFails, Types
  <2>4. Rests(row', version', active'[Api], live', failed'[Api])
    BY <2>1, <2>2, <2>3 DEF Rests, Holds
  <2> QED  BY <2>1, <2>4, GoTo DEF Places
<1>5. CASE Register(u)
  <2>1. task[u].pc = "register" /\ UNCHANGED <<row, version, live, failed>> /\ Goto(u, "idle")
    BY <1>5 DEF Register, At
  <2>2. PICK s \in live : /\ live = {s} /\ s.id = task[u].id /\ s.config = row.config
                          /\ s.version = version
    BY <1>1, <2>1 DEF Fits
  <2>3. task[u].row = row /\ row.enabled
    BY <1>1, <2>1 DEF Fits, TaskFits
  <2>4. active'[Api].id = s.id /\ active'[Api].config = s.config
    BY <1>1, <1>5, <2>2, <2>3, Alone DEF Register, Types
  <2>5. Rests(row', version', active'[Api], live', failed'[Api])
    BY <2>1, <2>2, <2>3, <2>4 DEF Rests, Holds
  <2> QED  BY <2>1, <2>5, GoTo DEF Places
<1> QED  BY <1>2, <1>3, <1>4, <1>5

\* The process boots, dies and comes back with nothing held.
LEMMA ProcessStep ==
  ASSUME OneSync, Types, SyncInv, NEW p \in Process, BootSelect(p) \/ Crash(p) \/ Restart(p)
  PROVE  SyncInv'
<1>1. p = Api /\ p \in Actor /\ p \in Booting
  BY DEF OneSync, Actor
<1>2. Fits(task[p], row, version, active[Api], live)
  BY <1>1, Alone
<1>3. CASE BootSelect(p)
  <2>1. task[p].pc = "boot" /\ UNCHANGED <<row, version, active, live, failed>>
    BY <1>3 DEF BootSelect, At
  <2>2. live = {} /\ active[Api].id = 0
    BY <1>2, <2>1 DEF Fits
  <2>3. PICK x : x = [NoTask EXCEPT !.pc = IF row.enabled THEN "resolve" ELSE "idle", !.row = row]
    OBVIOUS
  <2>4. x.pc = (IF row.enabled THEN "resolve" ELSE "idle") /\ x.row = row
    BY <2>3 DEF NoTask
  <2>5. task' = [task EXCEPT ![p] = x]
    BY <1>3, <2>3 DEF BootSelect
  <2>6. CASE row.enabled
    <3>1. Fits(x, row', version', active'[Api], live')
      BY <2>1, <2>2, <2>4, <2>6 DEF Fits
    <3> QED  BY <1>1, <2>1, <2>4, <2>5, <2>6, <3>1, SyncTo
  <2>7. CASE ~row.enabled
    <3>1. Rests(row', version', active'[Api], live', failed'[Api])
      BY <2>1, <2>2, <2>7 DEF Rests, Holds
    <3> QED  BY <1>1, <2>1, <2>4, <2>5, <2>7, <3>1, SyncTo
  <2> QED  BY <2>6, <2>7
<1>4. CASE Crash(p)
  <2>1. live' = {}
    <3>1. \A s \in live : s.process = p
      BY <1>1, Alone
    <3> QED  BY <1>4, <3>1 DEF Crash, LiveIn
  <2>2. active'[Api].id = 0 /\ UNCHANGED <<row, version>>
    BY <1>1, <1>4, Nothings DEF Crash, Types
  <2>3. PICK x : x = [NoTask EXCEPT !.pc = "down"]
    OBVIOUS
  <2>4. x.pc = "down"
    BY <2>3 DEF NoTask
  <2>5. task'[p] = x
    BY <1>1, <1>4, <2>3 DEF Crash, Actor
  <2>6. \A t \in Actor : t # p => task'[t].pc = "idle"
    <3>1. \A t \in Actor : Home(t) = p
      BY <1>1, Alone
    <3>2. \A t \in Actor : t # p => task'[t] = NoTask
      BY <1>4, <3>1 DEF Crash, Actor
    <3> QED  BY <3>2, Nothings
  <2>7. Fits(x, row', version', active'[Api], live')
    BY <2>1, <2>2, <2>4 DEF Fits
  <2> QED  BY <1>1, <2>4, <2>5, <2>6, <2>7, StepsTo
<1>5. CASE Restart(p)
  <2>1. task[p].pc = "down" /\ UNCHANGED <<row, version, active, live, failed>>
    BY <1>5 DEF Restart, Down, At
  <2>2. live = {} /\ active[Api].id = 0
    BY <1>2, <2>1 DEF Fits
  <2>3. Goto(p, "boot")
    BY <1>1, <1>5 DEF Restart, Goto
  <2>4. \A x : x.pc = "boot" => Fits(x, row', version', active'[Api], live')
    BY <2>1, <2>2 DEF Fits
  <2> QED  BY <1>1, <2>1, <2>3, <2>4, GoTo DEF Places
<1> QED  BY <1>3, <1>4, <1>5

\* Every step keeps the invariant.
LEMMA SyncStepHolds == OneSync /\ Types /\ SyncInv /\ [Next]_vars => SyncInv'
<1> SUFFICES ASSUME OneSync, Types, SyncInv, [Next]_vars PROVE SyncInv'
  OBVIOUS
<1>1. CASE UNCHANGED vars
  BY <1>1 DEF vars, SyncInv, AtRest, At, Fits, Rests, Holds
<1>2. ASSUME NEW t \in Task, TaskStep(t) \/ Match(t) PROVE SyncInv'
  BY <1>2, RequestStep, MatchStep
<1>3. ASSUME NEW t \in Task \cup Process, SyncStep(t) PROVE SyncInv'
  BY <1>3, SelectStep, DecideStep, StoppedStep, StartStep DEF SyncStep, Actor
<1>4. ASSUME NEW p \in Process, BootSelect(p) \/ Crash(p) \/ Restart(p) PROVE SyncInv'
  BY <1>4, ProcessStep
<1> QED  BY <1>1, <1>2, <1>3, <1>4 DEF Next

\* The system starts with nothing held and its process booting.
LEMMA Start ==
  ASSUME Init
  PROVE  Types /\ (OneSync => SyncInv)
<1>1. \A t \in Actor : task[t] = IF t \in Booting THEN [NoTask EXCEPT !.pc = "boot"] ELSE NoTask
  BY DEF Init, Actor
<1>2. task = [t \in Actor |-> task[t]]
  BY DEF Init, Actor
<1>3. TaskFits([NoTask EXCEPT !.pc = "boot"]) /\ TaskFits(NoTask)
  BY Nothings DEF TaskFits, TaskState
<1>4. \A t \in Actor : TaskFits(task[t])
  BY <1>1, <1>3
<1>5. task \in [Actor -> TaskState]
  BY <1>2, <1>4 DEF TaskFits
<1>6. Types
  <2>1. row \in RowState /\ (row.enabled => row.exists)
    BY Nothings DEF Init
  <2>2. edits \in 0..MaxEdits /\ crashes \in 0..MaxCrashes /\ version \in 0..edits
    BY TriggerAssumption DEF Init
  <2>3. active \in [Process -> Entry]
    BY Nothings DEF Init
  <2>4. failed \in [Process -> BOOLEAN]
    BY DEF Init
  <2>5. made \in Nat /\ live \subseteq Subscription(made)
    BY DEF Init
  <2> QED  BY <1>4, <1>5, <2>1, <2>2, <2>3, <2>4, <2>5 DEF Types
<1>7. ASSUME OneSync PROVE SyncInv
  <2>1. Api \in Actor /\ Process \cap Task = {} /\ \A t \in Actor : t \in Booting <=> t = Api
    BY <1>7, TriggerAssumption DEF OneSync, Actor
  <2>2. task[Api].pc = "boot" /\ \A t \in Actor : t # Api => task[t].pc = "idle"
    BY <1>1, <2>1, Nothings DEF NoTask
  <2>3. live = {} /\ active[Api].id = 0
    BY <1>7, Nothings DEF Init, OneSync
  <2>4. \A t \in Actor : Fits(task[t], row, version, active[Api], live)
    BY <2>2, <2>3 DEF Fits
  <2> QED  BY <2>1, <2>2, <2>4 DEF SyncInv, AtRest, At, Actor
<1> QED  BY <1>6, <1>7

-----------------------------------------------------------------------------
(***************************************************************************)
(* The theorems.                                                           *)
(***************************************************************************)

\* Whatever the processes, the requests and the crashes, the variables have
\* their types.
THEOREM TypesHold == Spec => []TypeOK
<1>1. Init => Types
  BY Start
<1>2. Types /\ [Next]_vars => Types'
  BY TypesStep
<1> QED  BY <1>1, <1>2, TypesImply, PTL DEF Spec

\* The invariant.
THEOREM Invariance == OneSync => (Spec => [](Types /\ SyncInv))
<1> SUFFICES ASSUME OneSync PROVE Spec => [](Types /\ SyncInv)
  OBVIOUS
<1>1. Init => Types /\ SyncInv
  BY Start
<1>2. Types /\ SyncInv /\ [Next]_vars => (Types /\ SyncInv)'
  BY TypesStep, SyncStepHolds
<1> QED  BY <1>1, <1>2, PTL DEF Spec

\* A process that boots before it is asked and syncs one request at a time
\* holds what the row asks for whenever it is at rest.
THEOREM InStepHolds == OneSync => (Spec => []InStep)
<1> SUFFICES ASSUME OneSync PROVE Spec => []InStep
  OBVIOUS
<1>1. Types /\ SyncInv => InStep
  <2> SUFFICES ASSUME Types, SyncInv, AtRest, NEW p \in Booting
               PROVE  IF row.enabled
                      THEN \/ Cardinality(LiveIn(p)) = 1 /\ \A s \in LiveIn(p) : Current(s)
                           \/ LiveIn(p) = {} /\ failed[p]
                      ELSE LiveIn(p) = {}
    BY DEF InStep
  <2>1. p = Api /\ Api \in Actor
    BY DEF OneSync, Actor
  <2>2. LiveIn(p) = live
    BY <2>1, Alone DEF LiveIn
  <2>3. Rests(row, version, active[Api], live, failed[Api])
    BY DEF SyncInv
  <2>4. \A s : Cardinality({s}) = 1
    BY FS_Singleton
  <2> QED  BY <2>1, <2>2, <2>3, <2>4 DEF Rests, Holds, Current
<1> QED  BY <1>1, Invariance, PTL

\* At no time, not even within a restart, do two subscriptions listen.
THEOREM NoEventTwiceHolds == OneSync => (Spec => []NoEventTwice)
<1> SUFFICES ASSUME OneSync PROVE Spec => []NoEventTwice
  OBVIOUS
<1>1. Types /\ SyncInv => NoEventTwice
  <2> SUFFICES ASSUME Types, SyncInv PROVE NoEventTwice
    OBVIOUS
  <2>1. live = {} \/ \E s \in live : live = {s}
    <3>1. CASE \E t \in Actor : task[t].pc # "idle"
      <4>1. PICK t \in Actor : task[t].pc # "idle"
        BY <3>1
      <4>2. task[t].pc \in Places /\ Fits(task[t], row, version, active[Api], live)
        BY TaskStateIs DEF Types, SyncInv
      <4> QED  BY <4>1, <4>2 DEF Places, Fits, Holds
    <3>2. CASE AtRest
      BY <3>2 DEF SyncInv, Rests, Holds
    <3> QED  BY <3>1, <3>2 DEF AtRest, At, Actor
  <2>2. Cardinality({}) = 0 /\ \A s : Cardinality({s}) = 1
    BY FS_EmptySet, FS_Singleton
  <2>3. Cardinality(live) \in {0, 1}
    BY <2>1, <2>2
  <2> QED  BY <2>3 DEF NoEventTwice
<1> QED  BY <1>1, Invariance, PTL
=============================================================================
