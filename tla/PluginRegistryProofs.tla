------------------------ MODULE PluginRegistryProofs ------------------------
(***************************************************************************)
(* The safety properties of PluginRegistry hold for every set of versions,  *)
(* of shipped modules and of concurrent requests, and every threshold.      *)
(***************************************************************************)
EXTENDS PluginRegistry, TLAPS

-----------------------------------------------------------------------------
(***************************************************************************)
(* The inductive invariant, in named parts.                                *)
(***************************************************************************)
\* A default goes away for a moment only under a set-default that runs apart.
NobodyDemoted == ~apart => \A c \in Carriers : req[c].at # "demoted"

\* The reloads the API process still owes: changes it has not read yet.
Owes(c) ==
  Process(c) = Api /\ (req[c].at = "changed" \/ (c = Api /\ req[c].at = "boot"))

\* Unless a reload is owed, what the API process dispatches, or is about to
\* dispatch, is what the rows say.  Reloads do not overlap.
Reloads ==
    ~behind =>
        /\ \A c, d \in Loading(Api) : c = d
        /\ (\A c \in Carriers : ~Owes(c)) =>
              /\ \A c \in Loading(Api) : req[c].snap = Entries
              /\ Loading(Api) = {} => cache[Api] = Entries

\* The worker's streak of a version was made by probes of what is installed.
StreaksAreEarned ==
    \A v \in Versions : v \notin carried =>
        /\ streak[v] <= fails[v]
        /\ probe[v] = "down" => fails[v] >= DownAfter

IInv == TypeOK /\ NobodyDemoted /\ OneVersionUnlessApart /\ Reloads /\ StreaksAreEarned

-----------------------------------------------------------------------------
(***************************************************************************)
(* Type correctness.                                                       *)
(***************************************************************************)
\* Slots and processes carry requests and boots.
LEMMA CarriersAre ==
  /\ Slots \subseteq Carriers /\ Api \in Carriers /\ Worker \in Carriers
  /\ Idle \in CarrierType /\ Booting \in CarrierType /\ Idle.at = "idle" /\ Booting.at = "boot"
  /\ Idle.op \notin OfOneVersion /\ Booting.op \notin OfOneVersion
BY DEF Carriers, Processes, Idle, Booting, CarrierType, Stages, OfOneVersion

\* A flag or a status of a row can be written over.
LEMMA RowWrites ==
  ASSUME NEW r \in RowType, NEW b \in BOOLEAN,
         NEW st \in {"unknown", "healthy", "degraded", "down"}
  PROVE  /\ [r EXCEPT !.enabled = b] \in RowType
         /\ [r EXCEPT !.default = b] \in RowType
         /\ [r EXCEPT !.core = b] \in RowType
         /\ [r EXCEPT !.status = st] \in RowType
BY DEF RowType

\* No row is one; what loadAll makes of the rows is one transport per version.
LEMMA RowsAre ==
  /\ NoRow \in RowType
  /\ row \in [Versions -> RowType] => Entries \in [Versions -> Transports]
BY DEF NoRow, RowType, Transports, Entries

\* A carrier that moves on, or ends, keeps the types of req.
Carried ==
  /\ req \in [Carriers -> CarrierType]
  /\ \A c \in Carriers :
        /\ req[c].at = "loaded" => req[c].snap \in [Versions -> Transports]
        /\ req[c].op \in OfOneVersion => req[c].v \in Versions

\* A carrier may be given anything of its type.
LEMMA CarrierWrites ==
  ASSUME Carried, NEW c \in Carriers, NEW x \in CarrierType, req' = [req EXCEPT ![c] = x],
         x.at = "loaded" => x.snap \in [Versions -> Transports],
         x.op \in OfOneVersion => x.v \in Versions
  PROVE  Carried'
BY DEF Carried

\* A carrier moves on, or ends, within the types.
LEMMA CarrierMoves ==
  ASSUME Carried, NEW c \in Carriers, NEW at \in Stages \ {"loaded"}, Goes(c, at) \/ Ends(c)
  PROVE  Carried'
<1>0. req \in [Carriers -> CarrierType] /\ req[c] \in CarrierType /\ at \in Stages
  BY DEF Carried
<1>1. CASE Goes(c, at)
  <2>1. PICK x : x = [req[c] EXCEPT !.at = at]
    OBVIOUS
  <2>2. x \in CarrierType /\ x.at = at /\ x.op = req[c].op /\ x.v = req[c].v
    BY <1>0, <2>1 DEF CarrierType
  <2>3. req' = [req EXCEPT ![c] = x]
    BY <1>0, <1>1, <2>1 DEF Goes
  <2>4. x.op \in OfOneVersion => x.v \in Versions
    BY <2>2 DEF Carried
  <2>5. QED  BY <2>2, <2>3, <2>4, CarrierWrites
<1>2. CASE Ends(c)
  BY <1>2, CarriersAre, CarrierWrites DEF Ends
<1>3. QED  BY <1>1, <1>2

\* What no request does.
ProcessStep ==
  \/ \E p \in Processes : LoadBuiltins(p)
  \/ \E c \in Carriers : LoadSelect(c) \/ LoadFill(c)
  \/ Pass
  \/ \E v \in Versions : WriteStatus(v) \/ \E ok \in BOOLEAN : Answer(v, ok)
  \/ RestartApi \/ RestartWorker

\* A step is of a request or of a process.
LEMMA NextSteps == Next <=> (\E s \in Slots : Request(s)) \/ ProcessStep
BY DEF Next, ProcessStep

\* The statements of the requests keep the types.
LEMMA TypeRequest ==
  ASSUME TypeOK, NEW s \in Slots, Request(s) PROVE TypeOK'
<1>0. s \in Carriers /\ Carried /\ row \in [Versions -> RowType]
  BY CarriersAre DEF TypeOK, Carried
<1>1. ASSUME NEW op \in Ops, NEW v \in Versions \cup {None}, Receive(s, op, v) PROVE TypeOK'
  <2>1. Carried'
    <3>1. PICK at \in {"changed", "accepted"} : at = IF op = "refresh" THEN "changed" ELSE "accepted"
      OBVIOUS
    <3>2. PICK x : x = [Idle EXCEPT !.op = op, !.v = v, !.at = at]
      OBVIOUS
    <3>3. x = [at |-> at, op |-> op, v |-> v, snap |-> None]
      BY <3>2 DEF Idle
    <3>4. x \in CarrierType /\ x.at # "loaded"
      BY <3>3 DEF CarrierType, Stages
    <3>5. op \in OfOneVersion => v \in Versions
      BY <1>1 DEF Receive
    <3>6. req' = [req EXCEPT ![s] = x]
      BY <1>1, <3>1, <3>2 DEF Receive
    <3>7. QED  BY <1>0, <3>3, <3>4, <3>5, <3>6, CarrierWrites
  <2>2. requests' \in 0 .. MaxRequests
    BY <1>1, NamesAreDistinct DEF Receive, TypeOK
  <2>3. QED  BY <1>1, <2>1, <2>2 DEF Receive, TypeOK, Carried, health
<1>2. ASSUME NEW status \in {"healthy", "degraded"}, PersistPluginRow(s, status) PROVE TypeOK'
  <2> DEFINE v == req[s].v
  <2>1. Carried'
    BY <1>0, <1>2, CarrierMoves DEF PersistPluginRow, Stages
  <2>0. v \in Versions
    BY <1>0, <1>2 DEF PersistPluginRow, At, Carried, OfOneVersion
  <2>2. CASE Installable(v)
    <3>1. PICK b \in BOOLEAN : b = (v \notin Installed \/ row[v].default)
      OBVIOUS
    <3>2. row' = [row EXCEPT ![v] = [kind |-> "http", core |-> FALSE, enabled |-> TRUE,
                                     default |-> b, status |-> status]]
      BY <1>2, <2>2, <3>1, Zenon DEF PersistPluginRow
    <3>3. [kind |-> "http", core |-> FALSE, enabled |-> TRUE, default |-> b, status |-> status]
             \in RowType
      BY <1>2 DEF RowType, Transports
    <3>0. row' \in [Versions -> RowType]
      BY <1>0, <3>2, <3>3
    <3>4. fails' \in [Versions -> 0 .. DownAfter]
      <4>1. fails' = [fails EXCEPT ![v] = 0] /\ fails \in [Versions -> 0 .. DownAfter]
        BY <1>2, <2>2 DEF PersistPluginRow, TypeOK
      <4>2. 0 \in 0 .. DownAfter
        BY NamesAreDistinct
      <4>3. QED  BY <4>1, <4>2
    <3>5. carried' \subseteq Versions
      BY <1>2, <2>0, <2>2 DEF PersistPluginRow, TypeOK
    <3>6. QED  BY <1>2, <2>1, <3>0, <3>4, <3>5 DEF PersistPluginRow, TypeOK, Carried
  <2>3. CASE ~Installable(v)
    BY <1>2, <2>1, <2>3 DEF PersistPluginRow, TypeOK, Carried
  <2>4. QED  BY <2>2, <2>3
<1>3. CASE SetEnabled(s)
  <2>1. Carried'
    BY <1>0, <1>3, CarrierMoves DEF SetEnabled, Stages
  <2>2. PICK b \in BOOLEAN : b = (req[s].op = "enable")
    OBVIOUS
  <2>3. row' = [v \in Versions |-> IF v \in Installed THEN [row[v] EXCEPT !.enabled = b] ELSE row[v]]
    BY <1>3, <2>2, Zenon DEF SetEnabled
  <2>4. row' \in [Versions -> RowType]
    BY <1>0, <2>3, RowWrites
  <2>5. QED  BY <1>3, <2>1, <2>4 DEF SetEnabled, TypeOK, Carried, health
<1>4. CASE CheckSource(s)
  <2>1. Carried'
    BY <1>0, <1>4, CarrierMoves DEF CheckSource, Stages
  <2>2. QED  BY <1>4, <2>1 DEF CheckSource, TypeOK, Carried, health
<1>5. CASE Uninstall(s)
  <2>1. Carried'
    BY <1>0, <1>5, CarrierMoves DEF Uninstall, Stages
  <2>2. row' \in [Versions -> RowType]
    BY <1>0, <1>5, RowsAre DEF Uninstall
  <2>3. QED  BY <1>5, <2>1, <2>2 DEF Uninstall, TypeOK, Carried, health
<1>6. CASE SetDefault(s) \/ DemoteApart(s) \/ PromoteApart(s)
  <2>1. Carried'
    BY <1>0, <1>6, CarrierMoves DEF SetDefault, DemoteApart, PromoteApart, Stages
  <2>2. Demoted \in [Versions -> RowType]
    BY <1>0, RowWrites DEF Demoted
  <2>3. ASSUME NEW r \in [Versions -> RowType], NEW v \in Versions
        PROVE  [r EXCEPT ![v].default = TRUE] \in [Versions -> RowType]
    BY RowWrites
  <2>4. row' \in [Versions -> RowType]
    BY <1>0, <1>6, <2>2, <2>3 DEF SetDefault, DemoteApart, PromoteApart, Installed
  <2>5. QED
    BY <1>6, <2>1, <2>4 DEF SetDefault, DemoteApart, PromoteApart, TypeOK, Carried, health
<1>7. CASE Drop(s)
  <2>1. Carried'
    BY <1>0, <1>7, CarrierMoves DEF Drop, Stages
  <2>2. QED  BY <1>7, <2>1 DEF Drop, TypeOK, Carried, health
<1>8. QED  BY <1>1, <1>2, <1>3, <1>4, <1>5, <1>6, <1>7 DEF Request

\* So do boots, reloads, health checks and restarts.
LEMMA TypeProcess ==
  ASSUME TypeOK, ProcessStep PROVE TypeOK'
<1>0. Carried /\ row \in [Versions -> RowType] /\ Processes \subseteq Carriers
  BY DEF TypeOK, Carried, Carriers
<1>1. ASSUME NEW p \in Processes, LoadBuiltins(p) PROVE TypeOK'
  <2>1. Carried'
    BY <1>0, <1>1, CarrierMoves DEF LoadBuiltins, Stages
  <2>2. ASSUME NEW v \in Shipped PROVE UpsertBuiltin(v) \in [Versions -> RowType]
    <3>1. v \in Versions /\ row[v] \in RowType
      BY <1>0, <2>2, NamesAreDistinct
    <3>2. [kind |-> "in-process", core |-> TRUE, enabled |-> TRUE, default |-> TRUE,
           status |-> "healthy"] \in RowType
      BY DEF RowType, Transports
    <3>3. PICK x, y : x = [row[v] EXCEPT !.status = "healthy"] /\ y = [x EXCEPT !.core = TRUE]
      OBVIOUS
    <3>4. x \in RowType /\ y \in RowType
      BY <3>1, <3>3, RowWrites
    <3>5. [row EXCEPT ![v].status = "healthy", ![v].core = TRUE] = [row EXCEPT ![v] = y]
      BY <1>0, <3>1, <3>3
    <3>6. QED  BY <1>0, <3>1, <3>2, <3>4, <3>5 DEF UpsertBuiltin
  <2>3. behind' \in BOOLEAN
    BY <1>1 DEF LoadBuiltins, TypeOK
  <2>4. QED  BY <1>0, <1>1, <2>1, <2>2, <2>3 DEF LoadBuiltins, TypeOK, Carried, health
<1>2. ASSUME NEW c \in Carriers, LoadSelect(c) PROVE TypeOK'
  <2>1. Carried'
    <3>1. PICK x : x = [req[c] EXCEPT !.at = "loaded", !.snap = Entries]
      OBVIOUS
    <3>2. Entries \in [Versions -> Transports] /\ req[c] \in CarrierType
      BY <1>0, RowsAre DEF Carried
    <3>3. x \in CarrierType /\ x.snap = Entries /\ x.op = req[c].op /\ x.v = req[c].v
      BY <3>1, <3>2 DEF CarrierType, Stages
    <3>4. req' = [req EXCEPT ![c] = x]
      BY <1>0, <1>2, <3>1 DEF LoadSelect, Carried
    <3>5. x.op \in OfOneVersion => x.v \in Versions
      BY <1>0, <3>3 DEF Carried
    <3>6. QED  BY <1>0, <3>2, <3>3, <3>4, <3>5, CarrierWrites
  <2>2. behind' \in BOOLEAN
    BY <1>2 DEF LoadSelect, TypeOK
  <2>3. QED  BY <1>2, <2>1, <2>2 DEF LoadSelect, TypeOK, Carried, health
<1>3. ASSUME NEW c \in Carriers, LoadFill(c) PROVE TypeOK'
  <2>1. Carried'
    BY <1>0, <1>3, CarrierMoves DEF LoadFill, Stages
  <2>2. Process(c) \in Processes /\ req[c].snap \in [Versions -> Transports]
    BY <1>0, <1>3 DEF LoadFill, Carried, Process, Processes
  <2>3. QED  BY <1>3, <2>1, <2>2 DEF LoadFill, TypeOK, Carried, health
<1>4. CASE Pass
  BY <1>4 DEF Pass, TypeOK
<1>5. ASSUME NEW v \in Versions, WriteStatus(v) PROVE TypeOK'
  <2>1. [row[v] EXCEPT !.status = probe[v]] \in RowType
    BY <1>0, <1>5 DEF WriteStatus, RowType
  <2>2. row' \in [Versions -> RowType]
    BY <1>0, <1>5, <2>1 DEF WriteStatus
  <2>3. QED  BY <1>5, <2>2 DEF WriteStatus, TypeOK
<1>6. ASSUME NEW v \in Versions, NEW ok \in BOOLEAN, Answer(v, ok) PROVE TypeOK'
  <2>1. streak[v] \in 0 .. DownAfter /\ fails[v] \in 0 .. DownAfter /\ DownAfter \in Nat
    BY NamesAreDistinct DEF TypeOK
  <2>2. Streak(v, ok) \in 0 .. DownAfter /\ Capped(fails[v] + 1) \in 0 .. DownAfter
    BY <2>1, NamesAreDistinct DEF Streak, Capped
  <2>3. streak' \in [Versions -> 0 .. DownAfter] /\ fails' \in [Versions -> 0 .. DownAfter]
    BY <1>6, <2>1, <2>2 DEF Answer, TypeOK
  <2>4. QED  BY <1>6, <2>3 DEF Answer, TypeOK
<1>7. CASE RestartApi
  <2>1. Carried'
    BY <1>0, <1>7, CarriersAre DEF RestartApi, Carried
  <2>2. cache' \in [Processes -> [Versions -> Transports]]
    BY <1>7 DEF RestartApi, TypeOK, Empty, Transports
  <2>3. QED  BY <1>7, <2>1, <2>2 DEF RestartApi, TypeOK, Carried, health
<1>8. CASE RestartWorker
  <2>1. Carried'
    BY <1>0, <1>8, CarriersAre DEF RestartWorker, Carried
  <2>2. cache' \in [Processes -> [Versions -> Transports]]
    BY <1>8 DEF RestartWorker, TypeOK, Empty, Transports
  <2>3. QED
    BY <1>8, <2>1, <2>2, NamesAreDistinct DEF RestartWorker, TypeOK, Carried
<1>9. QED  BY <1>1, <1>2, <1>3, <1>4, <1>5, <1>6, <1>7, <1>8 DEF ProcessStep

\* The catalogue starts well typed.
LEMMA TypeInit == Init => TypeOK
<1> SUFFICES ASSUME Init PROVE TypeOK
  OBVIOUS
<1>1. req \in [Carriers -> CarrierType]
  BY CarriersAre DEF Init
<1>2. \A c \in Carriers : req[c].at # "loaded" /\ req[c].op \notin OfOneVersion
  BY CarriersAre DEF Init
<1>3. cache \in [Processes -> [Versions -> Transports]]
  BY DEF Init, Empty, Transports
<1>4. row \in [Versions -> RowType]
  BY RowsAre DEF Init
<1>5. 0 \in 0 .. DownAfter /\ 0 \in 0 .. MaxRequests
  BY NamesAreDistinct
<1>6. QED  BY <1>1, <1>2, <1>3, <1>4, <1>5 DEF Init, TypeOK

\* Every step keeps the types.
LEMMA TypeStep ==
  ASSUME TypeOK, [Next]_vars PROVE TypeOK'
<1>1. CASE UNCHANGED vars
  BY <1>1 DEF vars, TypeOK
<1>2. ASSUME NEW s \in Slots, Request(s) PROVE TypeOK'
  BY <1>2, TypeRequest
<1>3. ASSUME ProcessStep PROVE TypeOK'
  BY <1>3, TypeProcess
<1>4. QED  BY <1>1, <1>2, <1>3, NextSteps

-----------------------------------------------------------------------------
(***************************************************************************)
(* One version, unless a set-default ran apart.                            *)
(***************************************************************************)
\* Without a set-default apart nobody stands between its two UPDATEs.
LEMMA DemotionStep ==
  ASSUME TypeOK, NobodyDemoted, [Next]_vars PROVE NobodyDemoted'
<1> SUFFICES ASSUME NEW c \in Carriers, ~apart', req'[c].at = "demoted" PROVE FALSE
  BY DEF NobodyDemoted
<1> USE CarriersAre DEF TypeOK
<1>1. apart' = apart => req[c].at # "demoted"
  BY DEF NobodyDemoted
<1>2. CASE req' = req /\ apart' = apart
  BY <1>1, <1>2
<1>3. ASSUME NEW d \in Carriers, NEW at \in Stages \ {"demoted"},
             Goes(d, at) \/ Ends(d), apart' = apart
      PROVE  FALSE
  <2>1. CASE Goes(d, at)
    <3>1. req'[c].at = IF c = d THEN at ELSE req[c].at
      BY <2>1 DEF Goes, CarrierType
    <3>2. QED  BY <1>1, <1>3, <3>1
  <2>2. CASE Ends(d)
    <3>1. req'[c] = IF c = d THEN Idle ELSE req[c]
      BY <2>2 DEF Ends
    <3>2. QED  BY <1>1, <1>3, <3>1
  <2>3. QED  BY <1>3, <2>1, <2>2
<1>4. ASSUME NEW s \in Slots, Request(s) PROVE FALSE
  <2>1. CASE \E op \in Ops, v \in Versions \cup {None} : Receive(s, op, v)
    BY <1>1, <2>1 DEF Receive
  <2>2. CASE \E status \in {"healthy", "degraded"} : PersistPluginRow(s, status)
    BY <1>3, <2>2 DEF PersistPluginRow, Stages
  <2>3. CASE SetEnabled(s) \/ CheckSource(s) \/ Uninstall(s)
    BY <1>3, <2>3 DEF SetEnabled, CheckSource, Uninstall, Stages
  <2>4. CASE SetDefault(s) \/ DemoteApart(s)
    BY <1>3, <2>4 DEF SetDefault, DemoteApart, Stages
  <2>5. CASE PromoteApart(s) \/ Drop(s)
    BY <1>3, <2>5 DEF PromoteApart, Drop, Stages
  <2>6. QED  BY <1>4, <2>1, <2>2, <2>3, <2>4, <2>5 DEF Request
<1>5. CASE ProcessStep
  <2>1. CASE \E p \in Processes : LoadBuiltins(p)
    BY <1>3, <2>1 DEF LoadBuiltins, Stages, Carriers
  <2>2. ASSUME NEW d \in Carriers, LoadSelect(d) PROVE FALSE
    BY <1>1, <2>2 DEF LoadSelect
  <2>3. ASSUME NEW d \in Carriers, LoadFill(d) PROVE FALSE
    BY <1>3, <2>3 DEF LoadFill, Stages
  <2>4. CASE RestartApi \/ RestartWorker
    <3>1. req'[c] \in {req[c], Booting, Idle} /\ apart' = apart
      BY <2>4 DEF RestartApi, RestartWorker
    <3>2. req'[c].at \in {req[c].at, "boot", "idle"}
      BY <3>1
    <3>3. QED  BY <1>1, <3>1, <3>2
  <2>5. QED
    BY <1>2, <1>5, <2>1, <2>2, <2>3, <2>4 DEF ProcessStep, Pass, WriteStatus, Answer
<1>6. QED  BY <1>2, <1>4, <1>5, NextSteps DEF vars

\* A write that installs v finds no other version; no write lets a row go
\* without its default.
KeepsOne ==
  /\ Installed' \subseteq Installed \/ (Installed = {} /\ \E v \in Versions : Installed' = {v})
  /\ \A v \in Installed' : row'[v].default

\* Only a set-default that runs apart sets the flag.
LEMMA ApartIsKept ==
  ASSUME [Next]_vars, ~apart' PROVE apart' = apart
<1>1. ASSUME NEW s \in Slots, Request(s) PROVE apart' = apart
  BY <1>1 DEF Request, Receive, PersistPluginRow, SetEnabled, CheckSource, Uninstall, SetDefault,
              DemoteApart, PromoteApart, Drop
<1>2. CASE ProcessStep
  BY <1>2 DEF ProcessStep, LoadBuiltins, LoadSelect, LoadFill, Pass, WriteStatus, Answer,
              RestartApi, RestartWorker
<1>3. CASE UNCHANGED vars
  BY <1>3 DEF vars
<1>4. QED  BY <1>1, <1>2, <1>3, NextSteps

\* Every write of rows is of that kind, and so an installed plugin keeps to one version.
LEMMA OneVersionStep ==
  ASSUME TypeOK, NobodyDemoted, OneVersionUnlessApart, [Next]_vars
  PROVE  OneVersionUnlessApart'
<1> SUFFICES ASSUME ~apart' PROVE \A v \in Installed' : row'[v].default /\ Installed' = {v}
  BY DEF OneVersionUnlessApart
<1>0. /\ row \in [Versions -> RowType]
      /\ Installed = {v \in Versions : row[v].kind # "none"}
      /\ Installed' = {v \in Versions : row'[v].kind # "none"}
  BY DEF TypeOK, Installed
<1>1. ASSUME apart' = apart PROVE \A v \in Installed : row[v].default /\ Installed = {v}
  BY <1>1 DEF OneVersionUnlessApart
<1>2. SUFFICES ASSUME apart' = apart PROVE KeepsOne
  <2>1. apart' = apart
    BY ApartIsKept
  <2>2. KeepsOne => \A v \in Installed' : row'[v].default /\ Installed' = {v}
    BY <1>1, <2>1 DEF KeepsOne
  <2>3. QED  BY <1>2, <2>1, <2>2
<1>3. CASE row' = row
  BY <1>0, <1>1, <1>2, <1>3 DEF KeepsOne
<1>4. ASSUME NEW s \in Slots, Request(s) PROVE KeepsOne
  <2>1. CASE \E op \in Ops, v \in Versions \cup {None} : Receive(s, op, v)
    BY <1>3, <2>1 DEF Receive
  <2>2. ASSUME NEW status \in {"healthy", "degraded"}, PersistPluginRow(s, status) PROVE KeepsOne
    <3>1. CASE ~Installable(req[s].v)
      BY <1>3, <2>2, <3>1 DEF PersistPluginRow
    <3>2. CASE Installable(req[s].v)
      <4> DEFINE v == req[s].v
      <4>1. v \in Versions
        BY <2>2, CarriersAre DEF PersistPluginRow, At, TypeOK, OfOneVersion
      <4>2. v \in Installed \/ Installed = {}
        BY <1>1, <1>2, <3>2 DEF Installable, DefaultTaken
      <4>3. /\ \A w \in Versions \ {v} : row'[w] = row[w]
            /\ row'[v].kind = "http" /\ row'[v].default = (v \notin Installed \/ row[v].default)
        BY <1>0, <2>2, <3>2, <4>1 DEF PersistPluginRow
      <4>4. row'[v].default
        BY <1>1, <1>2, <4>2, <4>3
      <4>5. Installed' = Installed \cup {v}
        BY <1>0, <4>1, <4>3
      <4>6. QED  BY <1>1, <1>2, <4>1, <4>2, <4>3, <4>4, <4>5 DEF KeepsOne
    <3>3. QED  BY <3>1, <3>2
  <2>3. CASE SetEnabled(s)
    <3>1. \A v \in Versions : row'[v].kind = row[v].kind /\ row'[v].default = row[v].default
      BY <1>0, <2>3 DEF SetEnabled, RowType
    <3>2. QED  BY <1>0, <1>1, <1>2, <3>1 DEF KeepsOne
  <2>4. CASE CheckSource(s) \/ Drop(s)
    BY <1>3, <2>4 DEF CheckSource, Drop
  <2>5. CASE Uninstall(s)
    BY <1>0, <1>1, <1>2, <2>5 DEF Uninstall, NoRow, KeepsOne
  <2>6. CASE SetDefault(s)
    <3>1. CASE row' = row
      BY <1>3, <3>1
    <3>2. CASE row' # row
      <4> DEFINE v == req[s].v
      <4>1. v \in Installed /\ Installed = {v}
        BY <1>1, <1>2, <2>6, <3>2 DEF SetDefault
      <4>2. row' = [Demoted EXCEPT ![v].default = TRUE] /\ v \in Versions
        BY <1>0, <2>6, <4>1 DEF SetDefault
      <4>3. Demoted \in [Versions -> RowType]
        BY <1>0, RowWrites DEF Demoted
      <4>4. \A w \in Versions : Demoted[w].kind = row[w].kind
        BY <1>0 DEF Demoted, RowType
      <4>5. \A w \in Versions : row'[w] = IF w = v THEN [Demoted[w] EXCEPT !.default = TRUE]
                                         ELSE Demoted[w]
        BY <4>2, <4>3
      <4>6. \A w \in Versions : row'[w].kind = row[w].kind /\ (w = v => row'[w].default)
        <5>1. ASSUME NEW w \in Versions
              PROVE  row'[w].kind = row[w].kind /\ (w = v => row'[w].default)
          <6>1. PICK r \in RowType : r = Demoted[w]
            BY <4>3
          <6>2. [r EXCEPT !.default = TRUE].kind = r.kind /\ [r EXCEPT !.default = TRUE].default
            BY DEF RowType
          <6>3. row'[w] = IF w = v THEN [r EXCEPT !.default = TRUE] ELSE r
            BY <4>5, <6>1
          <6>4. r.kind = row[w].kind
            BY <4>4, <6>1
          <6>5. CASE w = v
            BY <6>2, <6>3, <6>4, <6>5
          <6>6. CASE w # v
            BY <6>3, <6>4, <6>6
          <6>7. QED  BY <6>5, <6>6
        <5>2. QED  BY <5>1
      <4>7. QED  BY <1>0, <4>1, <4>6 DEF KeepsOne
    <3>3. QED  BY <3>1, <3>2
  <2>7. CASE DemoteApart(s)
    BY <2>7 DEF DemoteApart
  <2>8. CASE PromoteApart(s)
    BY <1>2, <2>8, CarriersAre DEF PromoteApart, NobodyDemoted
  <2>9. QED  BY <1>4, <2>1, <2>2, <2>3, <2>4, <2>5, <2>6, <2>7, <2>8 DEF Request
<1>5. ASSUME NEW v \in Versions, row' = UpsertBuiltin(v) PROVE KeepsOne
  <2>1. CASE row' = row
    BY <1>3, <2>1
  <2>2. CASE v \in Installed /\ row' # row
    <3>1. \A w \in Versions : row'[w].kind = row[w].kind /\ row'[w].default = row[w].default
      <4>1. row' = [row EXCEPT ![v].status = "healthy", ![v].core = TRUE]
        BY <1>5, <2>2 DEF UpsertBuiltin
      <4>2. ASSUME NEW w \in Versions
            PROVE  row'[w].kind = row[w].kind /\ row'[w].default = row[w].default
        BY <1>0, <4>1 DEF RowType
      <4>3. QED  BY <4>2
    <3>2. QED  BY <1>0, <1>1, <1>2, <3>1 DEF KeepsOne
  <2>3. CASE v \notin Installed /\ row' # row
    <3>1. Installed = {}
      BY <1>1, <1>2, <1>5, <2>3 DEF UpsertBuiltin, DefaultTaken
    <3>2. /\ \A w \in Versions \ {v} : row'[w] = row[w]
          /\ row'[v].kind = "in-process" /\ row'[v].default
      BY <1>0, <1>5, <2>3 DEF UpsertBuiltin
    <3>3. Installed' = {v}
      BY <1>0, <3>1, <3>2
    <3>4. QED  BY <3>1, <3>2, <3>3 DEF KeepsOne
  <2>4. QED  BY <2>1, <2>2, <2>3
<1>6. CASE ProcessStep
  <2>1. ASSUME NEW v \in Versions, WriteStatus(v) PROVE KeepsOne
    <3>1. \A w \in Versions : row'[w].kind = row[w].kind /\ row'[w].default = row[w].default
      BY <1>0, <2>1 DEF WriteStatus, RowType
    <3>2. QED  BY <1>0, <1>1, <1>2, <3>1 DEF KeepsOne
  <2>2. ASSUME NEW p \in Processes, LoadBuiltins(p) PROVE KeepsOne
    BY <1>3, <1>5, <2>2, NamesAreDistinct DEF LoadBuiltins
  <2>3. QED
    BY <1>3, <1>6, <2>1, <2>2 DEF ProcessStep, LoadSelect, LoadFill, Pass, Answer, RestartApi,
                                  RestartWorker
<1>7. QED  BY <1>3, <1>4, <1>6, NextSteps DEF vars

-----------------------------------------------------------------------------
(***************************************************************************)
(* The registry of the API process follows the rows.                       *)
(***************************************************************************)
\* A step that starts and ends no reload keeps the accounts, if it leaves the
\* rows as loadAll sees them or a reload is owed.
QuietFor(c) ==
  \/ req'[c] = req[c]
  \/ c = Worker
  \/ req[c].at # "loaded" /\ req'[c].at # "loaded" /\ (Owes(c) => Owes(c)')

\* Quiet steps keep the accounts of reloads.
LEMMA QuietStep ==
  ASSUME Reloads, behind => behind', cache'[Api] = cache[Api],
         \A c \in Carriers : QuietFor(c),
         Entries' = Entries \/ \E c \in Carriers : Owes(c)'
  PROVE  Reloads'
<1> SUFFICES ASSUME ~behind' PROVE
      /\ \A c, d \in Loading(Api)' : c = d
      /\ (\A c \in Carriers : ~Owes(c)') =>
            /\ \A c \in Loading(Api)' : req'[c].snap = Entries'
            /\ Loading(Api)' = {} => cache'[Api] = Entries'
  BY DEF Reloads
<1>1. Loading(Api)' = Loading(Api) /\ \A c \in Loading(Api) : req'[c] = req[c]
  BY NamesAreDistinct DEF Loading, QuietFor, Process
<1>2. \A c \in Carriers : Owes(c) => Owes(c)'
  BY NamesAreDistinct DEF QuietFor, Owes, Process
<1>3. QED  BY <1>1, <1>2 DEF Reloads

\* loadAll dispatches by what a set-default or a health check leaves alone.
LEMMA SameEntries ==
  ASSUME \A v \in Versions : row'[v].enabled = row[v].enabled /\ row'[v].kind = row[v].kind
  PROVE  Entries' = Entries
BY DEF Entries

\* A request that changes what loadAll sees goes on to reload.
LEMMA ReloadsRequest ==
  ASSUME TypeOK, TypeOK', Reloads, NEW s \in Slots, Request(s) PROVE Reloads'
<1>0. /\ s \in Carriers /\ Process(s) = Api /\ s # Worker
      /\ req \in [Carriers -> CarrierType] /\ row \in [Versions -> RowType]
  BY CarriersAre, NamesAreDistinct DEF Process, TypeOK
<1>1. ASSUME req[s].at \notin {"changed", "loaded"}, UNCHANGED <<cache, behind>>,
             NEW at \in Stages \ {"loaded"}, Goes(s, at) \/ Ends(s),
             Entries' = Entries \/ Goes(s, "changed")
      PROVE  Reloads'
  <2>1. \A c \in Carriers : QuietFor(c)
    BY <1>0, <1>1, CarriersAre, NamesAreDistinct DEF QuietFor, Goes, Ends, Owes, CarrierType
  <2>2. Goes(s, "changed") => Owes(s)'
    BY <1>0 DEF Goes, Owes, CarrierType
  <2>3. QED  BY <1>0, <1>1, <2>1, <2>2, QuietStep
<1>2. ASSUME NEW op \in Ops, NEW v \in Versions \cup {None}, Receive(s, op, v) PROVE Reloads'
  <2>1. \A c \in Carriers : QuietFor(c)
    BY <1>0, <1>2, CarriersAre DEF QuietFor, Receive, Owes, CarrierType, Idle
  <2>2. Entries' = Entries
    BY <1>2, SameEntries DEF Receive
  <2>3. QED  BY <1>2, <2>1, <2>2, QuietStep DEF Receive
<1>3. ASSUME row' = row PROVE Entries' = Entries
  BY <1>3 DEF Entries
<1>4. ASSUME NEW status \in {"healthy", "degraded"}, PersistPluginRow(s, status) PROVE Reloads'
  BY <1>1, <1>3, <1>4 DEF PersistPluginRow, At, Stages
<1>5. CASE SetEnabled(s)
  <2>1. CASE Installed = {}
    <3>1. \A v \in Versions : row'[v] = row[v]
      BY <1>5, <2>1 DEF SetEnabled
    <3>2. Entries' = Entries
      BY <3>1, SameEntries
    <3>3. QED  BY <1>1, <1>5, <2>1, <3>2 DEF SetEnabled, At, Stages
  <2>2. CASE Installed # {}
    BY <1>1, <1>5, <2>2 DEF SetEnabled, At, Stages
  <2>3. QED  BY <2>1, <2>2
<1>6. CASE CheckSource(s) \/ Uninstall(s)
  BY <1>1, <1>3, <1>6 DEF CheckSource, Uninstall, At, Stages
<1>7. CASE SetDefault(s)
  BY <1>1, <1>3, <1>7 DEF SetDefault, At, Stages
<1>8. ASSUME row' = Demoted PROVE Entries' = Entries
  <2>1. \A v \in Versions : Demoted[v].enabled = row[v].enabled /\ Demoted[v].kind = row[v].kind
    BY <1>0 DEF Demoted, RowType
  <2>2. QED  BY <1>8, <2>1, SameEntries
<1>9. CASE DemoteApart(s)
  BY <1>0, <1>1, <1>8, <1>9 DEF DemoteApart, At, Stages
<1>10. CASE PromoteApart(s)
  BY <1>1, <1>3, <1>10 DEF PromoteApart, At, Stages
<1>11. CASE Drop(s)
  <2>1. CASE req[s].at \in {"changed", "loaded"}
    BY <1>11, <2>1 DEF Drop, Reloads
  <2>2. CASE req[s].at \notin {"changed", "loaded"}
    <3>1. \A c \in Carriers : QuietFor(c)
      BY <1>0, <1>11, <2>2, CarriersAre, NamesAreDistinct DEF QuietFor, Drop, Ends, Owes
    <3>2. QED  BY <1>3, <1>11, <3>1, QuietStep DEF Drop
  <2>3. QED  BY <2>1, <2>2
<1>12. QED
  BY <1>2, <1>4, <1>5, <1>6, <1>7, <1>9, <1>10, <1>11 DEF Request

\* Boots and reloads of one process settle its accounts; the worker's do not touch them.
LEMMA ReloadsProcess ==
  ASSUME TypeOK, TypeOK', Reloads, ProcessStep PROVE Reloads'
<1>0. /\ req \in [Carriers -> CarrierType] /\ row \in [Versions -> RowType]
      /\ cache \in [Processes -> [Versions -> Transports]]
      /\ Processes \subseteq Carriers /\ Api # Worker /\ Api \in Processes /\ Worker \in Processes
      /\ \A c \in Carriers : Process(c) = Worker <=> c = Worker
      /\ \A c \in Carriers : c # Worker => Process(c) = Api
  BY NamesAreDistinct DEF TypeOK, Process, Carriers, Processes
<1>1. ASSUME row' = row PROVE Entries' = Entries
  BY <1>1 DEF Entries
<1>2. ASSUME NEW p \in Processes, LoadBuiltins(p) PROVE Reloads'
  <2>1. \A c \in Carriers : QuietFor(c)
    BY <1>0, <1>2 DEF LoadBuiltins, QuietFor, Goes, Owes, CarrierType
  <2>2. CASE row' = row
    BY <1>1, <1>2, <2>1, <2>2, QuietStep DEF LoadBuiltins
  <2>3. CASE row' # row
    BY <1>2, <2>3 DEF LoadBuiltins, Reloads
  <2>4. QED  BY <2>2, <2>3
<1>3. ASSUME NEW c \in Carriers, LoadSelect(c) PROVE Reloads'
  <2>1. CASE c = Worker
    <3>1. \A d \in Carriers : QuietFor(d)
      BY <1>0, <1>3, <2>1 DEF LoadSelect, QuietFor
    <3>2. QED  BY <1>0, <1>1, <1>3, <2>1, <3>1, QuietStep DEF LoadSelect
  <2>2. CASE c # Worker /\ Loading(Api) # {}
    BY <1>0, <1>3, <2>2 DEF LoadSelect, Reloads
  <2>3. CASE c # Worker /\ Loading(Api) = {}
    <3>1. req'[c].snap = Entries' /\ \A d \in Carriers \ {c} : req'[d] = req[d]
      BY <1>0, <1>1, <1>3 DEF LoadSelect, CarrierType
    <3>2. Loading(Api)' = {c}
      BY <1>0, <1>3, <2>3, <3>1 DEF LoadSelect, Loading, CarrierType
    <3>3. QED  BY <3>1, <3>2 DEF Reloads
  <2>4. QED  BY <2>1, <2>2, <2>3
<1>4. ASSUME NEW c \in Carriers, LoadFill(c) PROVE Reloads'
  <2>1. CASE c = Worker
    <3>1. \A d \in Carriers : QuietFor(d)
      BY <1>0, <1>4, <2>1 DEF LoadFill, Ends, QuietFor
    <3>2. cache'[Api] = cache[Api]
      BY <1>0, <1>4, <2>1 DEF LoadFill
    <3>3. QED  BY <1>0, <1>1, <1>4, <3>1, <3>2, QuietStep DEF LoadFill
  <2>2. CASE c # Worker
    <3>1. cache'[Api] = req[c].snap /\ c \in Loading(Api)
      BY <1>0, <1>4, <2>2 DEF LoadFill, Loading
    <3>2. req'[c].at = "idle" /\ \A d \in Carriers \ {c} : req'[d] = req[d]
      BY <1>0, <1>4, CarriersAre DEF LoadFill, Ends
    <3>3. \A d \in Carriers : Owes(d)' <=> Owes(d)
      BY <1>4, <3>2 DEF Owes, LoadFill
    <3>4. Loading(Api)' = Loading(Api) \ {c}
      BY <3>2 DEF Loading
    <3>5. Entries' = Entries /\ behind' = behind
      BY <1>1, <1>4 DEF LoadFill
    <3>6. QED  BY <3>1, <3>2, <3>3, <3>4, <3>5 DEF Reloads
  <2>3. QED  BY <2>1, <2>2
<1>5. CASE RestartApi
  <2>1. req'[Api] = Booting /\ \A c \in Slots : req'[c] = Idle
    <3>1. \A c \in Carriers : req'[c] = IF c = Api THEN Booting ELSE IF c \in Slots THEN Idle ELSE req[c]
      BY <1>5 DEF RestartApi
    <3>2. QED  BY <1>0, <3>1, CarriersAre, NamesAreDistinct
  <2>2. \A c \in Carriers \ {Worker} : c = Api \/ c \in Slots
    BY DEF Carriers, Processes
  <2>3. Owes(Api)' /\ Loading(Api)' = {}
    BY <1>0, <2>1, <2>2, CarriersAre DEF Owes, Loading
  <2>4. QED  BY <1>0, <2>3 DEF Reloads
<1>6. CASE RestartWorker
  <2>1. \A d \in Carriers : QuietFor(d)
    BY <1>0, <1>6 DEF RestartWorker, QuietFor
  <2>2. cache'[Api] = cache[Api]
    BY <1>0, <1>6 DEF RestartWorker
  <2>3. QED  BY <1>1, <1>6, <2>1, <2>2, QuietStep DEF RestartWorker
<1>7. ASSUME NEW v \in Versions, WriteStatus(v) PROVE Reloads'
  <2>1. \A w \in Versions : row'[w].enabled = row[w].enabled /\ row'[w].kind = row[w].kind
    BY <1>0, <1>7 DEF WriteStatus, RowType
  <2>2. \A c \in Carriers : QuietFor(c)
    BY <1>7 DEF WriteStatus, QuietFor
  <2>3. QED  BY <1>7, <2>1, <2>2, SameEntries, QuietStep DEF WriteStatus
<1>8. CASE Pass \/ \E v \in Versions, ok \in BOOLEAN : Answer(v, ok)
  <2>1. \A c \in Carriers : QuietFor(c)
    BY <1>8 DEF Pass, Answer, QuietFor
  <2>2. QED  BY <1>1, <1>8, <2>1, QuietStep DEF Pass, Answer
<1>9. QED  BY <1>2, <1>3, <1>4, <1>5, <1>6, <1>7, <1>8 DEF ProcessStep

\* Every step keeps the accounts of reloads.
LEMMA ReloadsStep ==
  ASSUME TypeOK, TypeOK', Reloads, [Next]_vars PROVE Reloads'
<1>1. CASE UNCHANGED vars
  BY <1>1 DEF vars, Reloads, Loading, Owes, Entries
<1>2. ASSUME NEW s \in Slots, Request(s) PROVE Reloads'
  BY <1>2, ReloadsRequest
<1>3. QED  BY <1>1, <1>2, ReloadsProcess, NextSteps

-----------------------------------------------------------------------------
(***************************************************************************)
(* Reported down.                                                          *)
(***************************************************************************)
\* A failed probe counts for the streak and for what is installed alike.
LEMMA StreaksStep ==
  ASSUME TypeOK, StreaksAreEarned, [Next]_vars PROVE StreaksAreEarned'
<1> SUFFICES ASSUME NEW v \in Versions, v \notin carried'
             PROVE  streak'[v] <= fails'[v] /\ (probe'[v] = "down" => fails'[v] >= DownAfter)
  BY DEF StreaksAreEarned
<1>0. /\ streak[v] \in 0 .. DownAfter /\ fails[v] \in 0 .. DownAfter /\ DownAfter \in Nat \ {0}
      /\ v \notin carried =>
           streak[v] <= fails[v] /\ (probe[v] = "down" => fails[v] >= DownAfter)
  BY NamesAreDistinct DEF TypeOK, StreaksAreEarned
<1>1. CASE streak'[v] = streak[v] /\ fails'[v] = fails[v] /\ carried' = carried
           /\ (probe'[v] = "down" => probe[v] = "down")
  BY <1>0, <1>1
<1>2. ASSUME NEW s \in Slots, NEW status \in {"healthy", "degraded"}, PersistPluginRow(s, status)
      PROVE  streak'[v] <= fails'[v] /\ (probe'[v] = "down" => fails'[v] >= DownAfter)
  <2>1. CASE req[s].v # v \/ ~Installable(req[s].v)
    BY <1>0, <1>2, <2>1 DEF PersistPluginRow, TypeOK
  <2>2. CASE req[s].v = v /\ Installable(v)
    <3>1. streak[v] <= 0 /\ probe[v] = "none" /\ fails'[v] = 0
      BY <1>0, <1>2, <2>2 DEF PersistPluginRow, TypeOK
    <3>2. QED  BY <1>0, <1>2, <3>1 DEF PersistPluginRow
  <2>3. QED  BY <2>1, <2>2
<1>3. ASSUME NEW w \in Versions, NEW ok \in BOOLEAN, Answer(w, ok)
      PROVE  streak'[v] <= fails'[v] /\ (probe'[v] = "down" => fails'[v] >= DownAfter)
  <2>1. CASE w # v
    BY <1>0, <1>3, <2>1 DEF Answer, TypeOK
  <2>2. CASE w = v /\ ok
    BY <1>0, <1>3, <2>2 DEF Answer, TypeOK, Streak
  <2>3. CASE w = v /\ ~ok
    <3>1. streak'[v] = Capped(streak[v] + 1) /\ fails'[v] = Capped(fails[v] + 1)
      BY <1>3, <2>3 DEF Answer, TypeOK, Streak
    <3>2. probe'[v] = "down" => streak'[v] >= DownAfter
      BY <1>3, <2>3, <3>1 DEF Answer, TypeOK, Streak
    <3>3. v \notin carried
      BY <1>3, <2>3 DEF Answer
    <3>4. QED  BY <1>0, <3>1, <3>2, <3>3 DEF Capped
  <2>4. QED  BY <2>1, <2>2, <2>3
<1>4. CASE ProcessStep
  <2>1. CASE RestartWorker
    BY <1>0, <2>1 DEF RestartWorker
  <2>2. CASE Pass
    BY <1>1, <2>2 DEF Pass
  <2>3. ASSUME NEW w \in Versions, WriteStatus(w)
        PROVE  streak'[v] <= fails'[v] /\ (probe'[v] = "down" => fails'[v] >= DownAfter)
    BY <1>1, <2>3 DEF WriteStatus, TypeOK
  <2>4. QED
    BY <1>1, <1>3, <1>4, <2>1, <2>2, <2>3
    DEF ProcessStep, LoadBuiltins, LoadSelect, LoadFill, RestartApi, health
<1>5. ASSUME NEW s \in Slots, Request(s)
      PROVE  streak'[v] <= fails'[v] /\ (probe'[v] = "down" => fails'[v] >= DownAfter)
  BY <1>1, <1>2, <1>5 DEF Request, Receive, SetEnabled, CheckSource, Uninstall, SetDefault,
                          DemoteApart, PromoteApart, Drop, health
<1>6. QED  BY <1>1, <1>4, <1>5, NextSteps DEF vars

-----------------------------------------------------------------------------
(***************************************************************************)
(* The theorems.                                                           *)
(***************************************************************************)
\* The inductive invariant of the catalogue.
THEOREM Invariance == Spec => []IInv
<1>1. Init => IInv
  <2> SUFFICES ASSUME Init PROVE IInv
    OBVIOUS
  <2>1. \A c \in Carriers : req[c].at \in {"boot", "idle"}
    BY CarriersAre DEF Init
  <2>2. NobodyDemoted
    BY <2>1 DEF NobodyDemoted
  <2>3. OneVersionUnlessApart
    BY DEF Init, OneVersionUnlessApart, Installed, NoRow
  <2>4. Reloads
    BY <2>1, CarriersAre, NamesAreDistinct DEF Init, Reloads, Owes, Loading, Process, Processes
  <2>5. StreaksAreEarned
    BY NamesAreDistinct DEF Init, StreaksAreEarned
  <2>6. QED  BY <2>2, <2>3, <2>4, <2>5, TypeInit DEF IInv
<1>2. IInv /\ [Next]_vars => IInv'
  <2> SUFFICES ASSUME IInv, [Next]_vars PROVE IInv'
    OBVIOUS
  <2>1. TypeOK'
    BY TypeStep DEF IInv
  <2>2. QED
    BY <2>1, DemotionStep, OneVersionStep, ReloadsStep, StreaksStep DEF IInv
<1>3. QED  BY <1>1, <1>2, PTL DEF Spec

\* As long as every set-default is one transaction, an installed plugin has one
\* version, and that is its default.
THEOREM OneVersionHolds == Spec => []OneVersionUnlessApart
<1>1. IInv => OneVersionUnlessApart
  BY DEF IInv
<1>2. QED  BY <1>1, Invariance, PTL

\* At rest the API process dispatches exactly the enabled rows, unless reloads
\* overlapped, or a change was left behind.
THEOREM RegistryFollows == Spec => []RegistryFollowsRows
<1>1. IInv => RegistryFollowsRows
  <2> SUFFICES ASSUME IInv, req[Api].at = "idle", ~behind, \A s \in Slots : req[s] = Idle
               PROVE  cache[Api] = Entries
    BY DEF RegistryFollowsRows
  <2>1. \A c \in Carriers : Process(c) = Api => req[c].at = "idle"
    BY CarriersAre, NamesAreDistinct DEF Carriers, Processes, Process
  <2>2. Loading(Api) = {} /\ \A c \in Carriers : ~Owes(c)
    BY <2>1 DEF Loading, Owes
  <2>3. QED  BY <2>2 DEF IInv, Reloads
<1>2. QED  BY <1>1, Invariance, PTL

\* A plugin is reported down only after DownAfter failed probes in a row of what
\* is installed, or when it was installed under a standing streak.
THEOREM DownHolds == Spec => DownIsEarned
<1>1. IInv /\ [Next]_vars =>
        [\A v \in Versions : row'[v].status = "down" /\ row[v].status # "down"
            => fails[v] >= DownAfter \/ v \in carried]_vars
  <2> SUFFICES ASSUME IInv, Next, NEW v \in Versions,
                      row'[v].status = "down", row[v].status # "down", v \notin carried
               PROVE  fails[v] >= DownAfter
    OBVIOUS
  <2>0. row \in [Versions -> RowType] /\ (probe[v] = "down" => fails[v] >= DownAfter)
    BY DEF IInv, TypeOK, StreaksAreEarned
  <2>1. CASE row' = row
    BY <2>1
  <2>2. ASSUME NEW w \in Versions, WriteStatus(w) PROVE probe[v] = "down"
    BY <2>0, <2>2 DEF WriteStatus, RowType
  <2>3. ASSUME NEW w \in Versions, row' = UpsertBuiltin(w) PROVE FALSE
    BY <2>0, <2>3 DEF UpsertBuiltin, RowType
  <2>4. ASSUME NEW s \in Slots, Request(s) PROVE FALSE
    <3>1. ASSUME NEW status \in {"healthy", "degraded"}, PersistPluginRow(s, status) PROVE FALSE
      BY <2>0, <3>1 DEF PersistPluginRow
    <3>2. CASE SetEnabled(s)
      BY <2>0, <3>2 DEF SetEnabled, RowType
    <3>3. CASE Uninstall(s)
      BY <3>3 DEF Uninstall, NoRow
    <3>4. CASE SetDefault(s) \/ DemoteApart(s) \/ PromoteApart(s)
      <4>1. Demoted \in [Versions -> RowType] /\ Demoted[v].status = row[v].status
        <5>1. Demoted \in [Versions -> RowType]
          BY <2>0, RowWrites DEF Demoted
        <5>2. QED  BY <2>0, <5>1 DEF Demoted, RowType
      <4>2. ASSUME NEW r \in [Versions -> RowType], NEW w, row' = [r EXCEPT ![w].default = TRUE]
            PROVE  row'[v].status = r[v].status
        BY <4>2 DEF RowType
      <4>3. QED  BY <2>0, <2>1, <3>4, <4>1, <4>2 DEF SetDefault, DemoteApart, PromoteApart
    <3>5. QED  BY <2>1, <2>4, <3>1, <3>2, <3>3, <3>4 DEF Request, Receive, CheckSource, Drop
  <2>5. CASE ProcessStep
    BY <2>0, <2>1, <2>2, <2>3, <2>5, NamesAreDistinct
    DEF ProcessStep, LoadBuiltins, LoadSelect, LoadFill, Pass, Answer, RestartApi, RestartWorker
  <2>6. QED  BY <2>1, <2>4, <2>5, NextSteps
<1>2. QED  BY <1>1, Invariance, PTL DEF Spec, DownIsEarned
=============================================================================
