--------------------------- MODULE PluginRegistry ---------------------------
(***************************************************************************)
(* The plugin catalogue: the rows of one plugin's versions, the in-memory   *)
(* registry that each process builds from them (plugins/registry.js), the   *)
(* admin's requests that change them and reload the registry of the API     *)
(* process (api/plugins.js, plugins/install.js), the sync of the modules on *)
(* disk at every boot, and the worker's health checks                       *)
(* (plugins/healthcheck.js).  Every awaited statement is one action.        *)
(***************************************************************************)
EXTENDS Integers, FiniteSets

CONSTANTS
    Versions,       \* versions of the plugin
    Shipped,        \* those some build carries as a module in builtin/
    Slots,          \* requests the API process carries at once
    Api, Worker,    \* the two processes, named like the boot each may be in
    DownAfter,      \* DOWN_THRESHOLD
    MaxRequests,    \* bound: requests of admins
    None

ASSUME NamesAreDistinct ==
    /\ Shipped \subseteq Versions
    /\ Api \notin Slots /\ Worker \notin Slots /\ Api # Worker
    /\ DownAfter \in Nat \ {0} /\ MaxRequests \in Nat
    /\ None \notin Versions

VARIABLES
    row,        \* plugins: the row of each version
    cache,      \* each process's registry, byNV
    req,        \* each request and each boot: where it stands
    streak,     \* _failureStreaks of the worker
    probe,      \* the health probe of each version
    requests,   \* bound: requests so far
    apart,      \* history: a set-default ran outside its transaction
    behind,     \* history: the API's registry was left behind by its rows
    fails,      \* history: failed probes in a row since a version's install
    carried     \* history: versions installed over a standing failure streak

vars == <<row, cache, req, streak, probe, requests, apart, behind, fails, carried>>
health == <<streak, probe, fails, carried>>

Processes == {Api, Worker}
Carriers == Slots \cup Processes
Process(c) == IF c = Worker THEN Worker ELSE Api

NoRow == [kind |-> "none", core |-> FALSE, enabled |-> FALSE, default |-> FALSE,
          status |-> "unknown"]
Installed == {v \in Versions : row[v].kind # "none"}
DefaultTaken == \E v \in Installed : row[v].default

Idle == [at |-> "idle", op |-> "none", v |-> None, snap |-> None]
Booting == [Idle EXCEPT !.at = "boot"]
Empty == [v \in Versions |-> "none"]

\* What loadAll makes of the rows it selects: the enabled versions, with the
\* transport it dispatches them by.
Entries == [v \in Versions |-> IF row[v].enabled THEN row[v].kind ELSE "none"]

Init ==
    /\ row = [v \in Versions |-> NoRow]
    /\ cache = [p \in Processes |-> Empty]
    /\ req = [c \in Carriers |-> IF c \in Processes THEN Booting ELSE Idle]
    /\ streak = [v \in Versions |-> 0]
    /\ probe = [v \in Versions |-> "none"]
    /\ requests = 0
    /\ apart = FALSE
    /\ behind = FALSE
    /\ fails = [v \in Versions |-> 0]
    /\ carried = {}

Goes(c, at) == req' = [req EXCEPT ![c].at = at]
Ends(c) == req' = [req EXCEPT ![c] = Idle]

(***************************************************************************)
(* Boot: loadBuiltins upserts the module that the process's build carries,  *)
(* if any; then loadAll.  A row that an admin pointed at an endpoint is     *)
(* left alone, and so is the table when another version is the default: the *)
(* unique index refuses the row and the error is only logged.               *)
(***************************************************************************)
UpsertBuiltin(v) ==
    IF v \notin Installed
    THEN IF DefaultTaken THEN row
         ELSE [row EXCEPT ![v] = [kind |-> "in-process", core |-> TRUE, enabled |-> TRUE,
                                  default |-> TRUE, status |-> "healthy"]]
    ELSE IF row[v].kind = "http" THEN row
         ELSE [row EXCEPT ![v].status = "healthy", ![v].core = TRUE]

LoadBuiltins(p) ==
    /\ req[p].at = "boot"
    /\ row' \in {row} \cup {UpsertBuiltin(v) : v \in Shipped}
    /\ Goes(p, "changed")
    /\ behind' = (behind \/ row' # row)
    /\ UNCHANGED <<cache, health, requests, apart>>

(***************************************************************************)
(* loadAll: the SELECT, then, when its rows have come, the Maps are cleared *)
(* and filled in one go (the modules it would import were imported at       *)
(* boot).                                                                   *)
(***************************************************************************)
Loading(p) == {c \in Carriers : Process(c) = p /\ req[c].at = "loaded"}

LoadSelect(c) ==
    /\ req[c].at = "changed"
    /\ req' = [req EXCEPT ![c].at = "loaded", ![c].snap = Entries]
    /\ behind' = IF Process(c) = Api THEN Loading(Api) # {} ELSE behind
    /\ UNCHANGED <<row, cache, health, requests, apart>>

LoadFill(c) ==
    /\ req[c].at = "loaded"
    /\ cache' = [cache EXCEPT ![Process(c)] = req[c].snap]
    /\ Ends(c)
    /\ UNCHANGED <<row, health, requests, apart, behind>>

(***************************************************************************)
(* Requests of admins.                                                      *)
(***************************************************************************)
Ops == {"install", "disable", "enable", "uninstall", "uninstallAll", "setDefault", "refresh"}

\* Those of one version name it in their path or their manifest.
OfOneVersion == {"install", "uninstall", "setDefault"}

Receive(s, op, v) ==
    /\ req[Api].at = "idle"
    /\ (v = None) <=> (op \notin OfOneVersion)
    /\ req[s] = Idle
    /\ requests < MaxRequests
    /\ requests' = requests + 1
    /\ req' = [req EXCEPT ![s] = [Idle EXCEPT !.op = op, !.v = v,
                  !.at = IF op = "refresh" THEN "changed" ELSE "accepted"]]
    /\ UNCHANGED <<row, cache, health, apart, behind>>

At(s, op) == s \in Slots /\ req[s].op = op /\ req[s].at = "accepted"

\* POST /install and /install-from-catalog, once the manifest is fetched and
\* the endpoint probed: persistPluginRow.  The unique index refuses a second
\* default and with it the request.
MutInstallable(v) == v \in Installed \/ Cardinality(Installed) < 2
Installable(v) == v \in Installed \/ ~DefaultTaken

PersistPluginRow(s, status) ==
    LET v == req[s].v IN
    /\ At(s, "install")
    /\ status \in {"healthy", "degraded"}
    /\ IF Installable(v)
       THEN /\ row' = [row EXCEPT ![v] = [kind |-> "http", core |-> FALSE, enabled |-> TRUE,
                          default |-> v \notin Installed \/ row[v].default,
                          status |-> status]]
            /\ fails' = [fails EXCEPT ![v] = 0]
            /\ carried' = IF streak[v] > 0 \/ probe[v] # "none" THEN carried \cup {v}
                          ELSE carried
            /\ Goes(s, "changed")
       ELSE /\ Ends(s)
            /\ UNCHANGED <<row, fails, carried>>
    /\ UNCHANGED <<cache, streak, probe, requests, apart, behind>>

\* POST /:name/disable and /:name/enable act on every version.
MutSetEnabled(s) ==
    /\ At(s, "disable") \/ At(s, "enable")
    /\ row' = [v \in Versions |-> IF v \in Installed
                 THEN [row[v] EXCEPT !.enabled = req[s].op = "enable"] ELSE row[v]]
    /\ Ends(s)
    /\ UNCHANGED <<cache, health, requests, apart, behind>>

SetEnabled(s) ==
    /\ At(s, "disable") \/ At(s, "enable")
    /\ row' = [v \in Versions |-> IF v \in Installed
                 THEN [row[v] EXCEPT !.enabled = req[s].op = "enable"] ELSE row[v]]
    /\ IF Installed = {} THEN Ends(s) ELSE Goes(s, "changed")
    /\ UNCHANGED <<cache, health, requests, apart, behind>>

\* DELETE /:name/:version and /:name: a SELECT protects core rows, then the
\* DELETE takes whatever is there by then.
Doomed(s) == IF req[s].op = "uninstall" THEN {req[s].v} ELSE Versions

CheckSource(s) ==
    /\ At(s, "uninstall") \/ At(s, "uninstallAll")
    /\ LET found == Doomed(s) \cap Installed IN
       IF found = {} \/ \E v \in found : row[v].core THEN Ends(s) ELSE Goes(s, "checked")
    /\ UNCHANGED <<row, cache, health, requests, apart, behind>>

Uninstall(s) ==
    /\ req[s].at = "checked"
    /\ row' = [v \in Versions |-> IF v \in Doomed(s) THEN NoRow ELSE row[v]]
    /\ Goes(s, "changed")
    /\ UNCHANGED <<cache, health, requests, apart, behind>>

\* POST /:name/:version/set-default: BEGIN, two UPDATEs and COMMIT are four
\* queries of the pool.  On one connection they are a transaction, rolled
\* back when the version is not installed.
Demoted == [v \in Versions |-> [row[v] EXCEPT !.default = FALSE]]

SetDefault(s) ==
    LET v == req[s].v IN
    /\ At(s, "setDefault")
    /\ IF v \in Installed
       THEN row' = [Demoted EXCEPT ![v].default = TRUE] /\ Goes(s, "changed")
       ELSE UNCHANGED row /\ Ends(s)
    /\ UNCHANGED <<cache, health, requests, apart, behind>>

\* On connections of their own each UPDATE commits by itself.
DemoteApart(s) ==
    /\ At(s, "setDefault")
    /\ row' = Demoted
    /\ Goes(s, "demoted")
    /\ apart' = TRUE
    /\ UNCHANGED <<cache, health, requests, behind>>

PromoteApart(s) ==
    LET v == req[s].v IN
    /\ req[s].at = "demoted"
    /\ IF v \in Installed /\ \A o \in Installed \ {v} : ~row[o].default
       THEN row' = [row EXCEPT ![v].default = TRUE] /\ Goes(s, "changed")
       ELSE UNCHANGED row /\ Ends(s)
    /\ UNCHANGED <<cache, health, requests, apart, behind>>

(***************************************************************************)
(* The worker's health checks, one pass at a time.                          *)
(***************************************************************************)
Pass ==
    /\ req[Worker].at = "idle"
    /\ \A v \in Versions : probe[v] = "none"
    /\ probe' = [v \in Versions |-> IF row[v].kind = "http" /\ row[v].enabled
                                    THEN "asked" ELSE "none"]
    /\ UNCHANGED <<row, cache, req, streak, requests, apart, behind, fails, carried>>

Capped(n) == IF n < DownAfter THEN n ELSE DownAfter

\* The streak and the status are settled when the answer comes.
MutStreak(v, ok) == Capped(streak[v] + 1)
Streak(v, ok) == IF ok THEN 0 ELSE Capped(streak[v] + 1)

Answer(v, ok) ==
    LET n == Streak(v, ok) IN
    /\ probe[v] = "asked"
    /\ streak' = [streak EXCEPT ![v] = n]
    /\ probe' = [probe EXCEPT ![v] = IF ok THEN "healthy"
                                     ELSE IF n >= DownAfter THEN "down" ELSE "degraded"]
    /\ fails' = [fails EXCEPT ![v] = IF ok THEN 0 ELSE Capped(@ + 1)]
    /\ carried' = IF ok THEN carried \ {v} ELSE carried
    /\ UNCHANGED <<row, cache, req, requests, apart, behind>>

\* The UPDATE goes by name and version, and its failure is only logged.
WriteStatus(v) ==
    /\ probe[v] \in {"healthy", "degraded", "down"}
    /\ \/ /\ v \in Installed
          /\ row' = [row EXCEPT ![v].status = probe[v]]
       \/ UNCHANGED row
    /\ probe' = [probe EXCEPT ![v] = "none"]
    /\ UNCHANGED <<cache, req, streak, requests, apart, behind, fails, carried>>

(***************************************************************************)
(* Faults: a request ends early because a statement fails or the client's   *)
(* process is gone; a process restarts and forgets what it held.            *)
(***************************************************************************)
Drop(s) ==
    /\ req[s].at # "idle"
    /\ Ends(s)
    /\ behind' = (behind \/ req[s].at \in {"changed", "loaded", "demoted"})
    /\ UNCHANGED <<row, cache, health, requests, apart>>

RestartApi ==
    /\ req' = [c \in Carriers |-> IF c = Api THEN Booting
                                  ELSE IF c \in Slots THEN Idle ELSE req[c]]
    /\ cache' = [cache EXCEPT ![Api] = Empty]
    /\ UNCHANGED <<row, health, requests, apart, behind>>

RestartWorker ==
    /\ req' = [req EXCEPT ![Worker] = Booting]
    /\ cache' = [cache EXCEPT ![Worker] = Empty]
    /\ streak' = [v \in Versions |-> 0]
    /\ probe' = [v \in Versions |-> "none"]
    /\ carried' = {}
    /\ UNCHANGED <<row, requests, apart, behind, fails>>

Request(s) ==
    \/ \E op \in Ops, v \in Versions \cup {None} : Receive(s, op, v)
    \/ \E status \in {"healthy", "degraded"} : PersistPluginRow(s, status)
    \/ SetEnabled(s) \/ CheckSource(s) \/ Uninstall(s)
    \/ SetDefault(s) \/ DemoteApart(s) \/ PromoteApart(s) \/ Drop(s)

Next ==
    \/ \E s \in Slots : Request(s)
    \/ \E p \in Processes : LoadBuiltins(p)
    \/ \E c \in Carriers : LoadSelect(c) \/ LoadFill(c)
    \/ Pass
    \/ \E v \in Versions : WriteStatus(v) \/ \E ok \in BOOLEAN : Answer(v, ok)
    \/ RestartApi \/ RestartWorker

Spec == Init /\ [][Next]_vars

-----------------------------------------------------------------------------
(***************************************************************************)
(* Properties                                                              *)
(***************************************************************************)

Transports == {"none", "in-process", "http"}
RowType == [kind : Transports, core : BOOLEAN, enabled : BOOLEAN, default : BOOLEAN,
            status : {"unknown", "healthy", "degraded", "down"}]
Stages == {"idle", "boot", "accepted", "checked", "demoted", "changed", "loaded"}
CarrierType == [at : Stages, op : Ops \cup {"none"}, v : Versions \cup {None},
                snap : [Versions -> Transports] \cup {None}]

\* Every variable keeps its type.
TypeOK ==
    /\ row \in [Versions -> RowType]
    /\ cache \in [Processes -> [Versions -> Transports]]
    /\ req \in [Carriers -> CarrierType]
    /\ \A c \in Carriers :
          /\ req[c].at = "loaded" => req[c].snap \in [Versions -> Transports]
          /\ req[c].op \in OfOneVersion => req[c].v \in Versions
    /\ streak \in [Versions -> 0 .. DownAfter] /\ fails \in [Versions -> 0 .. DownAfter]
    /\ probe \in [Versions -> {"none", "asked", "healthy", "degraded", "down"}]
    /\ requests \in 0 .. MaxRequests
    /\ apart \in BOOLEAN /\ behind \in BOOLEAN /\ carried \subseteq Versions

\* As long as every set-default is one transaction, an installed plugin has
\* one version and that is its default: installs and boots always write
\* is_default, so the unique index keeps every second version out, although
\* migration 019 made room for it.
OneVersionUnlessApart ==
    ~apart => \A v \in Installed : row[v].default /\ Installed = {v}

\* At rest the API process dispatches exactly the enabled rows, unless two of
\* its reloads overlapped, a request ended between its change and the
\* reload, or another process's boot changed the table.
RegistryFollowsRows ==
    (req[Api].at = "idle" /\ ~behind /\ \A s \in Slots : req[s] = Idle)
        => cache[Api] = Entries

\* A plugin is reported down only after DownAfter failed probes in a row of
\* what is installed, unless it was installed again under a standing streak
\* or a probe, which the worker keeps by name and version.
DownIsEarned ==
    [][\A v \in Versions : row'[v].status = "down" /\ row[v].status # "down"
          => fails[v] >= DownAfter \/ v \in carried]_vars
=============================================================================
