------------------------------ MODULE Projects ------------------------------
(***************************************************************************)
(* Projects of one workspace (api/projects.js): the soft deletion with its  *)
(* restore window of thirty days, the retention passes that delete the rows *)
(* for good (retention/policies.js), and the time-boxed grants on a project *)
(* (api/jitGrants.js), which no foreign key ties to its row.                *)
(***************************************************************************)
EXTENDS Naturals, FiniteSets

CONSTANTS
    AllProjects,    \* projects that may come, the default one included
    Default,        \* the project with slug 'default'; it cannot be deleted
    Grants,         \* ids of grants
    Requests,       \* requests under way at once
    Passes,         \* worker processes that run the retention schedule
    None

\* Assumed of the constants, in ProjectContent.
DefaultIsAProject == Default \in AllProjects /\ None \notin AllProjects \cup Grants

VARIABLES
    proj,       \* projects: row, deleted_at, and whether purge_at has passed
    grant,      \* jit_grants: status and project
    request,    \* each request: what it has checked and will write
    pass,       \* each retention pass: the projects it has chosen
    promised,   \* history: projects whose restore was answered, not deleted since
    hurried,    \* history: those of them that a pass had chosen by then
    late        \* history: grants inserted after a pass had swept

vars == <<proj, grant, request, pass, promised, hurried, late>>

NoRequest == [at |-> "idle", proj |-> None, grant |-> None]
NoPass == [at |-> "idle", ids |-> {}]
There(p) == proj[p].row = "there"

Init ==
    /\ proj = [p \in AllProjects |-> [row |-> IF p = Default THEN "there" ELSE "none",
                                      deleted |-> FALSE, expired |-> FALSE]]
    /\ grant = [g \in Grants |-> [st |-> "none", proj |-> None]]
    /\ request = [r \in Requests |-> NoRequest]
    /\ pass = [k \in Passes |-> NoPass]
    /\ promised = {}
    /\ hurried = {}
    /\ late = {}

Asks(r, at, p, g) ==
    /\ request[r].at = "idle"
    /\ request' = [request EXCEPT ![r] = [at |-> at, proj |-> p, grant |-> g]]
    /\ UNCHANGED <<proj, grant, pass, promised, hurried, late>>
Ends(r) == request' = [request EXCEPT ![r] = NoRequest]

Create(p) ==
    /\ proj[p].row = "none"
    /\ proj' = [proj EXCEPT ![p].row = "there"]
    /\ UNCHANGED <<grant, request, pass, promised, hurried, late>>

(***************************************************************************)
(* DELETE /projects/:id loads the row and marks it; on a project that is    *)
(* deleted already it starts the window again.                              *)
(***************************************************************************)
AskDelete(r, p) == There(p) /\ p # Default /\ Asks(r, "deleting", p, None)

SoftDelete(r) ==
    LET p == request[r].proj IN
    /\ request[r].at = "deleting"
    /\ proj' = IF There(p) THEN [proj EXCEPT ![p].deleted = TRUE, ![p].expired = FALSE]
               ELSE proj
    /\ promised' = promised \ {p}
    /\ hurried' = hurried \ {p}
    /\ Ends(r)
    /\ UNCHANGED <<grant, pass, late>>

WindowEnds(p) ==
    /\ proj[p].deleted /\ ~proj[p].expired
    /\ proj' = [proj EXCEPT ![p].expired = TRUE]
    /\ UNCHANGED <<grant, request, pass, promised, hurried, late>>

(***************************************************************************)
(* POST /projects/:id/restore checks the window; its UPDATE looks at        *)
(* nothing but the id, and it answers without looking at what that hit.     *)
(***************************************************************************)
AskRestore(r, p) ==
    /\ There(p) /\ proj[p].deleted /\ ~proj[p].expired
    /\ Asks(r, "restoring", p, None)

Chosen(p) == \E k \in Passes : p \in pass[k].ids
Restored(r, after) ==
    LET p == request[r].proj IN
    /\ request[r].at = "restoring"
    /\ proj' = IF There(p) THEN [proj EXCEPT ![p] = after] ELSE proj
    /\ promised' = promised \cup {p}
    /\ hurried' = IF Chosen(p) \/ ~There(p) THEN hurried \cup {p} ELSE hurried
    /\ Ends(r)
    /\ UNCHANGED <<grant, pass, late>>

MutRestore(r) == Restored(r, [row |-> "there", deleted |-> TRUE, expired |-> FALSE])
Restore(r) == Restored(r, [row |-> "there", deleted |-> FALSE, expired |-> FALSE])

(***************************************************************************)
(* purgeDeletedProjects: SELECT the projects, DELETE their grants, DELETE   *)
(* their rows, which takes what a foreign key ties to them.                 *)
(***************************************************************************)
Choose(k) ==
    LET ids == {p \in AllProjects : There(p) /\ proj[p].deleted /\ proj[p].expired} IN
    /\ pass[k].at = "idle"
    /\ ids # {}
    /\ pass' = [pass EXCEPT ![k] = [at |-> "chosen", ids |-> ids]]
    /\ UNCHANGED <<proj, grant, request, promised, hurried, late>>

Sweeps(k, swept) ==
    /\ pass[k].at = "chosen"
    /\ grant' = [g \in Grants |->
                   IF grant[g].proj \in pass[k].ids /\ grant[g].st \in swept
                   THEN [st |-> "gone", proj |-> None] ELSE grant[g]]
    /\ pass' = [pass EXCEPT ![k].at = "swept"]
    /\ UNCHANGED <<proj, request, promised, hurried, late>>

MutSweepGrants(k) == Sweeps(k, {"active"})
SweepGrants(k) == Sweeps(k, {"active", "ended"})

Purge(k) ==
    /\ pass[k].at = "swept"
    /\ proj' = [p \in AllProjects |->
                  IF p \in pass[k].ids THEN [row |-> "purged", deleted |-> FALSE, expired |-> FALSE]
                  ELSE proj[p]]
    /\ pass' = [pass EXCEPT ![k] = NoPass]
    /\ UNCHANGED <<grant, request, promised, hurried, late>>

\* A statement of the pass fails, or its process dies.
PassDies(k) ==
    /\ pass[k].at # "idle"
    /\ pass' = [pass EXCEPT ![k] = NoPass]
    /\ UNCHANGED <<proj, grant, request, promised, hurried, late>>

(***************************************************************************)
(* POST /jit-grants finds the project, deleted or not, and inserts.         *)
(***************************************************************************)
AskGrant(r, g, p) ==
    /\ There(p)
    /\ grant[g].st = "none"
    /\ \A o \in Requests : request[o].grant # g
    /\ Asks(r, "granting", p, g)

InsertGrant(r) ==
    LET p == request[r].proj
        g == request[r].grant IN
    /\ request[r].at = "granting"
    /\ grant' = [grant EXCEPT ![g] = [st |-> "active", proj |-> p]]
    /\ late' = IF ~There(p) \/ \E k \in Passes : pass[k].at = "swept" /\ p \in pass[k].ids
               THEN late \cup {g} ELSE late
    /\ Ends(r)
    /\ UNCHANGED <<proj, pass, promised, hurried>>

\* It expires, or it is revoked, which needs the row of its project.
GrantExpires(g) ==
    /\ grant[g].st = "active"
    /\ grant' = [grant EXCEPT ![g].st = "ended"]
    /\ UNCHANGED <<proj, request, pass, promised, hurried, late>>

AskRevoke(r, g) ==
    /\ grant[g].st = "active"
    /\ There(grant[g].proj)
    /\ Asks(r, "revoking", grant[g].proj, g)

Revoke(r) ==
    LET g == request[r].grant IN
    /\ request[r].at = "revoking"
    /\ grant' = IF grant[g].st = "gone" THEN grant ELSE [grant EXCEPT ![g].st = "ended"]
    /\ Ends(r)
    /\ UNCHANGED <<proj, pass, promised, hurried, late>>

\* A request ends before its second statement.
Drop(r) ==
    /\ request[r].at # "idle"
    /\ Ends(r)
    /\ UNCHANGED <<proj, grant, pass, promised, hurried, late>>

Handle(r) ==
    \/ \E p \in AllProjects : AskDelete(r, p) \/ AskRestore(r, p)
    \/ \E g \in Grants, p \in AllProjects : AskGrant(r, g, p)
    \/ \E g \in Grants : AskRevoke(r, g)
    \/ SoftDelete(r) \/ Restore(r) \/ InsertGrant(r) \/ Revoke(r) \/ Drop(r)

Retain(k) == Choose(k) \/ SweepGrants(k) \/ Purge(k) \/ PassDies(k)

Next ==
    \/ \E p \in AllProjects : Create(p) \/ WindowEnds(p)
    \/ \E g \in Grants : GrantExpires(g)
    \/ \E r \in Requests : Handle(r)
    \/ \E k \in Passes : Retain(k)

Spec == Init /\ [][Next]_vars

-----------------------------------------------------------------------------
(***************************************************************************)
(* Properties                                                              *)
(***************************************************************************)

\* A project whose restore was answered is there until it is deleted again,
\* unless a pass had chosen it before the restore wrote: the DELETE of the
\* pass looks at the ids alone.
RestoredStays == \A p \in promised : There(p) \/ p \in hurried

\* A purge leaves no grant of its project behind, whichever process died
\* underway: a grant without a project was inserted after the sweep.
GrantsFollowProjects ==
    \A g \in Grants :
        (grant[g].st \in {"active", "ended"} /\ proj[grant[g].proj].row = "purged") => g \in late
=============================================================================
