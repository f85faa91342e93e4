------------------------ MODULE ProjectContentProofs ------------------------
(***************************************************************************)
(* What a project, a knowledge base and a conversation promise holds for    *)
(* every number of projects, documents, requests, passes and writers, the   *)
(* purge of the project included.                                           *)
(***************************************************************************)
EXTENDS ProjectContent, Integers, FiniteSets, FiniteSetTheorems, WellFoundedInduction, TLAPS

-----------------------------------------------------------------------------
(***************************************************************************)
(* The inductive invariant: one part for each component.                   *)
(***************************************************************************)
ProjType == [row : {"none", "there", "purged"}, deleted : BOOLEAN, expired : BOOLEAN]
GrantType == [st : {"none", "active", "ended", "gone"}, proj : AllProjects \cup {None}]
Busy == {"deleting", "restoring", "granting", "revoking"}
RequestType == [at : {"idle"} \cup Busy, proj : AllProjects \cup {None}, grant : Grants \cup {None}]
PassType == [at : {"idle", "chosen", "swept"}, ids : SUBSET AllProjects]

ProjectTypes ==
  /\ proj \in [AllProjects -> ProjType]
  /\ grant \in [Grants -> GrantType]
  /\ request \in [Requests -> RequestType]
  /\ pass \in [Passes -> PassType]
  /\ promised \subseteq AllProjects /\ hurried \subseteq AllProjects /\ late \subseteq Grants

\* A request under way names its project, and its grant where it has one; a
\* grant that is being revoked has come.
RequestsAreSound ==
  \A r \in Requests :
    /\ request[r].at # "idle" => request[r].proj \in AllProjects
    /\ request[r].at \in {"granting", "revoking"} => request[r].grant \in Grants
    /\ request[r].at = "revoking" => grant[request[r].grant].st # "none"

\* A restored project is not deleted and in no pass, unless the pass came first.
PromiseKept(p) ==
  p \in promised /\ p \notin hurried =>
    /\ proj[p].row = "there" /\ ~proj[p].deleted
    /\ \A k \in Passes : p \notin pass[k].ids

\* A live grant has its project, and no pass that has swept will take it.
GrantHeld(g) ==
  grant[g].st \in {"active", "ended"} =>
    /\ grant[g].proj \in AllProjects
    /\ g \notin late =>
         /\ proj[grant[g].proj].row = "there"
         /\ \A k \in Passes : pass[k].at = "swept" => grant[g].proj \notin pass[k].ids

ProjectInv ==
  /\ ProjectTypes /\ RequestsAreSound
  /\ \A p \in AllProjects : PromiseKept(p)
  /\ \A g \in Grants : GrantHeld(g)

\* Before the base there is nothing; what is asked of an external store comes
\* of a base that has one; a deletion under way names its document.
BaseComesFirst ==
  /\ kb.st = "none" => /\ \A d \in Documents : doc[d] = "none" /\ chunks[d] = 0 /\ ingest[d] = "none"
                       /\ \A s \in Slots : deletion[s].at = "idle"
                       /\ put = {} /\ ~creating
  /\ creating \/ put # {} => kb.backend = "qdrant"
  /\ \A s \in Slots : deletion[s].at # "idle" => deletion[s].doc \in Documents

\* What an ingest has reached bounds what the row of its document says.
IngestLeads(d) == doc[d] = "ready" => ingest[d] \in {"ready", "over"}

\* The chunks of a document that a deletion has emptied came after it.
EmptiedStays ==
  \A s \in Slots : deletion[s].at = "emptied" =>
    chunks[deletion[s].doc] = 0 \/ deletion[s].doc \in raced

\* The chunks of a stored document are there, or a deletion took them.
Found(d) ==
  \/ chunks[d] = Size(d) \/ d \in halved
  \/ \E s \in Slots : deletion[s] = [at |-> "emptied", doc |-> d]
StoredIsFound(d) == doc[d] = "ready" \/ (ingest[d] = "stored" /\ doc[d] # "none") => Found(d)

BaseInv ==
  /\ K!TypeOK /\ BaseComesFirst
  /\ EmptiedStays
  /\ \A d \in Documents : IngestLeads(d) /\ StoredIsFound(d)
  /\ K!NoOrphans /\ K!CountersAgree

TurnType == [seq : Nat, by : Writers, nth : {1, 2}]
WriterType == [at : {"new", "ready", "inserting", "over"}, nth : {1, 2}, attempt : {0, 1, 2},
               seq : Nat, lost : SUBSET C!Turns]

ConversationTypes ==
  /\ turns \subseteq TurnType
  /\ writer \in [Writers -> WriterType]
  /\ seen \in [C!Turns -> SUBSET C!Turns]
  /\ written \subseteq C!Turns
  /\ clears \in Nat

\* The turns are finitely many and end somewhere.
Bounded == IsFiniteSet(written) /\ \E n \in Nat : \A t \in turns : t.seq <= n

\* A writer's turn is written once, when its INSERT commits.
OnceWritten(w) ==
  /\ writer[w].at # "over" => C!Current(w) \notin written
  /\ writer[w].at # "over" /\ writer[w].nth = 1 => <<w, 2>> \notin written
  /\ writer[w].at # "over" => writer[w].lost = {}
  /\ \A t \in writer[w].lost : t[1] = w

SeenIsWritten == \A t \in C!Turns : seen[t] \subseteq written

\* How many turns were written since this one's append began.
Rivals(t) == Cardinality(written \ seen[t])
RivalsCome(w) ==
  /\ writer[w].at \in {"ready", "inserting"} => writer[w].attempt \in {1, 2}
  /\ writer[w].at \in {"ready", "inserting"} /\ writer[w].attempt = 2 => Rivals(C!Current(w)) >= 1
  /\ writer[w].at = "inserting" /\ writer[w].seq \in C!Seqs =>
       /\ writer[w].attempt = 1 => Rivals(C!Current(w)) >= 1
       /\ writer[w].attempt = 2 => Rivals(C!Current(w)) >= 2
  /\ \A t \in writer[w].lost : Rivals(t) >= 2

ConversationInv ==
  /\ ConversationTypes /\ Bounded /\ SeenIsWritten
  /\ \A w \in Writers : OnceWritten(w) /\ RivalsCome(w)

IInv == ProjectInv /\ BaseInv /\ ConversationInv

-----------------------------------------------------------------------------
(***************************************************************************)
(* Projects.                                                               *)
(***************************************************************************)
\* The values that requests, passes and purged rows take are typed.
LEMMA ProjectRecords ==
  /\ P!NoRequest \in RequestType /\ P!NoRequest.at = "idle"
  /\ P!NoPass \in PassType /\ P!NoPass.at = "idle" /\ P!NoPass.ids = {}
  /\ \A row \in {"there", "purged"} : [row |-> row, deleted |-> FALSE, expired |-> FALSE] \in ProjType
  /\ \A p \in AllProjects : [st |-> "active", proj |-> p] \in GrantType
  /\ [st |-> "gone", proj |-> None] \in GrantType
BY DEF P!NoRequest, P!NoPass, RequestType, PassType, ProjType, GrantType

\* A request that ends leaves the others as they are.
LEMMA RequestEnds ==
  ASSUME ProjectInv, NEW r \in Requests, P!Ends(r)
  PROVE  /\ request' \in [Requests -> RequestType]
         /\ request'[r].at = "idle" /\ \A o \in Requests \ {r} : request'[o] = request[o]
BY ProjectRecords DEF ProjectInv, ProjectTypes, P!Ends

\* What is asked: the request and no more.
LEMMA ProjectsAsk ==
  ASSUME ProjectInv, NEW r \in Requests, NEW at \in Busy, NEW p \in AllProjects,
         NEW g \in Grants \cup {None}, P!Asks(r, at, p, g),
         at \in {"granting", "revoking"} => g \in Grants,
         at = "revoking" => grant[g].st # "none"
  PROVE  ProjectInv'
<1>1. request[r].at = "idle" /\ request' = [request EXCEPT ![r] = [at |-> at, proj |-> p, grant |-> g]]
      /\ UNCHANGED <<proj, grant, pass, promised, hurried, late>>
  BY DEF P!Asks
<1>2. [at |-> at, proj |-> p, grant |-> g] \in RequestType
  BY DEF RequestType
<1>3. ProjectTypes'
  BY <1>1, <1>2 DEF ProjectInv, ProjectTypes
<1>4. RequestsAreSound'
  BY <1>1 DEF ProjectInv, ProjectTypes, RequestsAreSound
<1>5. (\A q \in AllProjects : PromiseKept(q))' /\ (\A h \in Grants : GrantHeld(h))'
  BY <1>1 DEF ProjectInv, PromiseKept, GrantHeld
<1>6. QED  BY <1>3, <1>4, <1>5 DEF ProjectInv

\* The invariant of the projects is kept by every request.
LEMMA RequestsKeepProjects ==
  ASSUME ProjectInv, NEW r \in Requests, P!Handle(r) PROVE ProjectInv'
<1>0. ProjectTypes /\ RequestsAreSound /\ None \notin AllProjects \cup Grants
  BY PartsAreTyped DEF ProjectInv, P!DefaultIsAProject
<1>1. CASE \E p \in AllProjects : P!AskDelete(r, p) \/ P!AskRestore(r, p)
  <2>1. PICK p \in AllProjects, at \in {"deleting", "restoring"} : P!Asks(r, at, p, None)
    BY <1>1 DEF P!AskDelete, P!AskRestore
  <2>2. QED  BY <2>1, ProjectsAsk DEF Busy
<1>2. CASE \E g \in Grants, p \in AllProjects : P!AskGrant(r, g, p)
  <2>1. PICK g \in Grants, p \in AllProjects : P!Asks(r, "granting", p, g)
    BY <1>2 DEF P!AskGrant
  <2>2. QED  BY <2>1, ProjectsAsk DEF Busy
<1>3. CASE \E g \in Grants : P!AskRevoke(r, g)
  <2>1. PICK g \in Grants : grant[g].st = "active" /\ P!Asks(r, "revoking", grant[g].proj, g)
    BY <1>3 DEF P!AskRevoke
  <2>2. grant[g].proj \in AllProjects
    BY <2>1 DEF ProjectInv, GrantHeld
  <2>3. QED  BY <2>1, <2>2, ProjectsAsk DEF Busy
<1>4. CASE P!SoftDelete(r)
  <2>1. PICK p \in AllProjects : p = request[r].proj
    BY <1>0, <1>4 DEF P!SoftDelete, RequestsAreSound
  <2>2. /\ proj' = IF P!There(p) THEN [proj EXCEPT ![p] = [@ EXCEPT !.deleted = TRUE, !.expired = FALSE]]
                   ELSE proj
        /\ promised' = promised \ {p} /\ hurried' = hurried \ {p} /\ P!Ends(r)
        /\ UNCHANGED <<grant, pass, late>>
    BY <1>0, <1>4, <2>1 DEF P!SoftDelete, ProjectTypes
  <2>3. [proj[p] EXCEPT !.deleted = TRUE, !.expired = FALSE] \in ProjType
    BY <1>0 DEF ProjectTypes, ProjType
  <2>4. ProjectTypes'
    BY <1>0, <2>2, <2>3, RequestEnds DEF ProjectTypes
  <2>5. RequestsAreSound'
    BY <1>0, <2>2, RequestEnds DEF RequestsAreSound
  <2>6. \A q \in AllProjects \ {p} : proj'[q] = proj[q]
    BY <1>0, <2>2 DEF ProjectTypes
  <2>7. proj'[p].row = proj[p].row
    BY <1>0, <2>2 DEF ProjectTypes, ProjType
  <2>8. (\A q \in AllProjects : PromiseKept(q))'
    BY <2>2, <2>6 DEF ProjectInv, PromiseKept
  <2>9. (\A g \in Grants : GrantHeld(g))'
    BY <2>2, <2>6, <2>7 DEF ProjectInv, GrantHeld
  <2>10. QED  BY <2>4, <2>5, <2>8, <2>9 DEF ProjectInv
<1>5. CASE P!Restore(r)
  <2>1. PICK p \in AllProjects : p = request[r].proj
    BY <1>0, <1>5 DEF P!Restore, P!Restored, RequestsAreSound
  <2>2. /\ proj' = IF P!There(p)
                   THEN [proj EXCEPT ![p] = [row |-> "there", deleted |-> FALSE, expired |-> FALSE]]
                   ELSE proj
        /\ promised' = promised \cup {p}
        /\ hurried' = IF P!Chosen(p) \/ ~P!There(p) THEN hurried \cup {p} ELSE hurried
        /\ P!Ends(r) /\ UNCHANGED <<grant, pass, late>>
    BY <1>5, <2>1 DEF P!Restore, P!Restored
  <2>3. ProjectTypes'
    BY <1>0, <2>2, RequestEnds, ProjectRecords DEF ProjectTypes
  <2>4. RequestsAreSound'
    BY <1>0, <2>2, RequestEnds DEF RequestsAreSound
  <2>5. \A q \in AllProjects \ {p} : proj'[q] = proj[q]
    BY <1>0, <2>2 DEF ProjectTypes
  <2>6. \A q \in AllProjects \ {p} : PromiseKept(q)'
    BY <2>2, <2>5 DEF ProjectInv, PromiseKept
  <2>7. PromiseKept(p)'
    BY <1>0, <2>2 DEF PromiseKept, P!There, P!Chosen, ProjectTypes
  <2>8. proj'[p].row = proj[p].row
    BY <1>0, <2>2 DEF ProjectTypes, P!There
  <2>9. (\A g \in Grants : GrantHeld(g))'
    BY <2>2, <2>5, <2>8 DEF ProjectInv, GrantHeld
  <2>10. QED  BY <2>3, <2>4, <2>6, <2>7, <2>9 DEF ProjectInv
<1>6. CASE P!InsertGrant(r)
  <2>1. PICK p \in AllProjects, g \in Grants : p = request[r].proj /\ g = request[r].grant
    BY <1>0, <1>6 DEF P!InsertGrant, RequestsAreSound
  <2>2. /\ grant' = [grant EXCEPT ![g] = [st |-> "active", proj |-> p]]
        /\ late' = IF ~P!There(p) \/ \E k \in Passes : pass[k].at = "swept" /\ p \in pass[k].ids
                   THEN late \cup {g} ELSE late
        /\ P!Ends(r) /\ UNCHANGED <<proj, pass, promised, hurried>>
    BY <1>6, <2>1 DEF P!InsertGrant
  <2>3. ProjectTypes'
    BY <1>0, <2>2, RequestEnds, ProjectRecords DEF ProjectTypes
  <2>4. grant'[g] = [st |-> "active", proj |-> p] /\ \A h \in Grants \ {g} : grant'[h] = grant[h]
    BY <1>0, <2>2 DEF ProjectTypes
  <2>5. RequestsAreSound'
    BY <1>0, <2>2, <2>4, RequestEnds DEF RequestsAreSound
  <2>6. (\A q \in AllProjects : PromiseKept(q))'
    BY <2>2 DEF ProjectInv, PromiseKept
  <2>7. GrantHeld(g)'
    BY <2>2, <2>4 DEF GrantHeld, P!There
  <2>8. \A h \in Grants \ {g} : GrantHeld(h)'
    BY <2>2, <2>4 DEF ProjectInv, GrantHeld
  <2>9. QED  BY <2>3, <2>5, <2>6, <2>7, <2>8 DEF ProjectInv
<1>7. CASE P!Revoke(r)
  <2>1. PICK g \in Grants : g = request[r].grant /\ grant[g].st # "none"
    BY <1>0, <1>7 DEF P!Revoke, RequestsAreSound
  <2>2. /\ grant' = IF grant[g].st = "gone" THEN grant
                    ELSE [grant EXCEPT ![g] = [@ EXCEPT !.st = "ended"]]
        /\ P!Ends(r) /\ UNCHANGED <<proj, pass, promised, hurried, late>>
    BY <1>7, <2>1 DEF P!Revoke
  <2>3. [grant[g] EXCEPT !.st = "ended"] \in GrantType
    BY <1>0 DEF ProjectTypes, GrantType
  <2>4. ProjectTypes'
    BY <1>0, <2>2, <2>3, RequestEnds DEF ProjectTypes
  <2>5. /\ grant'[g].proj = grant[g].proj /\ grant'[g].st # "none"
        /\ grant'[g].st \in {"active", "ended"} => grant[g].st \in {"active", "ended"}
        /\ \A h \in Grants \ {g} : grant'[h] = grant[h]
    BY <1>0, <2>1, <2>2 DEF ProjectTypes, GrantType
  <2>6. RequestsAreSound'
    BY <1>0, <2>2, <2>5, RequestEnds DEF RequestsAreSound
  <2>7. (\A q \in AllProjects : PromiseKept(q))'
    BY <2>2 DEF ProjectInv, PromiseKept
  <2>8. GrantHeld(g)'
    BY <2>2, <2>5 DEF ProjectInv, GrantHeld
  <2>9. \A h \in Grants \ {g} : GrantHeld(h)'
    BY <2>2, <2>5 DEF ProjectInv, GrantHeld
  <2>10. QED  BY <2>4, <2>6, <2>7, <2>8, <2>9 DEF ProjectInv
<1>8. CASE P!Drop(r)
  <2>1. ProjectTypes' /\ RequestsAreSound'
    BY <1>0, <1>8, RequestEnds DEF ProjectTypes, RequestsAreSound, P!Drop
  <2>2. (\A q \in AllProjects : PromiseKept(q))' /\ (\A g \in Grants : GrantHeld(g))'
    BY <1>8 DEF ProjectInv, PromiseKept, GrantHeld, P!Drop
  <2>3. QED  BY <2>1, <2>2 DEF ProjectInv
<1>9. QED  BY <1>1, <1>2, <1>3, <1>4, <1>5, <1>6, <1>7, <1>8 DEF P!Handle

\* And by the retention passes and by what time and the users do.
LEMMA PassesKeepProjects ==
  ASSUME ProjectInv, NEW k \in Passes, P!Retain(k) PROVE ProjectInv'
<1>0. ProjectTypes /\ RequestsAreSound
  BY DEF ProjectInv
<1>1. CASE P!Choose(k)
  <2>1. PICK ids \in SUBSET AllProjects :
          /\ ids = {p \in AllProjects : P!There(p) /\ proj[p].deleted /\ proj[p].expired}
          /\ pass' = [pass EXCEPT ![k] = [at |-> "chosen", ids |-> ids]]
          /\ UNCHANGED <<proj, grant, request, promised, hurried, late>>
    BY <1>1 DEF P!Choose
  <2>2. [at |-> "chosen", ids |-> ids] \in PassType
    BY DEF PassType
  <2>3. ProjectTypes' /\ RequestsAreSound'
    BY <1>0, <2>1, <2>2 DEF ProjectTypes, RequestsAreSound
  <2>4. /\ pass'[k].at = "chosen" /\ \A p \in pass'[k].ids : proj[p].deleted
        /\ \A o \in Passes \ {k} : pass'[o] = pass[o]
    BY <1>0, <2>1 DEF ProjectTypes
  <2>5. (\A p \in AllProjects : PromiseKept(p))'
    BY <2>1, <2>4 DEF ProjectInv, PromiseKept
  <2>6. (\A g \in Grants : GrantHeld(g))'
    BY <2>1, <2>4 DEF ProjectInv, GrantHeld
  <2>7. QED  BY <2>3, <2>5, <2>6 DEF ProjectInv
<1>2. CASE P!SweepGrants(k)
  <2>1. /\ \A g \in Grants : grant'[g] = IF grant[g].proj \in pass[k].ids /\ grant[g].st \in {"active", "ended"}
                                         THEN [st |-> "gone", proj |-> None] ELSE grant[g]
        /\ pass' = [pass EXCEPT ![k] = [@ EXCEPT !.at = "swept"]]
        /\ UNCHANGED <<proj, request, promised, hurried, late>>
    BY <1>2 DEF P!SweepGrants, P!Sweeps
  <2>2. [pass[k] EXCEPT !.at = "swept"] \in PassType
    BY <1>0 DEF ProjectTypes, PassType
  <2>3. grant' \in [Grants -> GrantType]
    <3>1. \A g \in Grants : grant'[g] \in GrantType
      BY <1>0, <2>1, ProjectRecords DEF ProjectTypes
    <3>2. grant' = [g \in Grants |-> grant'[g]]
      BY <1>2 DEF P!SweepGrants, P!Sweeps
    <3>3. QED  BY <3>1, <3>2
  <2>4. ProjectTypes' /\ RequestsAreSound'
    BY <1>0, <2>1, <2>2, <2>3 DEF ProjectTypes, RequestsAreSound
  <2>5. /\ pass'[k].ids = pass[k].ids
        /\ \A o \in Passes \ {k} : pass'[o] = pass[o]
    BY <1>0, <2>1 DEF ProjectTypes, PassType
  <2>6. (\A p \in AllProjects : PromiseKept(p))'
    BY <2>1, <2>5 DEF ProjectInv, PromiseKept
  <2>7. (\A g \in Grants : GrantHeld(g))'
    BY <2>1, <2>5 DEF ProjectInv, GrantHeld
  <2>8. QED  BY <2>4, <2>6, <2>7 DEF ProjectInv
<1>3. CASE P!Purge(k)
  <2>1. /\ pass[k].at = "swept"
        /\ \A p \in AllProjects :
             proj'[p] = IF p \in pass[k].ids THEN [row |-> "purged", deleted |-> FALSE, expired |-> FALSE]
                        ELSE proj[p]
        /\ pass' = [pass EXCEPT ![k] = P!NoPass]
        /\ UNCHANGED <<grant, request, promised, hurried, late>>
    BY <1>3 DEF P!Purge
  <2>2. proj' \in [AllProjects -> ProjType]
    <3>1. \A p \in AllProjects : proj'[p] \in ProjType
      BY <1>0, <2>1, ProjectRecords DEF ProjectTypes
    <3>2. proj' = [p \in AllProjects |-> proj'[p]]
      BY <1>3 DEF P!Purge
    <3>3. QED  BY <3>1, <3>2
  <2>3. ProjectTypes' /\ RequestsAreSound'
    BY <1>0, <2>1, <2>2, ProjectRecords DEF ProjectTypes, RequestsAreSound
  <2>4. /\ pass'[k].ids = {} /\ pass'[k].at = "idle"
        /\ \A o \in Passes \ {k} : pass'[o] = pass[o]
    BY <1>0, <2>1, ProjectRecords DEF ProjectTypes
  <2>5. (\A p \in AllProjects : PromiseKept(p))'
    BY <2>1, <2>4 DEF ProjectInv, PromiseKept
  <2>6. (\A g \in Grants : GrantHeld(g))'
    BY <2>1, <2>4 DEF ProjectInv, GrantHeld
  <2>7. QED  BY <2>3, <2>5, <2>6 DEF ProjectInv
<1>4. CASE P!PassDies(k)
  <2>1. pass' = [pass EXCEPT ![k] = P!NoPass] /\ UNCHANGED <<proj, grant, request, promised, hurried, late>>
    BY <1>4 DEF P!PassDies
  <2>2. ProjectTypes' /\ RequestsAreSound'
    BY <1>0, <2>1, ProjectRecords DEF ProjectTypes, RequestsAreSound
  <2>3. /\ pass'[k].ids = {} /\ pass'[k].at = "idle"
        /\ \A o \in Passes \ {k} : pass'[o] = pass[o]
    BY <1>0, <2>1, ProjectRecords DEF ProjectTypes
  <2>4. (\A p \in AllProjects : PromiseKept(p))' /\ (\A g \in Grants : GrantHeld(g))'
    BY <2>1, <2>3 DEF ProjectInv, PromiseKept, GrantHeld
  <2>5. QED  BY <2>2, <2>4 DEF ProjectInv
<1>5. QED  BY <1>1, <1>2, <1>3, <1>4 DEF P!Retain

\* Every step of the projects keeps their invariant.
LEMMA ProjectsHold ==
  ASSUME ProjectInv, P!Next PROVE ProjectInv'
<1>0. ProjectTypes /\ RequestsAreSound
  BY DEF ProjectInv
<1>1. ASSUME NEW p \in AllProjects, P!Create(p) \/ P!WindowEnds(p) PROVE ProjectInv'
  <2>1. PICK q \in ProjType : /\ proj' = [proj EXCEPT ![p] = q]
                              /\ proj[p].row # "none" => q.row = proj[p].row /\ q.deleted = proj[p].deleted
                              /\ proj[p].row = "none" \/ proj[p].deleted
    <3>1. [proj[p] EXCEPT !.row = "there"] \in ProjType /\ [proj[p] EXCEPT !.expired = TRUE] \in ProjType
      BY <1>0 DEF ProjectTypes, ProjType
    <3>2. CASE P!Create(p)
      BY <1>0, <3>1, <3>2 DEF P!Create, ProjectTypes, ProjType
    <3>3. CASE P!WindowEnds(p)
      BY <1>0, <3>1, <3>3 DEF P!WindowEnds, ProjectTypes, ProjType
    <3>4. QED  BY <1>1, <3>2, <3>3
  <2>2. UNCHANGED <<grant, request, pass, promised, hurried, late>>
    BY <1>1 DEF P!Create, P!WindowEnds
  <2>3. ProjectTypes' /\ RequestsAreSound'
    BY <1>0, <2>1, <2>2 DEF ProjectTypes, RequestsAreSound
  <2>4. proj'[p] = q /\ \A o \in AllProjects \ {p} : proj'[o] = proj[o]
    BY <1>0, <2>1 DEF ProjectTypes
  <2>5. (\A o \in AllProjects : PromiseKept(o))' /\ (\A g \in Grants : GrantHeld(g))'
    BY <2>1, <2>2, <2>4 DEF ProjectInv, PromiseKept, GrantHeld
  <2>6. QED  BY <2>3, <2>5 DEF ProjectInv
<1>2. ASSUME NEW g \in Grants, P!GrantExpires(g) PROVE ProjectInv'
  <2>1. /\ grant[g].st = "active" /\ grant' = [grant EXCEPT ![g] = [@ EXCEPT !.st = "ended"]]
        /\ UNCHANGED <<proj, request, pass, promised, hurried, late>>
    BY <1>2 DEF P!GrantExpires
  <2>2. [grant[g] EXCEPT !.st = "ended"] \in GrantType
    BY <1>0 DEF ProjectTypes, GrantType
  <2>3. ProjectTypes'
    BY <1>0, <2>1, <2>2 DEF ProjectTypes
  <2>4. /\ grant'[g].proj = grant[g].proj /\ grant'[g].st = "ended"
        /\ \A h \in Grants \ {g} : grant'[h] = grant[h]
    BY <1>0, <2>1 DEF ProjectTypes, GrantType
  <2>5. RequestsAreSound'
    BY <1>0, <2>1, <2>4 DEF RequestsAreSound
  <2>6. (\A p \in AllProjects : PromiseKept(p))' /\ (\A h \in Grants : GrantHeld(h))'
    BY <2>1, <2>4 DEF ProjectInv, PromiseKept, GrantHeld
  <2>7. QED  BY <2>3, <2>5, <2>6 DEF ProjectInv
<1>3. QED  BY <1>1, <1>2, RequestsKeepProjects, PassesKeepProjects DEF P!Next

-----------------------------------------------------------------------------
(***************************************************************************)
(* The knowledge base.                                                     *)
(***************************************************************************)
DeletionType == [at : {"idle", "asked", "emptied", "removed"}, doc : Documents \cup {None}]
DocStates == {"none", "pending", "processing", "ready", "failed"}
IngestStates == {"none", "loaded", "inserted", "processing", "embedded", "stored", "ready", "over"}
KbType == [st : {"none", "there", "deleted", "gone"}, backend : Backends \cup {None}]

\* What the steps of an ingest or a deletion write is typed.
LEMMA BaseRecords ==
  ASSUME K!TypeOK
  PROVE  /\ kb \in KbType /\ doc \in [Documents -> DocStates] /\ chunks \in [Documents -> Nat]
         /\ ingest \in [Documents -> IngestStates] /\ deletion \in [Slots -> DeletionType]
         /\ \A d \in Documents : Size(d) \in Nat \ {0}
         /\ \A d \in Documents : chunks[d] \in {0, Size(d)}
         /\ K!NoDeletion \in DeletionType /\ K!NoDeletion.at = "idle"
BY PartsAreTyped DEF K!TypeOK, K!SizesAreCounts, KbType, DocStates, IngestStates, DeletionType, K!NoDeletion

\* No document is ready, none is counted.
LEMMA EmptyCount ==
  ASSUME K!Ready = {} PROVE K!Count = [documents |-> 0, chunks |-> 0]
<1> DEFINE Sums(f) == f = [s \in SUBSET {} |->
                             IF s = {} THEN 0
                             ELSE LET x == CHOOSE x \in s : TRUE IN Size(x) + f[s \ {x}]]
<1>1. Sums([s \in SUBSET {} |-> 0])
  OBVIOUS
<1>2. PICK g : Sums(g) /\ g = CHOOSE f : Sums(f)
  BY <1>1, Zenon
<1>3. g[{}] = 0
  BY <1>2
<1> HIDE DEF Sums
<1>4. K!MapThenSumSet(Size, {}) = 0
  BY <1>2, <1>3 DEF K!MapThenSumSet, K!MapThenFoldSet, Sums
<1>5. K!Cardinality({}) = 0
  BY FS_EmptySet DEF K!Cardinality, Cardinality
<1>6. QED  BY <1>4, <1>5 DEF K!Count

\* A statement that leaves the documents alone changes no count.
LEMMA SameCount ==
  ASSUME K!Ready' = K!Ready PROVE K!Count' = K!Count
BY DEF K!Count

\* Types: the steps of an ingest.
LEMMA IngestIsTyped ==
  ASSUME K!TypeOK, NEW d \in Documents, K!Ingesting(d) PROVE K!TypeOK'
<1> USE DEF K!Ingesting, K!LoadKb, K!InsertDocument, K!Fails, K!Processing, K!Embedded, K!Upsert,
            K!UpsertFails, K!LatePut, K!MarkReady, K!RefreshAfterIngest, K!IngestDies
<1>0. /\ kb \in KbType /\ doc \in [Documents -> DocStates] /\ chunks \in [Documents -> Nat]
      /\ ingest \in [Documents -> IngestStates] /\ deletion \in [Slots -> DeletionType]
      /\ \A e \in Documents : Size(e) \in Nat /\ chunks[e] \in {0, Size(e)}
      /\ creating \in BOOLEAN /\ DOMAIN counters = {"documents", "chunks"} /\ put \subseteq Documents
      /\ uncounted \in BOOLEAN /\ raced \subseteq Documents /\ halved \subseteq Documents
  BY BaseRecords DEF K!TypeOK
<1>1. UNCHANGED <<kb, creating, deletion, halved>>
  BY DEF K!history
<1>2. ingest' \in [Documents -> IngestStates]
  BY <1>0 DEF K!Goes, IngestStates
<1>3. doc' \in [Documents -> DocStates]
  BY <1>0 DEF K!SetStatus, DocStates
<1>4. /\ chunks' \in [Documents -> Nat] /\ \A e \in Documents : chunks'[e] \in {0, Size(e)}
      /\ raced' \subseteq Documents
  BY <1>0 DEF K!Lands, K!history
<1>5. DOMAIN counters' = {"documents", "chunks"}
  BY <1>0 DEF K!Recount, K!Count
<1>6. put' \subseteq Documents
  BY <1>0
<1>7. uncounted' \in BOOLEAN
  BY <1>0 DEF K!history
<1>8. kb' \in KbType /\ creating' \in BOOLEAN /\ deletion' \in [Slots -> DeletionType] /\ halved' \subseteq Documents
  BY <1>0, <1>1
<1>9. QED  BY <1>2, <1>3, <1>4, <1>5, <1>6, <1>7, <1>8
           DEF K!TypeOK, KbType, DocStates, IngestStates, DeletionType
\* The invariant of the base is kept by an ingest.
LEMMA IngestKeepsBase ==
  ASSUME BaseInv, NEW d \in Documents, K!Ingesting(d) PROVE BaseInv'
<1> USE DEF K!Ingesting, K!LoadKb, K!InsertDocument, K!Fails, K!Processing, K!Embedded, K!Upsert,
            K!UpsertFails, K!LatePut, K!MarkReady, K!RefreshAfterIngest, K!IngestDies, K!history,
            K!Goes, K!SetStatus, K!Lands, K!HasRow
<1>0. /\ K!TypeOK /\ BaseComesFirst /\ EmptiedStays /\ K!NoOrphans /\ K!CountersAgree
      /\ \A e \in Documents : IngestLeads(e) /\ StoredIsFound(e)
      /\ doc \in [Documents -> DocStates] /\ chunks \in [Documents -> Nat]
      /\ ingest \in [Documents -> IngestStates] /\ deletion \in [Slots -> DeletionType]
      /\ \A e \in Documents : Size(e) \in Nat \ {0} /\ chunks[e] \in {0, Size(e)}
      /\ put \subseteq Documents
  BY BaseRecords DEF BaseInv, K!TypeOK
<1>1. UNCHANGED <<kb, creating, deletion, halved>>
  OBVIOUS
<1>2. K!TypeOK'
  BY <1>0, IngestIsTyped
<1>3. kb.st # "none"
  BY <1>0 DEF BaseComesFirst, K!UnderWay
<1>4. put' # {} => put # {} \/ kb.backend = "qdrant"
  BY DEF K!External
<1>5. BaseComesFirst'
  BY <1>0, <1>1, <1>3, <1>4 DEF BaseComesFirst
<1>6. EmptiedStays'
  <2> SUFFICES ASSUME NEW s \in Slots, deletion[s].at = "emptied"
               PROVE  chunks'[deletion[s].doc] = 0 \/ deletion[s].doc \in raced'
    BY <1>1 DEF EmptiedStays
  <2>1. PICK e \in Documents : e = deletion[s].doc /\ (chunks[e] = 0 \/ e \in raced)
    BY <1>0 DEF EmptiedStays, BaseComesFirst
  <2>2. e = d => deletion[s] = [at |-> "emptied", doc |-> d]
    BY <1>0, <2>1 DEF DeletionType
  <2>3. QED  BY <1>0, <2>1, <2>2 DEF K!MeetsDeletion
<1>7. \A e \in Documents \ {d} : doc'[e] = doc[e] /\ ingest'[e] = ingest[e] /\ chunks'[e] = chunks[e]
  BY <1>0
<1>8. \A e \in Documents \ {d} : IngestLeads(e)' /\ StoredIsFound(e)'
  BY <1>0, <1>1, <1>7 DEF IngestLeads, StoredIsFound, Found
<1>9. IngestLeads(d)'
  BY <1>0 DEF IngestLeads, DocStates, IngestStates, K!UnderWay
<1>10. StoredIsFound(d)'
  BY <1>0, <1>1 DEF IngestLeads, StoredIsFound, Found, DocStates, IngestStates
<1>11. K!NoOrphans'
  BY <1>0, <1>1 DEF K!NoOrphans, K!External, K!Accepts, K!MeetsDeletion, BaseComesFirst
<1>12. K!CountersAgree'
  <2>1. CASE K!RefreshAfterIngest(d)
    <3>1. K!Ready' = K!Ready /\ counters' = K!Count
      BY <2>1 DEF K!Ready, K!Recount
    <3>2. QED  BY <3>1, SameCount DEF K!CountersAgree
  <2>2. CASE K!MarkReady(d)
    <3>1. ingest'[d] = "ready"
      BY <1>0, <2>2
    <3>2. QED  BY <3>1 DEF K!CountersAgree
  <2>3. CASE ~K!RefreshAfterIngest(d) /\ ~K!MarkReady(d)
    <3>1. counters' = counters /\ (uncounted \/ (ingest[d] = "ready" /\ ingest'[d] # "ready") => uncounted')
      <4>1. CASE K!IngestDies(d)
        <5>1. counters' = counters /\ uncounted' = (uncounted \/ ingest[d] = "ready")
          BY <4>1
        <5>2. QED  BY <5>1, Zenon
      <4>2. CASE ~K!IngestDies(d)
        <5>1. counters' = counters /\ uncounted' = uncounted /\ (ingest[d] = "ready" => ingest'[d] = "ready")
          BY <1>0, <2>3, <4>2
        <5>2. QED  BY <5>1
      <4>3. QED  BY <4>1, <4>2
    <3>2. doc'[d] = "ready" <=> doc[d] = "ready"
      BY <1>0, <2>3 DEF IngestLeads
    <3>3. K!Ready' = K!Ready
      BY <1>7, <3>2 DEF K!Ready
    <3>4. K!Count' = K!Count
      BY <3>3, SameCount
    <3>5. QED  BY <1>0, <1>1, <1>7, <3>1, <3>4 DEF K!CountersAgree
  <2>4. QED  BY <2>1, <2>2, <2>3
<1>13. QED  BY <1>2, <1>5, <1>6, <1>8, <1>9, <1>10, <1>11, <1>12 DEF BaseInv
\* And by a deletion.
LEMMA DeletionKeepsBase ==
  ASSUME BaseInv, NEW s \in Slots, K!Deleting(s) PROVE BaseInv'
<1> USE DEF K!AskDeletion, K!DeleteChunks, K!StoreRefuses, K!StoreTimesOut, K!DeleteRow,
            K!RefreshAfterDelete, K!DeletionDies, K!history, K!Deletes, K!EndsDeletion
<1>0. /\ K!TypeOK /\ BaseComesFirst /\ EmptiedStays /\ K!NoOrphans /\ K!CountersAgree
      /\ \A e \in Documents : IngestLeads(e) /\ StoredIsFound(e)
      /\ kb \in KbType /\ creating \in BOOLEAN
      /\ doc \in [Documents -> DocStates] /\ chunks \in [Documents -> Nat]
      /\ ingest \in [Documents -> IngestStates] /\ deletion \in [Slots -> DeletionType]
      /\ \A e \in Documents : Size(e) \in Nat \ {0} /\ chunks[e] \in {0, Size(e)}
      /\ put \subseteq Documents /\ DOMAIN counters = {"documents", "chunks"}
      /\ uncounted \in BOOLEAN /\ raced \subseteq Documents /\ halved \subseteq Documents
      /\ K!NoDeletion \in DeletionType /\ K!NoDeletion.at = "idle"
  BY BaseRecords DEF BaseInv, K!TypeOK
<1>1. UNCHANGED <<kb, creating, ingest, put, raced>>
  BY DEF K!Deleting
<1>2. PICK d \in Documents \cup {None} : /\ d = deletion[s].doc
                                         /\ deletion[s].at # "idle" => d \in Documents
  BY <1>0 DEF DeletionType, BaseComesFirst
<1>3. \A o \in Slots \ {s} : deletion'[o] = deletion[o]
  BY <1>0 DEF K!Deleting
<1>4. \/ \E e \in Documents : deletion'[s] = [at |-> "asked", doc |-> e]
      \/ d \in Documents /\ deletion'[s] = [at |-> "emptied", doc |-> d] /\ chunks'[d] = 0
      \/ d \in Documents /\ deletion'[s] = [at |-> "removed", doc |-> d]
      \/ deletion'[s] = K!NoDeletion
  <2>1. \A at \in {"emptied", "removed"} : [deletion[s] EXCEPT !.at = at] = [at |-> at, doc |-> d]
    BY <1>0, <1>2 DEF DeletionType
  <2>2. CASE \E e \in Documents : K!AskDeletion(s, e)
    BY <1>0, <2>2
  <2>3. CASE K!DeleteChunks(s)
    BY <1>0, <1>2, <2>1, <2>3
  <2>4. CASE K!DeleteRow(s)
    BY <1>0, <1>2, <2>1, <2>4
  <2>5. CASE K!StoreRefuses(s) \/ K!StoreTimesOut(s) \/ K!RefreshAfterDelete(s) \/ K!DeletionDies(s)
    BY <1>0, <2>5
  <2>6. QED  BY <2>2, <2>3, <2>4, <2>5 DEF K!Deleting
<1>5. /\ deletion'[s].at # "idle" => deletion'[s].doc \in Documents
      /\ deletion'[s].at = "emptied" => deletion'[s].doc = d /\ chunks'[d] = 0
  <2>1. CASE \E e \in Documents : deletion'[s] = [at |-> "asked", doc |-> e]
    BY <2>1
  <2>2. CASE d \in Documents /\ deletion'[s] = [at |-> "emptied", doc |-> d] /\ chunks'[d] = 0
    BY <2>2
  <2>3. CASE d \in Documents /\ deletion'[s] = [at |-> "removed", doc |-> d]
    BY <2>3
  <2>4. CASE deletion'[s] = K!NoDeletion
    BY <2>4 DEF K!NoDeletion
  <2>5. QED  BY <1>4, <2>1, <2>2, <2>3, <2>4
<1>6. deletion' \in [Slots -> DeletionType]
  BY <1>0, <1>2, <1>3, <1>4 DEF K!Deleting, DeletionType
<1>7. /\ doc' \in [Documents -> DocStates] /\ chunks' \in [Documents -> Nat]
      /\ \A e \in Documents \ {d} : doc'[e] = doc[e] /\ chunks'[e] = chunks[e]
      /\ d \in Documents => doc'[d] \in {doc[d], "none"} /\ chunks'[d] \in {chunks[d], 0}
  BY <1>0, <1>2 DEF K!Deleting, DocStates
<1>8. /\ DOMAIN counters' = {"documents", "chunks"} /\ uncounted' \in BOOLEAN
      /\ halved \subseteq halved' /\ halved' \subseteq Documents
  BY <1>0, <1>2 DEF K!Deleting, K!Recount, K!Count
<1>9. K!TypeOK'
  <2>1. \A e \in Documents : chunks'[e] \in {0, Size(e)}
    BY <1>0, <1>7
  <2>2. kb' \in KbType /\ creating' \in BOOLEAN /\ ingest' \in [Documents -> IngestStates]
        /\ put' \subseteq Documents /\ raced' \subseteq Documents
    BY <1>0, <1>1
  <2>3. QED  BY <1>6, <1>7, <1>8, <2>1, <2>2
             DEF K!TypeOK, KbType, DocStates, IngestStates, DeletionType
<1>10. BaseComesFirst'
  <2>1. kb.st # "none"
    BY <1>0 DEF K!Deleting, BaseComesFirst
  <2>2. \A o \in Slots : deletion'[o].at # "idle" => deletion'[o].doc \in Documents
    <3>1. \A o \in Slots \ {s} : deletion'[o].at # "idle" => deletion'[o].doc \in Documents
      BY <1>0, <1>3 DEF BaseComesFirst
    <3>2. QED  BY <1>5, <3>1
  <2>3. QED  BY <1>0, <1>1, <2>1, <2>2 DEF BaseComesFirst
<1>11. EmptiedStays'
  <2> SUFFICES ASSUME NEW o \in Slots, deletion'[o].at = "emptied"
               PROVE  chunks'[deletion'[o].doc] = 0 \/ deletion'[o].doc \in raced
    BY <1>1 DEF EmptiedStays
  <2>1. CASE o = s
    BY <1>5, <2>1
  <2>2. CASE o # s
    <3>1. PICK e \in Documents : e = deletion[o].doc /\ (chunks[e] = 0 \/ e \in raced)
      BY <1>0, <1>3, <2>2 DEF EmptiedStays, BaseComesFirst
    <3>2. QED  BY <1>3, <1>7, <2>2, <3>1
  <2>3. QED  BY <2>1, <2>2
<1>12. \A e \in Documents : IngestLeads(e)'
  BY <1>0, <1>1, <1>2, <1>7 DEF IngestLeads
<1>13. \A e \in Documents : StoredIsFound(e)'
  <2> SUFFICES ASSUME NEW e \in Documents,
                      doc'[e] = "ready" \/ (ingest'[e] = "stored" /\ doc'[e] # "none")
               PROVE  Found(e)'
    BY DEF StoredIsFound
  <2>1. Found(e) /\ doc'[e] = doc[e] /\ doc[e] # "none"
    BY <1>0, <1>1, <1>2, <1>7 DEF StoredIsFound
  <2>2. CASE e # d
    BY <1>2, <1>3, <1>7, <1>8, <2>1, <2>2 DEF Found
  <2>3. CASE e = d /\ deletion'[s] = [at |-> "emptied", doc |-> d]
    BY <2>3 DEF Found
  <2>4. CASE e = d /\ (K!StoreTimesOut(s) \/ (K!DeletionDies(s) /\ deletion[s].at = "emptied"))
    <3>1. d \in halved'
      BY <1>2, <2>4
    <3>2. QED  BY <2>4, <3>1 DEF Found
  <2>5. CASE e = d /\ ~K!DeleteRow(s) /\ ~K!DeleteChunks(s) /\ ~K!StoreTimesOut(s)
               /\ ~(K!DeletionDies(s) /\ deletion[s].at = "emptied")
    <3>1. deletion[s].at # "emptied" /\ chunks' = chunks
      BY <2>5 DEF K!Deleting
    <3>2. QED  BY <1>3, <1>8, <2>1, <3>1 DEF Found
  <2>6. CASE e = d /\ K!DeleteRow(s)
    BY <1>0, <1>2, <2>1, <2>6
  <2>7. CASE e = d /\ K!DeleteChunks(s)
    <3>1. deletion'[s] = [at |-> "emptied", doc |-> d]
      BY <1>0, <1>2, <2>7 DEF DeletionType
    <3>2. QED  BY <2>3, <2>7, <3>1
  <2>8. QED  BY <2>2, <2>4, <2>5, <2>6, <2>7
<1>14. K!NoOrphans'
  <2> SUFFICES ASSUME NEW e \in Documents, chunks'[e] > 0, doc'[e] = "none"
               PROVE  kb.backend = "qdrant" /\ e \in raced
    BY <1>1 DEF K!NoOrphans, K!HasRow, K!External
  <2>1. chunks[e] > 0
    BY <1>0, <1>2, <1>7
  <2>2. CASE doc[e] = "none"
    BY <1>0, <2>1, <2>2 DEF K!NoOrphans, K!HasRow, K!External
  <2>3. CASE doc[e] # "none"
    <3>1. e = d /\ K!DeleteRow(s)
      BY <1>0, <1>7, <2>3 DEF K!Deleting
    <3>2. QED  BY <1>0, <1>2, <2>1, <3>1 DEF EmptiedStays, K!External
  <2>4. QED  BY <2>2, <2>3
<1>15. K!CountersAgree'
  <2>1. CASE K!RefreshAfterDelete(s)
    <3>1. K!Ready' = K!Ready /\ counters' = K!Count
      BY <2>1 DEF K!Ready, K!Recount
    <3>2. QED  BY <3>1, SameCount DEF K!CountersAgree
  <2>2. CASE K!DeleteRow(s) /\ doc[d] # "none"
    <3>1. [deletion[s] EXCEPT !.at = "removed"].at = "removed"
      BY <1>0 DEF DeletionType
    <3>2. deletion'[s].at = "removed"
      BY <1>0, <1>2, <2>2, <3>1 DEF K!HasRow
    <3>3. QED  BY <3>2 DEF K!CountersAgree
  <2>3. CASE K!DeletionDies(s) /\ deletion[s].at = "removed"
    BY <2>3 DEF K!CountersAgree
  <2>4. CASE ~K!RefreshAfterDelete(s) /\ ~(K!DeletionDies(s) /\ deletion[s].at = "removed")
               /\ ~(K!DeleteRow(s) /\ doc[d] # "none")
    <3>1. counters' = counters /\ deletion[s].at # "removed"
      BY <2>4 DEF K!Deleting
    <3>2. uncounted => uncounted'
      <4>1. CASE K!DeletionDies(s)
        <5>1. uncounted' = (uncounted \/ deletion[s].at = "removed")
          BY <4>1
        <5>2. QED  BY <5>1, Zenon
      <4>2. CASE ~K!DeletionDies(s)
        BY <2>4, <4>2 DEF K!Deleting
      <4>3. QED  BY <4>1, <4>2
    <3>3. \A e \in Documents : doc'[e] = doc[e]
      BY <1>0, <1>2, <2>4 DEF K!Deleting
    <3>4. K!Ready' = K!Ready
      BY <3>3 DEF K!Ready
    <3>5. QED  BY <1>0, <1>1, <1>3, <3>1, <3>2, <3>4, SameCount DEF K!CountersAgree
  <2>5. QED  BY <2>1, <2>2, <2>3, <2>4
<1>16. QED  BY <1>9, <1>10, <1>11, <1>12, <1>13, <1>14, <1>15 DEF BaseInv

\* And by what happens to the base itself, with its project or alone.
LEMMA LifeKeepsBase ==
  ASSUME BaseInv,
         \/ \E b \in Backends : K!CreateKb(b)
         \/ K!BackendIsUp \/ K!CreateRolledBack \/ K!DeleteKb \/ K!ProjectPurged
  PROVE  BaseInv'
<1>0. /\ K!TypeOK /\ BaseComesFirst /\ EmptiedStays /\ K!NoOrphans /\ K!CountersAgree
      /\ \A e \in Documents : IngestLeads(e) /\ StoredIsFound(e)
      /\ kb \in KbType /\ creating \in BOOLEAN
      /\ doc \in [Documents -> DocStates] /\ chunks \in [Documents -> Nat]
      /\ ingest \in [Documents -> IngestStates] /\ deletion \in [Slots -> DeletionType]
      /\ \A e \in Documents : Size(e) \in Nat \ {0} /\ chunks[e] \in {0, Size(e)}
      /\ put \subseteq Documents /\ DOMAIN counters = {"documents", "chunks"}
      /\ uncounted \in BOOLEAN /\ raced \subseteq Documents /\ halved \subseteq Documents
  BY BaseRecords DEF BaseInv, K!TypeOK
<1>1. CASE (\E b \in Backends : K!CreateKb(b)) \/ K!BackendIsUp \/ K!DeleteKb
  <2>1. UNCHANGED <<doc, chunks, counters, ingest, put, deletion, uncounted, raced, halved>>
    BY <1>1 DEF K!CreateKb, K!BackendIsUp, K!DeleteKb, K!history
  <2>2. /\ kb' \in KbType /\ creating' \in BOOLEAN
        /\ kb.st # "none" => kb'.st # "none" /\ kb'.backend = kb.backend
        /\ creating' => kb'.backend = "qdrant"
        /\ kb'.st # "none" /\ (kb.st = "gone" => kb'.st = "gone")
    <3>1. CASE \E b \in Backends : K!CreateKb(b)
      <4>1. PICK b \in Backends : /\ kb.st = "none" /\ kb' = [st |-> "there", backend |-> b]
                                  /\ creating' = (b = "qdrant")
        BY <3>1 DEF K!CreateKb
      <4>2. PICK c \in BOOLEAN : c = (b = "qdrant")
        OBVIOUS
      <4>3. creating' = c
        BY <4>1, <4>2, Zenon
      <4>4. QED  BY <4>1, <4>2, <4>3 DEF KbType
    <3>2. CASE K!BackendIsUp
      BY <1>0, <3>2 DEF K!BackendIsUp, BaseComesFirst
    <3>3. CASE K!DeleteKb
      BY <1>0, <3>3 DEF K!DeleteKb, KbType, BaseComesFirst
    <3>4. QED  BY <1>1, <3>1, <3>2, <3>3
  <2>3. K!TypeOK'
    BY <1>0, <2>1, <2>2 DEF K!TypeOK, KbType
  <2>4. BaseComesFirst'
    BY <1>0, <2>1, <2>2 DEF BaseComesFirst
  <2>5. EmptiedStays' /\ \A e \in Documents : IngestLeads(e)' /\ StoredIsFound(e)'
    BY <1>0, <2>1 DEF EmptiedStays, IngestLeads, StoredIsFound, Found
  <2>6. K!NoOrphans'
    BY <1>0, <2>1, <2>2 DEF BaseComesFirst, K!NoOrphans, K!External, K!HasRow
  <2>7. K!CountersAgree'
    <3>1. K!Count' = K!Count
      BY <2>1, SameCount DEF K!Ready
    <3>2. QED  BY <1>0, <2>1, <2>2, <3>1 DEF K!CountersAgree
  <2>8. QED  BY <2>3, <2>4, <2>5, <2>6, <2>7 DEF BaseInv
<1>2. CASE K!CreateRolledBack \/ K!ProjectPurged
  <2>1. /\ kb' \in KbType /\ kb'.backend = kb.backend
        /\ kb.st = "none" => kb' = kb
        /\ kb.st # "none" => kb'.st = "gone"
    BY <1>0, <1>2 DEF K!CreateRolledBack, K!ProjectPurged, KbType, BaseComesFirst
  <2>2. /\ \A e \in Documents : doc'[e] = "none"
        /\ doc' \in [Documents -> DocStates]
        /\ UNCHANGED <<counters, ingest, put, deletion, uncounted, halved>>
        /\ creating' \in {FALSE, creating}
    BY <1>2 DEF K!CreateRolledBack, K!ProjectPurged, DocStates
  <2>3. /\ chunks' \in [Documents -> Nat] /\ \A e \in Documents : chunks'[e] \in {0, chunks[e]}
        /\ raced \subseteq raced' /\ raced' \subseteq Documents
        /\ \A e \in Documents : chunks'[e] > 0 => kb.backend = "qdrant" /\ e \in raced'
    BY <1>0, <1>2 DEF K!CreateRolledBack, K!ProjectPurged, K!External, BaseComesFirst
  <2>4. creating' \in BOOLEAN /\ (creating' => creating)
    <3>1. CASE creating = TRUE
      BY <2>2, <3>1
    <3>2. CASE creating = FALSE
      BY <2>2, <3>2
    <3>3. QED  BY <1>0, <3>1, <3>2
  <2>5. K!TypeOK'
    <3>1. \A e \in Documents : chunks'[e] \in {0, Size(e)}
      BY <1>0, <2>3
    <3>2. QED  BY <1>0, <2>1, <2>2, <2>3, <2>4, <3>1 DEF K!TypeOK, KbType, DocStates
  <2>6. BaseComesFirst'
    BY <1>0, <2>1, <2>2, <2>3, <2>4 DEF BaseComesFirst
  <2>7. EmptiedStays'
    BY <1>0, <2>2, <2>3 DEF EmptiedStays, BaseComesFirst
  <2>8. \A e \in Documents : IngestLeads(e)' /\ StoredIsFound(e)'
    BY <2>2 DEF IngestLeads, StoredIsFound
  <2>9. K!NoOrphans'
    BY <2>1, <2>3 DEF K!NoOrphans, K!External
  <2>10. K!CountersAgree'
    <3>1. CASE kb.st = "none"
      <4>1. K!Ready' = K!Ready
        BY <1>0, <2>2, <3>1 DEF K!Ready, BaseComesFirst
      <4>2. QED  BY <1>0, <2>1, <2>2, <3>1, <4>1, SameCount DEF K!CountersAgree
    <3>2. CASE kb.st # "none"
      BY <2>1, <3>2 DEF K!CountersAgree
    <3>3. QED  BY <3>1, <3>2
  <2>11. QED  BY <2>5, <2>6, <2>7, <2>8, <2>9, <2>10 DEF BaseInv
<1>3. QED  BY <1>1, <1>2

-----------------------------------------------------------------------------
(***************************************************************************)
(* The conversation.                                                       *)
(***************************************************************************)
\* Naturals that are bounded have a greatest one.
LEMMA GreatestExists ==
  ASSUME NEW S \in SUBSET Nat, S # {}, NEW n \in Nat, \A s \in S : s <= n
  PROVE  \E m \in S : \A s \in S : m >= s
<1> DEFINE Above == {u \in Nat : \A s \in S : s <= u}
<1>1. Above \subseteq Nat /\ Above # {}
  OBVIOUS
<1>2. PICK m \in Above : \A u \in Above : <<u, m>> \notin OpToRel(<, Nat)
  <2> HIDE DEF Above
  <2>1. QED  BY <1>1, NatLessThanWellFounded, WFMin
<1>3. \A u \in Above : ~(u < m)
  BY <1>2 DEF OpToRel
<1>4. m \in S
  <2> SUFFICES ASSUME m \notin S PROVE FALSE
    OBVIOUS
  <2>1. \A s \in S : s < m /\ s <= m - 1
    OBVIOUS
  <2>2. m - 1 \in Nat
    <3>1. PICK s \in S : s < m /\ s \in Nat /\ m \in Nat
      BY <2>1
    <3>2. QED  BY <3>1
  <2>3. m - 1 \in Above
    BY <2>1, <2>2
  <2>4. QED  BY <1>3, <2>3
<1>5. QED  BY <1>4

\* The number an INSERT picks is taken by no row it has read.
LEMMA PickIsFree ==
  ASSUME ConversationTypes, Bounded
  PROVE  C!Newest + 1 \in Nat /\ C!Newest + 1 \notin C!Seqs
<1>1. C!Seqs \subseteq Nat
  BY DEF C!Seqs, ConversationTypes, TurnType
<1>2. PICK n \in Nat : \A s \in C!Seqs : s <= n
  BY DEF C!Seqs, Bounded
<1>3. CASE C!Seqs = {}
  BY <1>3 DEF C!Newest
<1>4. CASE C!Seqs # {}
  <2>1. PICK m \in C!Seqs : \A s \in C!Seqs : m >= s
    BY <1>1, <1>2, <1>4, GreatestExists
  <2>2. C!Max(C!Seqs) \in C!Seqs /\ \A s \in C!Seqs : C!Max(C!Seqs) >= s
    BY <2>1 DEF C!Max
  <2>3. C!Newest = C!Max(C!Seqs)
    BY <1>4 DEF C!Newest
  <2>4. PICK k \in Nat : k = C!Newest /\ k \in C!Seqs /\ \A s \in C!Seqs : k >= s
    BY <1>1, <2>2, <2>3
  <2>5. k + 1 \notin C!Seqs
    BY <2>4
  <2>6. QED  BY <2>4, <2>5
<1>5. QED  BY <1>3, <1>4

\* What a writer may be.
LEMMA WriterRecords ==
  /\ C!Start \in WriterType /\ [C!Start EXCEPT !.nth = 2] \in WriterType
  /\ C!Start.lost = {} /\ C!Start.at = "new"
BY DEF C!Start, WriterType

\* A commit is one more rival of everybody else.
LEMMA CommitIsARival ==
  ASSUME ConversationTypes, Bounded, SeenIsWritten, NEW t \in C!Turns, NEW x \in C!Turns \ written
  PROVE  /\ Cardinality((written \cup {x}) \ seen[t]) = Rivals(t) + 1
         /\ Rivals(t) \in Nat
<1>1. IsFiniteSet(written \ seen[t])
  BY FS_Subset DEF Bounded
<1>2. x \notin written \ seen[t] /\ (written \cup {x}) \ seen[t] = (written \ seen[t]) \cup {x}
  BY DEF SeenIsWritten
<1>3. QED  BY <1>1, <1>2, FS_AddElement, FS_CardinalityType DEF Rivals

\* Every append keeps the invariant of the conversation.
LEMMA AppendKeepsConversation ==
  ASSUME ConversationInv, NEW w \in Writers, C!Append(w) PROVE ConversationInv'
<1>0. /\ ConversationTypes /\ Bounded /\ SeenIsWritten
      /\ \A v \in Writers : OnceWritten(v) /\ RivalsCome(v)
      /\ writer \in [Writers -> WriterType] /\ seen \in [C!Turns -> SUBSET C!Turns]
      /\ \A v \in Writers : C!Current(v) \in C!Turns
      /\ \A v, u \in Writers : C!Current(v) = C!Current(u) => v = u
      /\ \A v \in Writers : C!Current(v)[1] = v
      /\ \A v \in Writers : writer[v].lost \subseteq C!Turns
  BY DEF ConversationInv, ConversationTypes, WriterType, C!Current, C!Turns
<1>1. ASSUME NEW c \in WriterType, writer' = [writer EXCEPT ![w] = c], UNCHANGED <<turns, seen, written, clears>>,
             writer[w].at # "over" \/ c = writer[w],
             c.at # "over" => c.nth = writer[w].nth /\ c.lost = writer[w].lost,
             c.lost \in {writer[w].lost, {C!Current(w)}},
             c.at = "inserting" => c.seq \notin C!Seqs,
             c.at \in {"ready", "inserting"} => c.attempt \in {1, 2},
             c.at \in {"ready", "inserting"} /\ c.attempt = 2 => Rivals(C!Current(w)) >= 1,
             \A t \in c.lost : Rivals(t) >= 2
      PROVE  ConversationInv'
  <2>1. writer'[w] = c /\ \A v \in Writers \ {w} : writer'[v] = writer[v]
    BY <1>0, <1>1
  <2>2. ConversationTypes' /\ Bounded' /\ SeenIsWritten'
    BY <1>0, <1>1 DEF ConversationTypes, Bounded, SeenIsWritten
  <2>3. \A v \in Writers \ {w} : OnceWritten(v)' /\ RivalsCome(v)'
    <3> SUFFICES ASSUME NEW v \in Writers \ {w} PROVE OnceWritten(v)' /\ RivalsCome(v)'
      OBVIOUS
    <3>1. OnceWritten(v) /\ RivalsCome(v) /\ writer'[v] = writer[v]
      BY <1>0, <2>1
    <3>2. C!Seqs' = C!Seqs /\ C!Current(v)' = C!Current(v) /\ \A t : Rivals(t)' = Rivals(t)
      BY <1>1, <3>1 DEF C!Seqs, C!Current, Rivals
    <3>3. OnceWritten(v)'
      BY <1>1, <3>1, <3>2 DEF OnceWritten
    <3>4. RivalsCome(v)'
      BY <1>1, <3>1, <3>2 DEF RivalsCome
    <3>5. QED  BY <3>3, <3>4
  <2>4. OnceWritten(w)'
    BY <1>0, <1>1, <2>1 DEF OnceWritten, C!Current
  <2>5. RivalsCome(w)'
    <3>1. c.at # "over" => C!Current(w)' = C!Current(w)
      BY <1>1, <2>1 DEF C!Current
    <3>2. C!Seqs' = C!Seqs /\ \A t : Rivals(t)' = Rivals(t)
      BY <1>1 DEF C!Seqs, Rivals
    <3>3. QED  BY <1>1, <2>1, <3>1, <3>2 DEF RivalsCome
  <2>6. QED  BY <2>2, <2>3, <2>4, <2>5 DEF ConversationInv
<1>2. CASE C!Begin(w)
  <2>1. PICK c \in WriterType :
          /\ c = [writer[w] EXCEPT !.at = "ready", !.attempt = 1]
          /\ c.at = "ready" /\ c.attempt = 1 /\ c.nth = writer[w].nth /\ c.lost = writer[w].lost
    <3> DEFINE b == [writer[w] EXCEPT !.at = "ready", !.attempt = 1]
    <3>1. writer[w] \in WriterType
      BY <1>0
    <3>2. b \in WriterType /\ b.at = "ready" /\ b.attempt = 1 /\ b.nth = writer[w].nth /\ b.lost = writer[w].lost
      BY <3>1 DEF WriterType
    <3> HIDE DEF b
    <3>3. QED  BY <3>2 DEF b
  <2>2. /\ writer[w].at = "new" /\ writer' = [writer EXCEPT ![w] = c]
        /\ seen' = [seen EXCEPT ![C!Current(w)] = written] /\ UNCHANGED <<turns, written, clears>>
    BY <1>0, <1>2, <2>1 DEF C!Begin
  <2>3. writer'[w] = c /\ \A v \in Writers \ {w} : writer'[v] = writer[v]
    BY <1>0, <2>2
  <2>4. \A t \in C!Turns \ {C!Current(w)} : seen'[t] = seen[t]
    BY <1>0, <2>2
  <2>5. ConversationTypes' /\ Bounded' /\ SeenIsWritten'
    BY <1>0, <2>2 DEF ConversationTypes, Bounded, SeenIsWritten
  <2>6. \A v \in Writers : OnceWritten(v)'
    <3>1. OnceWritten(w)'
      BY <1>0, <2>1, <2>2, <2>3 DEF OnceWritten, C!Current
    <3>2. \A v \in Writers \ {w} : OnceWritten(v)'
      BY <1>0, <2>2, <2>3 DEF OnceWritten, C!Current
    <3>3. QED  BY <3>1, <3>2
  <2>7. \A v \in Writers \ {w} : RivalsCome(v)'
    <3> SUFFICES ASSUME NEW v \in Writers \ {w} PROVE RivalsCome(v)'
      OBVIOUS
    <3>1. C!Seqs' = C!Seqs /\ C!Current(v)' = C!Current(v) /\ writer'[v] = writer[v]
      BY <2>2, <2>3 DEF C!Seqs, C!Current
    <3>2. Rivals(C!Current(v))' = Rivals(C!Current(v))
      BY <1>0, <2>2, <2>4, <3>1 DEF Rivals
    <3>3. \A t \in writer[v].lost : Rivals(t)' = Rivals(t)
      <4>1. \A t \in writer[v].lost : t \in C!Turns \ {C!Current(w)}
        <5> SUFFICES ASSUME NEW t \in writer[v].lost PROVE t \in C!Turns /\ t # C!Current(w)
          OBVIOUS
        <5>1. t[1] = v /\ C!Current(w)[1] = w /\ t \in C!Turns
          BY <1>0 DEF OnceWritten
        <5>2. QED  BY <5>1
      <4>2. QED  BY <2>2, <2>4, <4>1 DEF Rivals
    <3>4. QED  BY <1>0, <3>1, <3>2, <3>3 DEF RivalsCome
  <2>8. RivalsCome(w)'
    <3>1. writer[w].lost = {}
      BY <1>0, <2>2 DEF OnceWritten
    <3>2. QED  BY <2>1, <2>3, <3>1 DEF RivalsCome
  <2>9. QED  BY <2>5, <2>6, <2>7, <2>8 DEF ConversationInv
<1>3. CASE C!Pick(w)
  <2>1. PICK c \in WriterType :
          /\ c = [writer[w] EXCEPT !.at = "inserting", !.seq = C!Newest + 1]
          /\ c.at = "inserting" /\ c.seq = C!Newest + 1 /\ c.attempt = writer[w].attempt
          /\ c.nth = writer[w].nth /\ c.lost = writer[w].lost
    <3> DEFINE b == [writer[w] EXCEPT !.at = "inserting", !.seq = C!Newest + 1]
    <3>1. writer[w] \in WriterType /\ C!Newest + 1 \in Nat
      BY <1>0, PickIsFree
    <3>2. /\ b \in WriterType /\ b.at = "inserting" /\ b.seq = C!Newest + 1
          /\ b.attempt = writer[w].attempt /\ b.nth = writer[w].nth /\ b.lost = writer[w].lost
      BY <3>1 DEF WriterType
    <3> HIDE DEF b
    <3>3. QED  BY <3>2 DEF b
  <2>2. writer[w].at = "ready" /\ writer' = [writer EXCEPT ![w] = c] /\ UNCHANGED <<turns, seen, written, clears>>
    BY <1>0, <1>3, <2>1 DEF C!Pick
  <2>3. \A t \in c.lost : Rivals(t) >= 2
    BY <1>0, <2>1 DEF RivalsCome
  <2>4. c.attempt \in {1, 2} /\ (c.attempt = 2 => Rivals(C!Current(w)) >= 1)
    BY <1>0, <2>1, <2>2 DEF RivalsCome
  <2>5. QED  BY <1>0, <1>1, <2>1, <2>2, <2>3, <2>4, PickIsFree
<1>4. CASE C!Commit(w)
  <2>1. PICK c \in WriterType :
          /\ c = C!Proceeds(w)
          /\ c.lost = {} /\ c.at \in {"new", "over"}
          /\ c.at # "over" => c.nth = 2 /\ writer[w].nth = 1
    <3>1. writer[w] \in WriterType /\ writer[w].lost = {}
      BY <1>0, <1>4 DEF C!Commit, OnceWritten
    <3>2. CASE w \in Agents /\ writer[w].nth = 1
      <4>1. C!Proceeds(w) = [C!Start EXCEPT !.nth = 2]
        BY <3>2 DEF C!Proceeds
      <4>2. /\ [C!Start EXCEPT !.nth = 2] \in WriterType /\ [C!Start EXCEPT !.nth = 2].lost = {}
            /\ [C!Start EXCEPT !.nth = 2].at = "new" /\ [C!Start EXCEPT !.nth = 2].nth = 2
        BY DEF C!Start, WriterType
      <4>3. QED  BY <3>2, <4>1, <4>2
    <3>3. CASE ~(w \in Agents /\ writer[w].nth = 1)
      <4>1. C!Proceeds(w) = [writer[w] EXCEPT !.at = "over"]
        BY <3>3 DEF C!Proceeds
      <4>2. /\ [writer[w] EXCEPT !.at = "over"] \in WriterType
            /\ [writer[w] EXCEPT !.at = "over"].lost = {} /\ [writer[w] EXCEPT !.at = "over"].at = "over"
        BY <3>1 DEF WriterType
      <4>3. QED  BY <4>1, <4>2
    <3>4. QED  BY <3>2, <3>3
  <2>2. PICK x \in C!Turns, q \in Nat :
          /\ x = C!Current(w) /\ q = writer[w].seq /\ x \notin written
          /\ x = <<w, writer[w].nth>>
    BY <1>0, <1>4 DEF C!Commit, OnceWritten, WriterType, C!Current
  <2>3. /\ turns' = turns \cup {[seq |-> q, by |-> w, nth |-> writer[w].nth]}
        /\ written' = written \cup {x} /\ writer' = [writer EXCEPT ![w] = c]
        /\ UNCHANGED <<seen, clears>>
    BY <1>4, <2>1, <2>2 DEF C!Commit
  <2>4. writer'[w] = c /\ \A v \in Writers \ {w} : writer'[v] = writer[v]
    BY <1>0, <2>3
  <2>5. C!Seqs' = C!Seqs \cup {q}
    <3> DEFINE t == [seq |-> q, by |-> w, nth |-> writer[w].nth]
    <3>1. t.seq = q
      OBVIOUS
    <3>2. turns' = turns \cup {t}
      BY <2>3
    <3> HIDE DEF t
    <3>3. QED  BY <3>1, <3>2 DEF C!Seqs
  <2>6. ConversationTypes'
    <3>1. [seq |-> q, by |-> w, nth |-> writer[w].nth] \in TurnType
      BY <1>0 DEF TurnType, WriterType
    <3>2. QED  BY <1>0, <2>2, <2>3, <3>1 DEF ConversationTypes
  <2>7. Bounded'
    <3>1. IsFiniteSet(written \cup {x})
      BY <1>0, FS_AddElement DEF Bounded
    <3>2. PICK n \in Nat : \A t \in turns : t.seq <= n
      BY <1>0 DEF Bounded
    <3>3. \A t \in turns' : t.seq <= n + q
      <4>1. \A t \in turns : t.seq \in Nat
        BY <1>0 DEF ConversationTypes, TurnType
      <4>2. QED  BY <2>3, <3>2, <4>1
    <3>4. QED  BY <2>3, <3>1, <3>3 DEF Bounded
  <2>8. SeenIsWritten'
    BY <1>0, <2>3 DEF SeenIsWritten
  <2>9. OnceWritten(w)'
    <3>1. CASE c.at = "over"
      BY <2>1, <2>4, <3>1 DEF OnceWritten
    <3>2. CASE c.at = "new"
      <4>1. c.nth = 2 /\ writer[w].nth = 1 /\ c.lost = {} /\ writer[w].at # "over"
        BY <1>4, <2>1, <3>2 DEF C!Commit
      <4>2. <<w, 2>> \notin written /\ x = <<w, 1>>
        BY <1>0, <2>2, <4>1 DEF OnceWritten
      <4>3. <<w, 2>> \notin written \cup {x}
        BY <4>2
      <4>4. C!Current(w)' = <<w, 2>>
        BY <2>4, <4>1 DEF C!Current
      <4>5. QED  BY <2>3, <2>4, <4>1, <4>3, <4>4 DEF OnceWritten
    <3>3. QED  BY <2>1, <3>1, <3>2
  <2>10. \A v \in Writers \ {w} : OnceWritten(v)'
    <3> SUFFICES ASSUME NEW v \in Writers \ {w} PROVE OnceWritten(v)'
      OBVIOUS
    <3>1. x # <<v, 2>> /\ x # C!Current(v)
      BY <2>2 DEF C!Current
    <3>2. C!Current(v)' = C!Current(v) /\ writer'[v] = writer[v] /\ OnceWritten(v)
      BY <1>0, <2>4 DEF C!Current
    <3>3. QED  BY <2>3, <3>1, <3>2 DEF OnceWritten
  <2>11. ASSUME NEW t \in C!Turns PROVE Rivals(t)' = Rivals(t) + 1 /\ Rivals(t) \in Nat
    <3>1. Cardinality((written \cup {x}) \ seen[t]) = Rivals(t) + 1 /\ Rivals(t) \in Nat
      BY <1>0, <2>2, CommitIsARival
    <3>2. QED  BY <2>3, <3>1 DEF Rivals
  <2>12. \A v \in Writers \ {w} : RivalsCome(v)'
    <3> SUFFICES ASSUME NEW v \in Writers \ {w} PROVE RivalsCome(v)'
      OBVIOUS
    <3>1. C!Current(v)' = C!Current(v) /\ writer'[v] = writer[v]
      BY <2>4 DEF C!Current
    <3>2. Rivals(C!Current(v))' = Rivals(C!Current(v)) + 1 /\ Rivals(C!Current(v)) \in Nat
      BY <1>0, <2>2, <2>3, <3>1, CommitIsARival DEF Rivals
    <3>3. \A t \in writer[v].lost : Rivals(t)' = Rivals(t) + 1 /\ Rivals(t) \in Nat
      BY <1>0, <2>11
    <3>4. RivalsCome(v)
      BY <1>0
    <3>5. QED  BY <2>5, <3>1, <3>2, <3>3, <3>4 DEF RivalsCome
  <2>13. RivalsCome(w)'
    BY <2>1, <2>4 DEF RivalsCome
  <2>14. QED  BY <2>6, <2>7, <2>8, <2>9, <2>10, <2>12, <2>13 DEF ConversationInv
<1>5. CASE C!Collide(w)
  <2>1. /\ writer[w] \in WriterType /\ writer[w].at = "inserting" /\ writer[w].seq \in C!Seqs
        /\ writer[w].lost = {} /\ writer[w].attempt \in {1, 2}
        /\ UNCHANGED <<turns, seen, written, clears>>
    BY <1>0, <1>5 DEF C!Collide, OnceWritten, RivalsCome
  <2>2. CASE writer[w].attempt = 1
    <3> DEFINE c == [writer[w] EXCEPT !.at = "ready", !.attempt = 2]
    <3>1. /\ c \in WriterType /\ c.at = "ready" /\ c.attempt = 2
          /\ c.nth = writer[w].nth /\ c.lost = {}
      BY <2>1 DEF WriterType
    <3>2. writer' = [writer EXCEPT ![w] = c]
      BY <1>5, <2>2 DEF C!Collide
    <3>3. Rivals(C!Current(w)) >= 1
      BY <1>0, <2>1, <2>2 DEF RivalsCome
    <3> HIDE DEF c
    <3>4. QED  BY <1>1, <2>1, <3>1, <3>2, <3>3
  <2>3. CASE writer[w].attempt = 2
    <3> DEFINE c == [writer[w] EXCEPT !.at = "over", !.lost = {C!Current(w)}]
    <3>1. c \in WriterType /\ c.at = "over" /\ c.lost = {C!Current(w)}
      <4>1. {C!Current(w)} \in SUBSET C!Turns
        BY <1>0
      <4>2. QED  BY <2>1, <4>1 DEF WriterType
    <3>2. writer' = [writer EXCEPT ![w] = c]
      BY <1>5, <2>3 DEF C!Collide, C!GivesUp
    <3>3. Rivals(C!Current(w)) >= 2
      BY <1>0, <2>1, <2>3 DEF RivalsCome
    <3> HIDE DEF c
    <3>4. QED  BY <1>1, <2>1, <3>1, <3>2, <3>3
  <2>4. QED  BY <2>1, <2>2, <2>3
<1>6. CASE C!Stop(w)
  <2> DEFINE c == [writer[w] EXCEPT !.at = "over"]
  <2>1. writer[w] \in WriterType /\ writer[w].at # "over" /\ UNCHANGED <<turns, seen, written, clears>>
    BY <1>0, <1>6 DEF C!Stop
  <2>2. c \in WriterType /\ c.at = "over" /\ c.lost = writer[w].lost
    BY <2>1 DEF WriterType
  <2>3. writer' = [writer EXCEPT ![w] = c]
    BY <1>6 DEF C!Stop
  <2>4. \A t \in writer[w].lost : Rivals(t) >= 2
    BY <1>0 DEF RivalsCome
  <2> HIDE DEF c
  <2>5. QED  BY <1>1, <2>1, <2>2, <2>3, <2>4
<1>7. QED  BY <1>2, <1>3, <1>4, <1>5, <1>6 DEF C!Append

\* And so do the statements that delete turns.
LEMMA ConversationHolds ==
  ASSUME ConversationInv, C!Next PROVE ConversationInv'
<1>1. ASSUME turns' \subseteq turns, clears' \in Nat, UNCHANGED <<writer, seen, written>> PROVE ConversationInv'
  <2>1. ConversationTypes' /\ Bounded' /\ SeenIsWritten'
    BY <1>1 DEF ConversationInv, ConversationTypes, Bounded, SeenIsWritten
  <2>2. C!Seqs' \subseteq C!Seqs
    BY <1>1 DEF C!Seqs
  <2>3. \A w \in Writers : OnceWritten(w)' /\ RivalsCome(w)'
    BY <1>1, <2>2 DEF ConversationInv, OnceWritten, RivalsCome, Rivals, C!Current
  <2>4. QED  BY <2>1, <2>3 DEF ConversationInv
<1>2. CASE C!Clear \/ C!Prune
  <2>1. clears \in Nat
    BY DEF ConversationInv, ConversationTypes
  <2>2. CASE C!Clear
    BY <1>1, <2>1, <2>2 DEF C!Clear
  <2>3. CASE C!Prune
    <3>1. turns' \subseteq turns /\ UNCHANGED <<writer, seen, written, clears>>
      BY <2>3, Zenon DEF C!Prune
    <3>2. QED  BY <1>1, <2>1, <3>1
  <2>4. QED  BY <1>2, <2>2, <2>3
<1>3. QED  BY <1>2, AppendKeepsConversation DEF C!Next

-----------------------------------------------------------------------------
(***************************************************************************)
(* The theorems.                                                           *)
(***************************************************************************)
\* The inductive invariant: each part keeps its own while the others move, and
\* the purge of the project keeps that of the base.
THEOREM Invariance == Spec => []IInv
<1>1. Init => IInv
  <2> SUFFICES ASSUME Init PROVE IInv
    OBVIOUS
  <2>1. ProjectInv
    <3>1. ProjectTypes
      <4>1. \A p \in AllProjects : proj[p] \in ProjType
        BY DEF Init, P!Init, ProjType
      <4>2. [st |-> "none", proj |-> None] \in GrantType
        BY DEF GrantType
      <4>3. QED  BY <4>1, <4>2, ProjectRecords DEF Init, P!Init, ProjectTypes
    <3>2. RequestsAreSound /\ (\A p \in AllProjects : PromiseKept(p)) /\ (\A g \in Grants : GrantHeld(g))
      BY ProjectRecords DEF Init, P!Init, RequestsAreSound, PromiseKept, GrantHeld
    <3>3. QED  BY <3>1, <3>2 DEF ProjectInv
  <2>2. BaseInv
    <3>1. K!TypeOK
      BY PartsAreTyped DEF Init, K!Init, K!TypeOK, K!SizesAreCounts, K!NoDeletion
    <3>2. BaseComesFirst /\ EmptiedStays /\ K!NoOrphans /\ \A d \in Documents : IngestLeads(d) /\ StoredIsFound(d)
      BY DEF Init, K!Init, K!NoDeletion, BaseComesFirst, EmptiedStays, K!NoOrphans, IngestLeads, StoredIsFound
    <3>3. K!CountersAgree
      <4>1. K!Ready = {}
        BY DEF Init, K!Init, K!Ready
      <4>2. QED  BY <4>1, EmptyCount DEF Init, K!Init, K!CountersAgree
    <3>4. QED  BY <3>1, <3>2, <3>3 DEF BaseInv
  <2>3. ConversationInv
    <3>1. ConversationTypes /\ SeenIsWritten
      BY WriterRecords DEF Init, C!Init, ConversationTypes, SeenIsWritten
    <3>2. Bounded
      BY FS_EmptySet DEF Init, C!Init, Bounded
    <3>3. \A w \in Writers : OnceWritten(w) /\ RivalsCome(w)
      BY WriterRecords DEF Init, C!Init, OnceWritten, RivalsCome
    <3>4. QED  BY <3>1, <3>2, <3>3 DEF ConversationInv
  <2>4. QED  BY <2>1, <2>2, <2>3 DEF IInv
<1>2. IInv /\ [Next]_vars => IInv'
  <2> SUFFICES ASSUME IInv, [Next]_vars PROVE IInv'
    OBVIOUS
  <2>0. ProjectInv /\ BaseInv /\ ConversationInv
    BY DEF IInv
  <2>1. ASSUME UNCHANGED projects PROVE ProjectInv'
    BY <2>0, <2>1 DEF projects, ProjectInv, ProjectTypes, RequestsAreSound, PromiseKept, GrantHeld
  <2>2. ASSUME UNCHANGED base PROVE BaseInv'
    <3>1. K!TypeOK'
      BY <2>0, <2>2 DEF base, BaseInv, K!TypeOK
    <3>2. BaseComesFirst' /\ EmptiedStays' /\ \A d \in Documents : IngestLeads(d)' /\ StoredIsFound(d)'
      BY <2>0, <2>2 DEF base, BaseInv, BaseComesFirst, EmptiedStays, IngestLeads, StoredIsFound, Found
    <3>3. K!NoOrphans'
      BY <2>0, <2>2 DEF base, BaseInv, K!NoOrphans, K!HasRow, K!External
    <3>4. K!CountersAgree'
      <4>1. K!Count' = K!Count
        BY <2>2, SameCount DEF base, K!Ready
      <4>2. QED  BY <2>0, <2>2, <4>1 DEF base, BaseInv, K!CountersAgree
    <3>5. QED  BY <3>1, <3>2, <3>3, <3>4 DEF BaseInv
  <2>3. ASSUME UNCHANGED conversation PROVE ConversationInv'
    BY <2>0, <2>3 DEF conversation, ConversationInv, ConversationTypes, Bounded, SeenIsWritten,
                      OnceWritten, RivalsCome, Rivals, C!Current, C!Seqs
  <2>4. CASE ProjectStep
    <3>1. ProjectInv' /\ ConversationInv'
      BY <2>0, <2>3, <2>4, ProjectsHold DEF ProjectStep
    <3>2. BaseInv'
      BY <2>0, <2>2, <2>4, LifeKeepsBase DEF ProjectStep
    <3>3. QED  BY <3>1, <3>2 DEF IInv
  <2>5. CASE KnowledgeStep
    <3>1. ProjectInv' /\ ConversationInv'
      BY <2>1, <2>3, <2>5 DEF KnowledgeStep
    <3>2. BaseInv'
      BY <2>0, <2>5, IngestKeepsBase, DeletionKeepsBase, LifeKeepsBase DEF KnowledgeStep, K!Next
    <3>3. QED  BY <3>1, <3>2 DEF IInv
  <2>6. CASE ConversationStep
    BY <2>0, <2>1, <2>2, <2>6, ConversationHolds DEF ConversationStep, IInv
  <2>7. CASE UNCHANGED vars
    BY <2>1, <2>2, <2>3, <2>7 DEF vars, IInv
  <2>8. QED  BY <2>4, <2>5, <2>6, <2>7 DEF Next
<1>3. QED  BY <1>1, <1>2, PTL DEF Spec

\* A restore that was answered keeps the project.
THEOREM RestoreHolds == Spec => []RestoredStays
<1>1. IInv => RestoredStays
  BY DEF IInv, ProjectInv, ProjectTypes, PromiseKept, RestoredStays, P!RestoredStays, P!There
<1>2. QED  BY <1>1, Invariance, PTL

\* A purge leaves no grant of its project behind.
THEOREM GrantsFollow == Spec => []GrantsFollowProjects
<1>1. IInv => GrantsFollowProjects
  BY DEF IInv, ProjectInv, GrantHeld, GrantsFollowProjects, P!GrantsFollowProjects
<1>2. QED  BY <1>1, Invariance, PTL

\* The counters of the base are those of its ready documents.
THEOREM CountersFollow == Spec => []CountersAgree
<1>1. IInv => CountersAgree
  BY DEF IInv, BaseInv, CountersAgree
<1>2. QED  BY <1>1, Invariance, PTL

\* No search finds a document that is gone.
THEOREM NothingIsOrphaned == Spec => []NoOrphans
<1>1. IInv => NoOrphans
  BY DEF IInv, BaseInv, NoOrphans
<1>2. QED  BY <1>1, Invariance, PTL

\* A document that is ready is found.
THEOREM ReadyIsFound == Spec => []ReadyIsSearchable
<1>1. IInv => ReadyIsSearchable
  BY DEF IInv, BaseInv, StoredIsFound, Found, ReadyIsSearchable, K!ReadyIsSearchable
<1>2. QED  BY <1>1, Invariance, PTL

\* A lost turn had two rivals.
THEOREM LossIsRare == Spec => []LossNeedsTwoRivals
<1>1. IInv => LossNeedsTwoRivals
  <2>1. \A S : C!Cardinality(S) = Cardinality(S)
    BY DEF C!Cardinality, Cardinality
  <2>2. QED  BY <2>1 DEF IInv, ConversationInv, RivalsCome, Rivals, LossNeedsTwoRivals, C!LossNeedsTwoRivals
<1>2. QED  BY <1>1, Invariance, PTL
=============================================================================
