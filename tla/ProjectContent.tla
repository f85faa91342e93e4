--------------------------- MODULE ProjectContent ---------------------------
(***************************************************************************)
(* A project, a knowledge base of it and a conversation of its workflows:   *)
(* what the purge of the project takes along and what it leaves.  The base  *)
(* goes with the project; its chunks go where a foreign key ties them.  The *)
(* conversation stays: every caller of engine/memoryStore.js leaves the     *)
(* project out, and the rows are those of the Default project.              *)
(***************************************************************************)
CONSTANTS
    AllProjects, Default, Grants, Requests, Passes,     \* Projects
    Documents, Slots, Size(_), Backends,                \* KnowledgeBase
    Writers, Agents, KeepTurns, MaxClears,              \* Conversations
    Home,       \* the project of the knowledge base
    None

VARIABLES
    proj, grant, request, pass, promised, hurried, late,
    kb, creating, doc, chunks, counters, ingest, put, deletion, uncounted, raced, halved,
    turns, writer, seen, written, clears

P == INSTANCE Projects
K == INSTANCE KnowledgeBase
C == INSTANCE Conversations

ASSUME HomeIsAProject == Home \in AllProjects
ASSUME PartsAreTyped ==
    P!DefaultIsAProject /\ K!SizesAreCounts /\ C!TurnsAreKept

projects == <<proj, grant, request, pass, promised, hurried, late>>
base == <<kb, creating, doc, chunks, counters, ingest, put, deletion, uncounted, raced, halved>>
conversation == <<turns, writer, seen, written, clears>>
vars == <<projects, base, conversation>>

Init == P!Init /\ K!Init /\ C!Init

\* A knowledge base is created in a project that has a row.
Based == kb'.st = "there" => P!There(Home)
Purged == P!There(Home) /\ proj'[Home].row = "purged"

ProjectStep ==
    /\ P!Next
    /\ IF Purged THEN K!ProjectPurged ELSE UNCHANGED base
    /\ UNCHANGED conversation

KnowledgeStep == K!Next /\ Based /\ UNCHANGED <<projects, conversation>>

ConversationStep == C!Next /\ UNCHANGED <<projects, base>>

Next == ProjectStep \/ KnowledgeStep \/ ConversationStep

Spec == Init /\ [][Next]_vars

-----------------------------------------------------------------------------
(***************************************************************************)
(* Properties: those of the parts hold while the others move.              *)
(***************************************************************************)

\* A restore that was answered keeps the project (Projects).
RestoredStays == P!RestoredStays

\* No grant outlives its project, but one inserted after the sweep (Projects).
GrantsFollowProjects == P!GrantsFollowProjects

\* The counters of the base are those of its documents (KnowledgeBase).
CountersAgree == K!CountersAgree

\* No search finds a document that is gone, the purge included: in pgvector
\* never (KnowledgeBase).
NoOrphans == K!NoOrphans

\* A document that is ready has its chunks (KnowledgeBase).
ReadyIsSearchable == K!ReadyIsSearchable

\* A lost turn had two rivals (Conversations).
LossNeedsTwoRivals == C!LossNeedsTwoRivals
=============================================================================
