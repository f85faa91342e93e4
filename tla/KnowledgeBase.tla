---------------------------- MODULE KnowledgeBase ----------------------------
(***************************************************************************)
(* One knowledge base: its row with the counters, the rows of its           *)
(* documents, and the chunks a search finds, which live in the same         *)
(* database (pgvector, cascading with the document) or in a store of their  *)
(* own (qdrant).  rag/ingest.js fills a document statement by statement;    *)
(* api/knowledgeBases.js creates and deletes.                               *)
(***************************************************************************)
EXTENDS Integers, FiniteSets, FiniteSetsExt

CONSTANTS
    Documents,      \* documents that may come; each has an id of its own
    Slots,          \* DELETE requests under way at once
    Size(_),        \* how many chunks a document makes
    Backends,       \* subset of {"pgvector", "qdrant"}
    None

\* Assumed of the constants, in ProjectContent.
SizesAreCounts ==
    /\ \A d \in Documents : Size(d) \in Nat \ {0}
    /\ Backends \subseteq {"pgvector", "qdrant"}
    /\ None \notin Documents

VARIABLES
    kb,         \* knowledge_bases: none, there, deleted (softly); its backend
    creating,   \* a create request is setting the backend up
    doc,        \* kb_documents: status
    chunks,     \* chunks of each document in the store
    counters,   \* document_count and chunk_count
    ingest,     \* where each document's ingest stands
    put,        \* documents with a timed-out upsert the store may still apply
    deletion,   \* where each DELETE request stands
    uncounted,  \* history: a request ended before it recounted
    raced,      \* history: documents whose row went while their ingest was under way
    halved      \* history: documents with a DELETE that ended before the row went

vars == <<kb, creating, doc, chunks, counters, ingest, put, deletion,
          uncounted, raced, halved>>
history == <<uncounted, raced, halved>>

External == kb.backend = "qdrant"
HasRow(d) == doc[d] # "none"
Ready == {d \in Documents : doc[d] = "ready"}
NoDeletion == [at |-> "idle", doc |-> None]
UnderWay(d) == ingest[d] \notin {"none", "over"}

Init ==
    /\ kb = [st |-> "none", backend |-> None]
    /\ creating = FALSE
    /\ doc = [d \in Documents |-> "none"]
    /\ chunks = [d \in Documents |-> 0]
    /\ counters = [documents |-> 0, chunks |-> 0]
    /\ ingest = [d \in Documents |-> "none"]
    /\ put = {}
    /\ deletion = [s \in Slots |-> NoDeletion]
    /\ uncounted = FALSE
    /\ raced = {}
    /\ halved = {}

(***************************************************************************)
(* POST /knowledge-bases: the row is there, and can be used, before the     *)
(* external backend is set up; when that fails the row goes again and its   *)
(* documents with it.                                                       *)
(***************************************************************************)
CreateKb(backend) ==
    /\ kb.st = "none"
    /\ kb' = [st |-> "there", backend |-> backend]
    /\ creating' = (backend = "qdrant")
    /\ UNCHANGED <<doc, chunks, counters, ingest, put, deletion, history>>

BackendIsUp ==
    /\ creating
    /\ creating' = FALSE
    /\ UNCHANGED <<kb, doc, chunks, counters, ingest, put, deletion, history>>

CreateRolledBack ==
    /\ creating
    /\ creating' = FALSE
    /\ kb' = [kb EXCEPT !.st = "gone"]
    /\ doc' = [d \in Documents |-> "none"]
    /\ raced' = raced \cup {d \in Documents : chunks[d] > 0}
    /\ UNCHANGED <<chunks, counters, ingest, put, deletion, uncounted, halved>>

\* DELETE /:id is soft: documents and chunks stay where they are.
DeleteKb ==
    /\ kb.st = "there"
    /\ kb' = [kb EXCEPT !.st = "deleted"]
    /\ UNCHANGED <<creating, doc, chunks, counters, ingest, put, deletion, history>>

\* The row goes with its project (ON DELETE CASCADE), the documents with the
\* row, and the chunks where a foreign key ties them to the documents.  A step
\* of whoever purges the project, not of Next.
ProjectPurged ==
    /\ kb' = IF kb.st = "none" THEN kb ELSE [kb EXCEPT !.st = "gone"]
    /\ doc' = [d \in Documents |-> "none"]
    /\ chunks' = IF External THEN chunks ELSE [d \in Documents |-> 0]
    /\ raced' = IF External THEN raced \cup {d \in Documents : chunks[d] > 0} ELSE raced
    /\ UNCHANGED <<creating, counters, ingest, put, deletion, uncounted, halved>>

(***************************************************************************)
(* The rollup of both paths counts the ready documents again.  One          *)
(* statement.                                                               *)
(***************************************************************************)
Count == [documents |-> Cardinality(Ready), chunks |-> MapThenSumSet(Size, Ready)]

MutRecount == counters' = [documents |-> counters.documents + 1,
                           chunks |-> counters.chunks + 1]

\* refreshKbCounters
Recount == counters' = Count

(***************************************************************************)
(* Ingest: POST .../upload, .../url, .../text and the plugin rag.ingest.    *)
(***************************************************************************)
Goes(d, at) == ingest' = [ingest EXCEPT ![d] = at]
SetStatus(d, status) == doc' = IF HasRow(d) THEN [doc EXCEPT ![d] = status] ELSE doc

\* loadKb refuses a deleted base; what follows works on the row it returned.
LoadKb(d) ==
    /\ ingest[d] = "none"
    /\ kb.st = "there"
    /\ Goes(d, "loaded")
    /\ UNCHANGED <<kb, creating, doc, chunks, counters, put, deletion, history>>

\* The foreign key refuses a document of a base whose row is gone.
InsertDocument(d) ==
    /\ ingest[d] = "loaded"
    /\ IF kb.st = "gone" THEN UNCHANGED doc /\ Goes(d, "over")
                         ELSE doc' = [doc EXCEPT ![d] = "pending"] /\ Goes(d, "inserted")
    /\ UNCHANGED <<kb, creating, chunks, counters, put, deletion, history>>

\* markFailed: no text, no chunks, no key, or an embedding that fails.
Fails(d) ==
    /\ ingest[d] \in {"inserted", "processing"}
    /\ SetStatus(d, "failed")
    /\ Goes(d, "over")
    /\ UNCHANGED <<kb, creating, chunks, counters, put, deletion, history>>

Processing(d) ==
    /\ ingest[d] = "inserted"
    /\ SetStatus(d, "processing")
    /\ Goes(d, "processing")
    /\ UNCHANGED <<kb, creating, chunks, counters, put, deletion, history>>

Embedded(d) ==
    /\ ingest[d] = "processing"
    /\ Goes(d, "embedded")
    /\ UNCHANGED <<kb, creating, doc, chunks, counters, put, deletion, history>>

\* store.upsertChunks.  pgvector writes the chunks of a document that has a
\* row, in one transaction; qdrant takes them in any case.
Accepts(d) == External \/ HasRow(d)

\* History: the chunks come behind the back of a deletion.
MeetsDeletion(d) ==
    ~HasRow(d) \/ \E s \in Slots : deletion[s] = [at |-> "emptied", doc |-> d]
Lands(d) ==
    /\ chunks' = [chunks EXCEPT ![d] = Size(d)]
    /\ raced' = IF MeetsDeletion(d) THEN raced \cup {d} ELSE raced

Upsert(d) ==
    /\ ingest[d] = "embedded"
    /\ Accepts(d)
    /\ Lands(d)
    /\ Goes(d, "stored")
    /\ UNCHANGED <<kb, creating, doc, counters, put, deletion, uncounted, halved>>

\* An error of the store is thrown, without markFailed: the document stays in
\* processing.  A request that timed out may still be applied.
MutUpsertFails(d) ==
    /\ ingest[d] = "embedded"
    /\ Goes(d, "stored")
    /\ UNCHANGED <<kb, creating, doc, chunks, counters, put, deletion, history>>

UpsertFails(d) ==
    /\ ingest[d] = "embedded"
    /\ Goes(d, "over")
    /\ put' \in {put} \cup (IF External THEN {put \cup {d}} ELSE {})
    /\ UNCHANGED <<kb, creating, doc, chunks, counters, deletion, history>>

LatePut(d) ==
    /\ d \in put
    /\ Lands(d)
    /\ put' = put \ {d}
    /\ UNCHANGED <<kb, creating, doc, counters, ingest, deletion, uncounted, halved>>

MarkReady(d) ==
    /\ ingest[d] = "stored"
    /\ SetStatus(d, "ready")
    /\ Goes(d, "ready")
    /\ UNCHANGED <<kb, creating, chunks, counters, put, deletion, history>>

RefreshAfterIngest(d) ==
    /\ ingest[d] = "ready"
    /\ Recount
    /\ Goes(d, "over")
    /\ uncounted' = FALSE
    /\ UNCHANGED <<kb, creating, doc, chunks, put, deletion, raced, halved>>

IngestDies(d) ==
    /\ UnderWay(d)
    /\ Goes(d, "over")
    /\ uncounted' = (uncounted \/ ingest[d] = "ready")
    /\ UNCHANGED <<kb, creating, doc, chunks, counters, put, deletion, raced, halved>>

(***************************************************************************)
(* DELETE /:id/documents/:documentId: the store first, then the row, so     *)
(* that a store that refuses keeps the document; then the counters.         *)
(***************************************************************************)
Deletes(s, at) == deletion' = [deletion EXCEPT ![s].at = at]
EndsDeletion(s) == deletion' = [deletion EXCEPT ![s] = NoDeletion]

AskDeletion(s, d) ==
    /\ deletion[s].at = "idle"
    /\ kb.st = "there"
    /\ HasRow(d)
    /\ deletion' = [deletion EXCEPT ![s] = [at |-> "asked", doc |-> d]]
    /\ UNCHANGED <<kb, creating, doc, chunks, counters, ingest, put, history>>

DeleteChunks(s) ==
    LET d == deletion[s].doc IN
    /\ deletion[s].at = "asked"
    /\ chunks' = [chunks EXCEPT ![d] = 0]
    /\ Deletes(s, "emptied")
    /\ UNCHANGED <<kb, creating, doc, counters, ingest, put, history>>

MutStoreRefuses(s) ==
    /\ deletion[s].at = "asked"
    /\ Deletes(s, "emptied")
    /\ UNCHANGED <<kb, creating, doc, chunks, counters, ingest, put, history>>

StoreRefuses(s) ==
    /\ deletion[s].at = "asked"
    /\ EndsDeletion(s)
    /\ UNCHANGED <<kb, creating, doc, chunks, counters, ingest, put, history>>

\* The external store did it, but its answer came too late.
StoreTimesOut(s) ==
    LET d == deletion[s].doc IN
    /\ deletion[s].at = "asked"
    /\ External
    /\ chunks' = [chunks EXCEPT ![d] = 0]
    /\ halved' = halved \cup {d}
    /\ EndsDeletion(s)
    /\ UNCHANGED <<kb, creating, doc, counters, ingest, put, uncounted, raced>>

DeleteRow(s) ==
    LET d == deletion[s].doc IN
    /\ deletion[s].at = "emptied"
    /\ doc' = [doc EXCEPT ![d] = "none"]
    /\ chunks' = IF External THEN chunks ELSE [chunks EXCEPT ![d] = 0]
    /\ IF HasRow(d) THEN Deletes(s, "removed") ELSE EndsDeletion(s)
    /\ UNCHANGED <<kb, creating, counters, ingest, put, history>>

RefreshAfterDelete(s) ==
    /\ deletion[s].at = "removed"
    /\ Recount
    /\ EndsDeletion(s)
    /\ uncounted' = FALSE
    /\ UNCHANGED <<kb, creating, doc, chunks, ingest, put, raced, halved>>

DeletionDies(s) ==
    /\ deletion[s].at # "idle"
    /\ EndsDeletion(s)
    /\ uncounted' = (uncounted \/ deletion[s].at = "removed")
    /\ halved' = IF deletion[s].at = "emptied" THEN halved \cup {deletion[s].doc} ELSE halved
    /\ UNCHANGED <<kb, creating, doc, chunks, counters, ingest, put, raced>>

Ingesting(d) ==
    \/ LoadKb(d) \/ InsertDocument(d) \/ Fails(d) \/ Processing(d) \/ Embedded(d)
    \/ Upsert(d) \/ UpsertFails(d) \/ LatePut(d) \/ MarkReady(d)
    \/ RefreshAfterIngest(d) \/ IngestDies(d)

Deleting(s) ==
    \/ \E d \in Documents : AskDeletion(s, d)
    \/ DeleteChunks(s) \/ StoreRefuses(s) \/ StoreTimesOut(s) \/ DeleteRow(s)
    \/ RefreshAfterDelete(s) \/ DeletionDies(s)

Next ==
    \/ \E b \in Backends : CreateKb(b)
    \/ BackendIsUp \/ CreateRolledBack \/ DeleteKb
    \/ \E d \in Documents : Ingesting(d)
    \/ \E s \in Slots : Deleting(s)

Spec == Init /\ [][Next]_vars

-----------------------------------------------------------------------------
(***************************************************************************)
(* Properties                                                              *)
(***************************************************************************)

\* Every variable keeps its type.
TypeOK ==
    /\ kb \in [st : {"none", "there", "deleted", "gone"}, backend : Backends \cup {None}]
    /\ creating \in BOOLEAN
    /\ doc \in [Documents -> {"none", "pending", "processing", "ready", "failed"}]
    /\ chunks \in [Documents -> Nat] /\ \A d \in Documents : chunks[d] \in {0, Size(d)}
    /\ DOMAIN counters = {"documents", "chunks"}
    /\ ingest \in [Documents -> {"none", "loaded", "inserted", "processing", "embedded",
                                 "stored", "ready", "over"}]
    /\ put \subseteq Documents
    /\ deletion \in [Slots -> [at : {"idle", "asked", "emptied", "removed"},
                               doc : Documents \cup {None}]]
    /\ uncounted \in BOOLEAN /\ raced \subseteq Documents /\ halved \subseteq Documents

\* The counters a page shows are those of the ready documents, however
\* ingests and deletions overlap, except between a statement that changes
\* the set and the recount that follows it, or when its request died there.
CountersAgree ==
    \/ kb.st = "gone" \/ uncounted
    \/ counters = Count
    \/ \E d \in Documents : ingest[d] = "ready"
    \/ \E s \in Slots : deletion[s].at = "removed"

\* A search finds no chunk of a document that is gone: never in pgvector, and
\* in qdrant only when the chunks landed behind the back of the deletion, or
\* when the row went with its base or its project, which the store is not told.
NoOrphans ==
    \A d \in Documents : chunks[d] > 0 /\ ~HasRow(d) => External /\ d \in raced

\* A document that is ready has all its chunks, except under a deletion that
\* has emptied the store, or after one that ended there.
ReadyIsSearchable ==
    \A d \in Documents : doc[d] = "ready" =>
        \/ chunks[d] = Size(d) \/ d \in halved
        \/ \E s \in Slots : deletion[s] = [at |-> "emptied", doc |-> d]
=============================================================================
