---------------------------- MODULE Conversations ----------------------------
(***************************************************************************)
(* One conversation of engine/memoryStore.js: its turns, numbered by seq    *)
(* under a unique index.  Agent nodes append a question and its answer      *)
(* (plugins/builtin/agent.js), memory.history.append one turn; a client     *)
(* clears the conversation and the retention pass keeps its newest turns.   *)
(***************************************************************************)
EXTENDS Naturals, FiniteSets, FiniteSetsExt

CONSTANTS
    Writers,        \* nodes that append to the conversation
    Agents,         \* those of them that append a question and an answer
    KeepTurns,      \* RETENTION_HISTORY_TURNS_PER_CONVERSATION
    MaxClears       \* bound: how often the conversation is cleared

\* Assumed of the constants, in ProjectContent.
TurnsAreKept ==
    /\ Agents \subseteq Writers /\ KeepTurns \in Nat \ {0} /\ MaxClears \in Nat

VARIABLES
    turns,      \* the rows: set of [seq, by, nth]
    writer,     \* each writer: its turn, attempt, and the seq its INSERT picked
    seen,       \* history: turns that were written when a turn's append began
    written,    \* history: turns written so far
    clears      \* bound: clears so far

vars == <<turns, writer, seen, written, clears>>

Turns == Writers \X {1, 2}
Start == [at |-> "new", nth |-> 1, attempt |-> 0, seq |-> 0, lost |-> {}]
Seqs == {t.seq : t \in turns}
Newest == IF Seqs = {} THEN 0 ELSE Max(Seqs)
Current(w) == <<w, writer[w].nth>>

Init ==
    /\ turns = {}
    /\ writer = [w \in Writers |-> Start]
    /\ seen = [t \in Turns |-> {}]
    /\ written = {}
    /\ clears = 0

\* appendHistory is called.
Begin(w) ==
    /\ writer[w].at = "new"
    /\ writer' = [writer EXCEPT ![w].at = "ready", ![w].attempt = 1]
    /\ seen' = [seen EXCEPT ![Current(w)] = written]
    /\ UNCHANGED <<turns, written, clears>>

\* The INSERT ... SELECT reads the rows committed so far: MAX(seq) + 1.
Pick(w) ==
    /\ writer[w].at = "ready"
    /\ writer' = [writer EXCEPT ![w].at = "inserting", ![w].seq = Newest + 1]
    /\ UNCHANGED <<turns, seen, written, clears>>

\* An agent goes on to its answer; any other writer is done.
Proceeds(w) == IF w \in Agents /\ writer[w].nth = 1
               THEN [Start EXCEPT !.nth = 2] ELSE [writer[w] EXCEPT !.at = "over"]

Commit(w) ==
    /\ writer[w].at = "inserting"
    /\ writer[w].seq \notin Seqs
    /\ turns' = turns \cup {[seq |-> writer[w].seq, by |-> w, nth |-> writer[w].nth]}
    /\ written' = written \cup {Current(w)}
    /\ writer' = [writer EXCEPT ![w] = Proceeds(w)]
    /\ UNCHANGED <<seen, clears>>

\* The index refuses a seq that is taken; one retry.  An agent only logs the
\* loss, and does not append its answer.
GivesUp(w) == [writer[w] EXCEPT !.at = "over", !.lost = {Current(w)}]

MutCollide(w) ==
    /\ writer[w].at = "inserting"
    /\ writer[w].seq \in Seqs
    /\ writer' = [writer EXCEPT ![w] = GivesUp(w)]
    /\ UNCHANGED <<turns, seen, written, clears>>

Collide(w) ==
    /\ writer[w].at = "inserting"
    /\ writer[w].seq \in Seqs
    /\ writer' = [writer EXCEPT ![w] =
                     IF writer[w].attempt = 1 THEN [writer[w] EXCEPT !.at = "ready", !.attempt = 2]
                     ELSE GivesUp(w)]
    /\ UNCHANGED <<turns, seen, written, clears>>

\* The node fails, times out or dies at a statement; what was sent may land.
Stop(w) ==
    /\ writer[w].at \in {"new", "ready"}
    /\ writer' = [writer EXCEPT ![w].at = "over"]
    /\ UNCHANGED <<turns, seen, written, clears>>

\* clearHistory, from POST /memory/history/clear.
Clear ==
    /\ turns # {}
    /\ clears < MaxClears
    /\ clears' = clears + 1
    /\ turns' = {}
    /\ UNCHANGED <<writer, seen, written>>

\* pruneConversationHistory
Prune ==
    LET newer(t) == {o \in turns : o.seq > t.seq} IN
    /\ Cardinality(turns) > KeepTurns
    /\ turns' = {t \in turns : Cardinality(newer(t)) < KeepTurns}
    /\ UNCHANGED <<writer, seen, written, clears>>

Append(w) == Begin(w) \/ Pick(w) \/ Commit(w) \/ Collide(w) \/ Stop(w)

Next == Clear \/ Prune \/ \E w \in Writers : Append(w)

Spec == Init /\ [][Next]_vars

-----------------------------------------------------------------------------
(***************************************************************************)
(* Properties                                                              *)
(***************************************************************************)

\* A turn is lost only when two others were written while it tried: two
\* writers never cost each other a turn.
LossNeedsTwoRivals ==
    \A w \in Writers : \A t \in writer[w].lost : Cardinality(written \ seen[t]) >= 2
=============================================================================
