---------------------------- MODULE ExecutionPage ----------------------------
(***************************************************************************)
(* The page that shows an execution (frontend/src/pages/InstanceViewer.vue) *)
(* beside the execution itself.  It asks for the execution again and again  *)
(* (GET /executions/:id), hears of its nodes over a web socket              *)
(* (ws/broadcast.js), and shows of each node the most advanced of three     *)
(* statuses: the summary that the last run left in executions.context, the  *)
(* row in node_states, and the last event.                                  *)
(***************************************************************************)
EXTENDS ExecutionLifecycle

CONSTANT
  MaxGets  \* bound: answers awaited by the page at one time

ASSUME PageAssumption == MaxGets \in Nat \ {0}

VARIABLES
  summary,  \* executions.context.nodes, "none" before a run has ended
  feed,     \* events published and not delivered
  live,     \* liveStatuses
  page,     \* what the last answer said, whether the page polls and listens
  get       \* the GETs under way

pageVars == <<summary, feed, live, page, get>>
allVars == <<vars, pageVars>>

Nothing == [n \in Node |-> "none"]
NoGet == [at |-> "idle", status |-> "none", summary |-> Nothing, rows |-> Nothing]
Gets == 1 .. MaxGets

\* The page has been opened and asks for the first time.
PageInit ==
  /\ Init
  /\ summary = Nothing /\ feed = <<>> /\ live = Nothing
  /\ page = [status |-> "none", summary |-> Nothing, rows |-> Nothing,
             polling |-> FALSE, listening |-> FALSE]
  /\ get = [g \in Gets |-> IF g = 1 THEN [NoGet EXCEPT !.at = "execution"] ELSE NoGet]

-----------------------------------------------------------------------------
(***************************************************************************)
(* A step of the execution, with what it leaves for the page.              *)
(***************************************************************************)
\* The last UPDATE of a run stores the outcome of every node with the status.
Summarises(j) == At(j, "final") /\ run'[j].pc = "returned" /\ exec # "deleted"
Outcome(j) == [n \in Node |-> IF run[j].results[n] = "none" THEN "pending" ELSE run[j].results[n]]

\* An upsert is issued together with an event; Redis takes it to the API
\* process, which drops it unless the page listens.
Issued(j) == SubSeq(writes'[j], Len(writes[j]) + 1, Len(writes'[j]))
Events == IF \E j \in Job : Issued(j) # <<>> THEN Issued(CHOOSE j \in Job : Issued(j) # <<>>) ELSE <<>>

LifeStep ==
  /\ Next
  /\ IF \E j \in Job : Summarises(j)
     THEN summary' = Outcome(CHOOSE j \in Job : Summarises(j))
     ELSE UNCHANGED summary
  /\ feed' = IF page.listening THEN feed \o Events ELSE feed
  /\ UNCHANGED <<live, page, get>>

\* Events arrive in the order they were sent, or not at all.
Hear ==
  /\ feed # <<>>
  /\ live' = [live EXCEPT ![Head(feed)[1]] = Head(feed)[2]]
  /\ feed' = Tail(feed)
  /\ UNCHANGED <<vars, summary, page, get>>

Miss ==
  /\ feed # <<>>
  /\ feed' = Tail(feed)
  /\ UNCHANGED <<vars, summary, live, page, get>>

-----------------------------------------------------------------------------
(***************************************************************************)
(* loadExecution: nothing keeps two of them apart.                         *)
(***************************************************************************)
Watched == {"queued", "running", "waiting"}

Ask(g) ==
  /\ get[g].at = "idle"
  /\ get' = [get EXCEPT ![g].at = "execution"]
  /\ UNCHANGED <<vars, summary, feed, live, page>>

\* The timer fires, or the user refreshes the page or sends a request from it.
Poll(g) == page.polling /\ Ask(g)
Refresh(g) == page.listening /\ Ask(g)

\* The handler of the GET reads the execution, then the rows.
ReadExecution(g) ==
  /\ get[g].at = "execution"
  /\ get' = [get EXCEPT ![g] = IF exec = "deleted" THEN [NoGet EXCEPT !.at = "failed"]
                               ELSE [@ EXCEPT !.at = "rows", !.status = exec, !.summary = summary]]
  /\ UNCHANGED <<vars, summary, feed, live, page>>

ReadRows(g) ==
  /\ get[g].at = "rows"
  /\ get' = [get EXCEPT ![g].at = "answered", ![g].rows = row]
  /\ UNCHANGED <<vars, summary, feed, live, page>>

\* The answer replaces what the page had.  A watcher of the status starts the
\* timer and stops it.
MutNeverAgain(status) ==
  status \in Watched /\ (page.status = "none" \/ page.polling)

Watch(status) == IF status = page.status THEN page.polling ELSE status \in Watched

Show(g) ==
  /\ get[g].at = "answered"
  /\ page' = [status |-> get[g].status, summary |-> get[g].summary, rows |-> get[g].rows,
              polling |-> Watch(get[g].status), listening |-> TRUE]
  /\ get' = [get EXCEPT ![g] = NoGet]
  /\ UNCHANGED <<vars, summary, feed, live>>

\* The execution is gone, or a request fails: the page says so and keeps what
\* it has.
Fail(g) ==
  /\ get[g].at # "idle"
  /\ page' = [page EXCEPT !.listening = TRUE]
  /\ get' = [get EXCEPT ![g] = NoGet]
  /\ UNCHANGED <<vars, summary, feed, live>>

PageNext ==
  \/ LifeStep \/ Hear \/ Miss
  \/ \E g \in Gets : Poll(g) \/ Refresh(g) \/ ReadExecution(g) \/ ReadRows(g) \/ Show(g) \/ Fail(g)

\* The timer goes off, and of the requests that are made again and again some
\* are answered.  Nothing is assumed of events.
PageFairness ==
  /\ WF_allVars(\E g \in Gets : Poll(g))
  /\ \A g \in Gets :
       SF_allVars(ReadExecution(g)) /\ SF_allVars(ReadRows(g)) /\ SF_allVars(Show(g))

PageSpec == PageInit /\ [][PageNext]_allVars
FairPageSpec == PageSpec /\ Fairness /\ PageFairness
-----------------------------------------------------------------------------
(***************************************************************************)
(* What is shown of a node.                                                *)
(***************************************************************************)
Rank(status) ==
  CASE status \in Terminal -> 100
    [] status = "waiting"  -> 80
    [] status = "running"  -> 50
    [] status = "pending"  -> 10
    [] OTHER               -> 0

\* The first of the most advanced ones.
MutFreshestWins(n) ==
  IF live[n] # "none" THEN live[n]
  ELSE IF page.rows[n] # "none" THEN page.rows[n] ELSE page.summary[n]

Shown(n) ==
  LET advanced(s, t) == IF Rank(t) > Rank(s) THEN t ELSE s
  IN advanced(advanced(page.summary[n], page.rows[n]), live[n])

\* A page that shows an execution as queued, running or waiting comes to show
\* what became of it, in whatever order its answers arrive.
PageCatchesUp == <>[](page.status \in Watched => page.status = exec \/ exec = "deleted")

\* Once the page has the final state of an execution at rest, it shows each node
\* as its row is, whichever events it has missed (InstanceViewer.vue:508, "WS
\* events can drop or arrive out of order").  One that has not ended may be shown
\* as the page last heard of it, in an earlier run: liveStatuses is never cleared.
UpToDate == page.status = exec /\ page.summary = summary /\ page.rows = row

ShownIsRow ==
  AtRest /\ exec \in Finals /\ UpToDate =>
    \A n \in Node : Shown(n) = row[n] \/ (row[n] \notin Terminal /\ Shown(n) = live[n])
=============================================================================
