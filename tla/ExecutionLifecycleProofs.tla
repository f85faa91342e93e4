----------------------- MODULE ExecutionLifecycleProofs -----------------------
(***************************************************************************)
(* What the rows of an execution keep through crashes, deliveries and      *)
(* requests, that each run is one of DagRun, and, for one operator, that   *)
(* one job at a time works on the rows, that they agree with the status at *)
(* rest and that the page then shows them, for every graph and every       *)
(* number of jobs and workers.                                             *)
(***************************************************************************)
EXTENDS ExecutionPage, FiniteSetTheorems, SequenceTheorems, TLAPS

-----------------------------------------------------------------------------
(***************************************************************************)
(* The inductive invariant, in named parts.                                *)
(***************************************************************************)
Write == Node \X (Statuses \ {"none"})
JobState == [state : {"free", "queued", "active", "gone"}, stalls : 0 .. 1]
Places == {"idle", "load", "mark", "start", "dag", "final", "rescue", "thrown", "returned",
           "done", "dead"}
Memory == [pc : Places,
           worker : Worker \cup {"none"}, loaded : [Node -> Statuses],
           results : [Node -> {"none"} \cup Settled], active : SUBSET Node, aborted : BOOLEAN,
           dag : {"off", "on", "ended"}, overall : {"none"} \cup Finals]
Asked == [pc : {"check", "reset", "requeue", "enqueue", "died"},
          kind : Kinds \cap {"resume", "skip", "respond"}, node : Node]

\* Every variable keeps its type.
Types ==
  /\ exec \in {"queued", "running", "deleted"} \cup Finals
  /\ row \in [Node -> Statuses]
  /\ job \in [Job -> JobState]
  /\ run \in [Job -> Memory]
  /\ writes \in [Job -> Seq(Write)]
  /\ req \in [Client -> Asked \cup {NoRequest}]
  /\ boot \in [Worker -> {"down", "reaping", "marking", "up"}]
  /\ crashes \in Nat

\* So do those of the page.
Rows == [Node -> Statuses]
States == {"none", "queued", "running"} \cup Finals
Shows == [status : States, summary : Rows, rows : Rows, polling : BOOLEAN, listening : BOOLEAN]
Awaited == [at : {"idle", "execution", "rows", "answered", "failed"},
            status : States, summary : Rows, rows : Rows]

PageTypes ==
  /\ summary \in Rows /\ live \in Rows /\ feed \in Seq(Write)
  /\ page \in Shows /\ get \in [Gets -> Awaited]

\* What the run with memory m has said of node n last.
Said(m, n) == IF m.results[n] # "none" THEN m.results[n]
              ELSE IF n \in m.active THEN "running"
              ELSE IF m.dag = "ended" THEN "pending" ELSE "silent"

\* The upserts of a run say of a node that it is running, and then what the run
\* knows of it.
InTurn(m, w) ==
  \A i, k \in DOMAIN w :
    /\ Said(m, w[i][1]) # "silent"
    /\ i <= k /\ w[i][1] = w[k][1] /\ w[i][2] # "running" => w[k][2] = Said(m, w[k][1])

\* A job in state s, its memory and its upserts.
JobFits(s, m, w) ==
  /\ s \in {"free", "queued"} => m.pc \in {"idle", "dead"}
  /\ m.pc \in {"idle", "dead", "load", "mark", "start"} => m.dag = "off"
  /\ m.dag = "off" => w = <<>> /\ m.active = {}
  /\ m.active \subseteq {n \in Node : m.results[n] = "none"}
  /\ m.dag = "ended" => m.active = {} /\ m.overall \in Finals
  /\ m.pc = "final" => m.dag = "ended"
  /\ InTurn(m, w)

JobInv == job[FirstJob].state # "free" /\ \A j \in Job : JobFits(job[j].state, run[j], writes[j])

\* Nobody has changed anything yet: no request has passed its reset, and there
\* is one job.
Quiet ==
  /\ \A r \in Client : req[r].pc \in {"idle", "check", "reset"}
  /\ \A j, k \in Job : j # k => "free" \in {job[j].state, job[k].state}

\* A success on disk is known to whatever runs, and nothing that would replace
\* it is on its way.
Known(n, m, w) ==
  /\ m.pc \in {"mark", "start"} => m.loaded[n] = "success"
  /\ m.dag # "off" => m.results[n] = "success"
  /\ \A i \in DOMAIN w : w[i][1] = n => w[i][2] = "success"

SuccessInv ==
  Quiet => \A n \in Node : row[n] = "success" => \A j \in Job : Known(n, run[j], writes[j])

\* The inductive invariant of every instance.
IInv == Types /\ JobInv /\ (InOrder => SuccessInv)

-----------------------------------------------------------------------------
(***************************************************************************)
(* Two stronger invariants for one operator.                               *)
(***************************************************************************)
\* One client that resumes, skips and deletes, and workers that neither crash
\* nor have a wall-clock budget.
OneOperator ==
  /\ \A r, s \in Client : r = s
  /\ Kinds \subseteq {"resume", "skip", "delete"}
  /\ ~MayTimeOut /\ MaxCrashes = 0

\* A job that is still to write the executions row, and a request that is.
Working == {"load", "mark", "start", "dag", "final", "thrown"}
Busy(j) == job[j].state = "queued" \/ run[j].pc \in Working
Underway(r) == req[r].pc \in {"reset", "requeue", "enqueue"}

\* A job in state s, its memory and its upserts: all is over when it returns.
EndsClean(s, m, w) ==
  /\ m.pc \notin {"rescue", "dead"}
  /\ m.dag = "on" \/ w # <<>> => m.pc = "dag"
  /\ m.pc \in Working \cup {"returned"} => s = "active"

\* One thing at a time works on the execution, and its status says so.
OneInv ==
  /\ crashes = 0 /\ \A w \in Worker : boot[w] = "up"
  /\ \A r \in Client : req[r].pc # "check"
  /\ \A j \in Job : EndsClean(job[j].state, run[j], writes[j])
  /\ \A j, k \in Job : Busy(j) /\ Busy(k) => j = k
  /\ \A j \in Job : Busy(j) => exec \in NotResumable /\ \A r \in Client : ~Underway(r)
  /\ \A r \in Client : req[r].pc = "enqueue" => exec \in {"queued", "deleted"}

\* What a run with memory m has said of node n is on its way, or on disk.
Told(n, status, m, w) ==
  Said(m, n) # "silent" =>
    \/ \E i \in DOMAIN w : w[i][1] = n /\ w[i][2] = Said(m, n)
    \/ status = Said(m, n) /\ \A i \in DOMAIN w : w[i][1] # n

\* How executeDag ends, and what it leaves.
Judged(m) ==
  m.overall = IF m.aborted THEN "failed"
              ELSE IF \E n \in Node : m.results[n] = "failed" THEN "partial"
              ELSE IF \E n \in Node : m.results[n] = "waiting" THEN "waiting"
              ELSE "success"

Reached(m) ==
  ~m.aborted => \A n \in Node : m.results[n] = "none" =>
                   \E p \in Parents(n) : m.results[p] \notin Terminal

\* A job that knows the rows, or is about to write what it knows.
Truthful(e, rows, m, w) ==
  /\ m.pc \in {"mark", "start"} /\ e # "deleted" => m.loaded = rows
  /\ m.pc \in {"dag", "final"} /\ e # "deleted" => \A n \in Node : Told(n, rows[n], m, w)
  /\ m.dag = "ended" => Judged(m) /\ Reached(m)

\* What a final status says of the rows.
Matches(e, rows) ==
  /\ e = "success" => \A n \in Node : rows[n] \in {"success", "skipped"}
  /\ e = "partial" => \E n \in Node : rows[n] = "failed"
  /\ e = "waiting" => (\E n \in Node : rows[n] = "waiting") /\ \A n \in Node : rows[n] # "failed"

\* The rows agree with the status until a request has passed its reset.
MatchInv ==
  /\ \A j \in Job : Truthful(exec, row, run[j], writes[j])
  /\ (\A r \in Client : req[r].pc \in {"idle", "reset"}) => Matches(exec, row)

\* Where no run throws, the summary of the last one is what the rows say, until
\* a request has passed its reset.
SummaryInv ==
  /\ \A j \in Job : run[j].pc # "thrown"
  /\ exec \in Finals /\ (\A r \in Client : req[r].pc \in {"idle", "reset"}) => summary = row

-----------------------------------------------------------------------------
(***************************************************************************)
(* The upserts of a run.                                                   *)
(***************************************************************************)

\* The statuses a row may have are those of a run's upserts, or none.
LEMMA Words ==
  /\ "silent" \notin Statuses /\ "none" \notin Settled /\ Settled \subseteq Statuses
  /\ {"running", "pending", "waiting", "success", "failed", "skipped"} \subseteq Statuses \ {"none"}
BY DEF Statuses, Settled, Terminal

\* The elements of a finite set, in some order.
LEMMA SeqOfSet ==
  ASSUME NEW T, IsFiniteSet(T)
  PROVE  /\ Cardinality(T) \in Nat /\ SetToSeq(T) \in [1 .. Cardinality(T) -> T]
         /\ \A t \in T : \E i \in 1 .. Cardinality(T) : SetToSeq(T)[i] = t
<1> DEFINE N == Cardinality(T)
           f == SetToSeq(T)
<1>1. N \in Nat /\ ExistsBijection(1 .. N, T)
  BY FS_CardinalityType
<1>2. f \in Injection(1 .. N, T)
  <2>1. f = CHOOSE g \in [1 .. N -> T] : IsInjective(g)
    BY DEF SetToSeq
  <2>2. \E g \in [1 .. N -> T] : IsInjective(g)
    BY <1>1 DEF ExistsBijection, Bijection, Injection
  <2> QED  BY <2>1, <2>2 DEF Injection
<1>3. f \in Surjection(1 .. N, T)
  <2>1. Cardinality(1 .. N) = N
    <3>1. 1 \in Int /\ N \in Int /\ (IF 1 > N THEN 0 ELSE N - 1 + 1) = N
      BY <1>1
    <3> QED  BY <3>1, FS_Interval
  <2> HIDE DEF f
  <2> QED  BY <1>2, <2>1, FS_Injection
<1> QED  BY <1>1, <1>3 DEF Surjection

\* The upserts of a set of nodes name each of them, and no other.
LEMMA UpsertsAre ==
  ASSUME NEW S \in SUBSET Node, NEW status \in Statuses \ {"none"}
  PROVE  /\ Upserts(S, status) \in Seq(Write)
         /\ \A i \in DOMAIN Upserts(S, status) :
              Upserts(S, status)[i][1] \in S /\ Upserts(S, status)[i][2] = status
         /\ \A n \in S : \E i \in DOMAIN Upserts(S, status) : Upserts(S, status)[i] = <<n, status>>
<1>1. PICK T : T = {<<n, status>> : n \in S}
  OBVIOUS
<1>2. IsFiniteSet(T)
  <2>1. IsFiniteSet(Node) /\ IsFiniteSet({status})
    BY DagAssumption, FS_Singleton
  <2>2. IsFiniteSet(Node \X {status})
    BY <2>1, FS_Product
  <2>3. T \in SUBSET (Node \X {status})
    BY <1>1
  <2> QED  BY <2>2, <2>3, FS_Subset
<1>3. Upserts(S, status) = SetToSeq(T)
  BY <1>1 DEF Upserts
<1>4. T \subseteq Write
  BY <1>1 DEF Write
<1> DEFINE N == Cardinality(T)
           f == SetToSeq(T)
<1>5. N \in Nat /\ f \in [1 .. N -> T] /\ \A t \in T : \E i \in 1 .. N : f[i] = t
  BY <1>2, SeqOfSet
<1> HIDE DEF N, f
<1>6. f \in Seq(Write) /\ DOMAIN f = 1 .. N
  BY <1>4, <1>5
<1>7. \A i \in DOMAIN f : f[i][1] \in S /\ f[i][2] = status
  BY <1>1, <1>5, <1>6
<1>8. \A n \in S : \E i \in DOMAIN f : f[i] = <<n, status>>
  <2>1. \A n \in S : <<n, status>> \in T
    BY <1>1
  <2> QED  BY <1>5, <1>6, <2>1
<1> QED  BY <1>3, <1>6, <1>7, <1>8 DEF f

\* An upsert that is applied leaves the others in their order.
LEMMA RemoveAtIs ==
  ASSUME NEW w \in Seq(Write), NEW i \in 1 .. Len(w)
  PROVE  /\ RemoveAt(w, i) \in Seq(Write) /\ Len(RemoveAt(w, i)) = Len(w) - 1
         /\ \A k \in 1 .. Len(w) - 1 : RemoveAt(w, i)[k] = IF k < i THEN w[k] ELSE w[k + 1]
<1> DEFINE s == SubSeq(w, 1, i - 1)
           t == SubSeq(w, i + 1, Len(w))
<1>1. /\ s \in Seq(Write) /\ Len(s) = i - 1
      /\ \A k \in 1 .. i - 1 : s[k] = w[k]
  OBVIOUS
<1>2. /\ t \in Seq(Write) /\ Len(t) = Len(w) - i
      /\ \A k \in 1 .. Len(w) - i : t[k] = w[i + k]
  OBVIOUS
<1>3. RemoveAt(w, i) = s \o t
  BY DEF RemoveAt
<1> HIDE DEF s, t
<1>4. /\ s \o t \in Seq(Write) /\ Len(s \o t) = Len(w) - 1
      /\ \A k \in 1 .. Len(w) - 1 : (s \o t)[k] = IF k < i THEN s[k] ELSE t[k - (i - 1)]
  <2>1. /\ s \o t \in Seq(Write) /\ Len(s \o t) = Len(s) + Len(t)
        /\ \A k \in 1 .. Len(s) + Len(t) :
             (s \o t)[k] = IF k <= Len(s) THEN s[k] ELSE t[k - Len(s)]
    BY <1>1, <1>2, ConcatProperties
  <2>2. i \in Int /\ Len(w) \in Nat /\ Len(s) + Len(t) = Len(w) - 1
    BY <1>1, <1>2
  <2> QED  BY <1>1, <2>1, <2>2
<1>5. \A k \in 1 .. Len(w) - 1 : ~(k < i) => k - (i - 1) \in 1 .. Len(w) - i /\ i + (k - (i - 1)) = k + 1
  OBVIOUS
<1>6. ASSUME NEW k \in 1 .. Len(w) - 1
      PROVE  (s \o t)[k] = IF k < i THEN w[k] ELSE w[k + 1]
  BY <1>1, <1>2, <1>4, <1>5
<1> QED  BY <1>3, <1>4, <1>6

\* No upserts are in turn.
LEMMA NoneInTurn ==
  ASSUME NEW m
  PROVE  InTurn(m, <<>>) /\ <<>> \in Seq(Write) /\ DOMAIN <<>> = {}
BY DEF InTurn

\* The upserts left are in turn.
LEMMA StillInTurn ==
  ASSUME NEW m, NEW w \in Seq(Write), NEW i \in 1 .. Len(w), InTurn(m, w)
  PROVE  InTurn(m, RemoveAt(w, i))
<1> DEFINE v == RemoveAt(w, i)
<1>1. /\ v \in Seq(Write) /\ Len(v) = Len(w) - 1
      /\ \A k \in 1 .. Len(w) - 1 : v[k] = IF k < i THEN w[k] ELSE w[k + 1]
  BY RemoveAtIs
<1> HIDE DEF v
<1>2. ASSUME NEW k \in DOMAIN v
      PROVE  \E h \in DOMAIN w : h = (IF k < i THEN k ELSE k + 1) /\ v[k] = w[h]
  BY <1>1
<1>3. ASSUME NEW k \in DOMAIN v, NEW l \in DOMAIN v
      PROVE  /\ Said(m, v[k][1]) # "silent"
             /\ k <= l /\ v[k][1] = v[l][1] /\ v[k][2] # "running" => v[l][2] = Said(m, v[l][1])
  <2>1. PICK g \in DOMAIN w : g = (IF k < i THEN k ELSE k + 1) /\ v[k] = w[g]
    BY <1>2
  <2>2. PICK h \in DOMAIN w : h = (IF l < i THEN l ELSE l + 1) /\ v[l] = w[h]
    BY <1>2
  <2>3. k <= l => g <= h
    BY <1>1, <2>1, <2>2
  <2> QED  BY <2>1, <2>2, <2>3 DEF InTurn
<1> QED  BY <1>3 DEF InTurn, v

\* A run that learns of the nodes S, which it has not settled, and says so.
LEMMA Speaks ==
  ASSUME NEW m, NEW m2, NEW w \in Seq(Write), NEW u \in Seq(Write), NEW S \in SUBSET Node,
         InTurn(m, w),
         \A n \in S : Said(m, n) \in {"silent", "running"} /\ Said(m2, n) # "silent",
         \A n \in Node \ S : Said(m2, n) = Said(m, n),
         \A i \in DOMAIN u : u[i][1] \in S /\ u[i][2] = Said(m2, u[i][1])
  PROVE  w \o u \in Seq(Write) /\ InTurn(m2, w \o u)
<1> DEFINE v == w \o u
<1>1. /\ v \in Seq(Write) /\ Len(v) = Len(w) + Len(u)
      /\ \A k \in 1 .. Len(w) : v[k] = w[k]
      /\ \A k \in Len(w) + 1 .. Len(w) + Len(u) : v[k] = u[k - Len(w)] /\ k - Len(w) \in DOMAIN u
  OBVIOUS
<1> HIDE DEF v
<1>2. \A k \in DOMAIN v : v[k][1] \in Node
  BY <1>1 DEF Write
<1>3. \A k \in DOMAIN v : k \in 1 .. Len(w) \/ k \in Len(w) + 1 .. Len(w) + Len(u)
  BY <1>1
<1>4. ASSUME NEW k \in DOMAIN v, NEW l \in DOMAIN v
      PROVE  /\ Said(m2, v[k][1]) # "silent"
             /\ k <= l /\ v[k][1] = v[l][1] /\ v[k][2] # "running" => v[l][2] = Said(m2, v[l][1])
  <2>1. CASE k \in Len(w) + 1 .. Len(w) + Len(u)
    <3>1. v[k][1] \in S
      BY <1>1, <2>1
    <3>2. k <= l => v[l][2] = Said(m2, v[l][1])
      <4>1. k <= l => l \in Len(w) + 1 .. Len(w) + Len(u)
        BY <1>1, <2>1
      <4> QED  BY <1>1, <4>1
    <3> QED  BY <3>1, <3>2
  <2>2. CASE k \in 1 .. Len(w)
    <3>1. k \in DOMAIN w /\ v[k] = w[k] /\ Said(m, w[k][1]) # "silent"
      BY <1>1, <2>2 DEF InTurn
    <3>2. w[k][2] # "running" => w[k][2] = Said(m, w[k][1])
      BY <3>1 DEF InTurn
    <3>3. CASE v[k][1] \in S
      BY <3>1, <3>2, <3>3
    <3>4. CASE v[k][1] \notin S
      <4>1. Said(m2, v[k][1]) = Said(m, v[k][1])
        BY <1>2, <3>4
      <4>2. CASE l \in 1 .. Len(w)
        BY <1>1, <3>1, <4>1, <4>2 DEF InTurn
      <4>3. CASE l \in Len(w) + 1 .. Len(w) + Len(u)
        BY <1>1, <3>1, <3>4, <4>1, <4>3
      <4> QED  BY <1>3, <4>2, <4>3
    <3> QED  BY <3>3, <3>4
  <2> QED  BY <1>3, <2>1, <2>2
<1> QED  BY <1>1, <1>4 DEF InTurn, v

-----------------------------------------------------------------------------
(***************************************************************************)
(* Steps of one job.                                                       *)
(***************************************************************************)

\* The first part of the invariant in the next state.
LEMMA NextJobInv ==
  ASSUME job'[FirstJob].state # "free",
         \A j \in Job : JobFits(job'[j].state, run'[j], writes'[j])
  PROVE  JobInv'
BY DEF JobInv, JobFits, InTurn, Said

\* Its second part in the next state.
LEMMA NextSuccessInv ==
  ASSUME Quiet' => \A n \in Node : row'[n] = "success" =>
                      \A j \in Job : Known(n, run'[j], writes'[j])
  PROVE  SuccessInv'
BY DEF SuccessInv, Known

\* A step of one job, which keeps what the job knows.
LEMMA JobMoves ==
  ASSUME IInv, NEW j \in Job, NEW s \in JobState, NEW m \in Memory, NEW w \in Seq(Write),
         job' = [job EXCEPT ![j] = s], run' = [run EXCEPT ![j] = m],
         writes' = [writes EXCEPT ![j] = w], s.state = "free" <=> job[j].state = "free",
         JobFits(s.state, m, w),
         \A n \in Node : row[n] = "success" /\ Known(n, run[j], writes[j]) => Known(n, m, w),
         exec' \in {"queued", "running", "deleted"} \cup Finals, UNCHANGED <<row, req, boot, crashes>>
  PROVE  IInv'
<1>1. Types /\ JobInv
  BY DEF IInv
<1>2. Types'
  BY <1>1 DEF Types
<1>3. /\ job'[j] = s /\ run'[j] = m /\ writes'[j] = w
      /\ \A k \in Job \ {j} : job'[k] = job[k] /\ run'[k] = run[k] /\ writes'[k] = writes[k]
  BY <1>1 DEF Types
<1>4. \A k \in Job : job'[k].state = "free" <=> job[k].state = "free"
  BY <1>3
<1>5. JobInv'
  <2>1. \A k \in Job : JobFits(job'[k].state, run'[k], writes'[k])
    BY <1>1, <1>3 DEF JobInv
  <2>2. job'[FirstJob].state # "free"
    BY <1>1, <1>4, LifecycleAssumption DEF JobInv
  <2> QED  BY <2>1, <2>2, NextJobInv
<1>6. InOrder => SuccessInv'
  <2> SUFFICES ASSUME InOrder, Quiet'
               PROVE  \A n \in Node : row'[n] = "success" =>
                         \A k \in Job : Known(n, run'[k], writes'[k])
    BY NextSuccessInv
  <2>1. Quiet
    BY <1>4 DEF Quiet
  <2>2. \A n \in Node : row[n] = "success" => \A k \in Job : Known(n, run[k], writes[k])
    BY <2>1 DEF IInv, SuccessInv
  <2> QED  BY <1>3, <2>2
<1> QED  BY <1>2, <1>5, <1>6 DEF IInv

\* A step of the job's program counter, outside of executeDag's own.
LEMMA PcIs ==
  ASSUME NEW m \in Memory, NEW pc \in Places, NEW x, x = [m EXCEPT !.pc = pc]
  PROVE  /\ x \in Memory /\ x.pc = pc /\ x.worker = m.worker /\ x.loaded = m.loaded
         /\ x.results = m.results /\ x.active = m.active /\ x.aborted = m.aborted
         /\ x.dag = m.dag /\ x.overall = m.overall
BY DEF Memory

\* What was said does not depend on the program counter.
LEMMA SameSaid ==
  ASSUME NEW m, NEW x, NEW w, x.results = m.results, x.active = m.active, x.dag = m.dag
  PROVE  /\ \A n : Said(x, n) = Said(m, n)
         /\ InTurn(m, w) => InTurn(x, w)
BY DEF Said, InTurn

\* A job that is being worked on goes on to pc, with the row it was.
LEMMA GoesTo ==
  ASSUME IInv, NEW j \in Job,
         NEW pc \in {"start", "final", "rescue", "thrown", "returned", "done"},
         NEW s \in JobState,
         run' = [run EXCEPT ![j].pc = pc], job' = [job EXCEPT ![j] = s],
         s.state = "free" <=> job[j].state = "free", s.state \notin {"free", "queued"},
         pc = "start" => run[j].pc = "mark", pc = "final" => run[j].dag = "ended",
         exec' \in {"queued", "running", "deleted"} \cup Finals,
         UNCHANGED <<row, writes, req, boot, crashes>>
  PROVE  IInv'
<1> DEFINE m == run[j]
           x == [m EXCEPT !.pc = pc]
<1>1. Types /\ JobInv
  BY DEF IInv
<1>2. m \in Memory /\ writes[j] \in Seq(Write) /\ JobFits(job[j].state, m, writes[j])
  BY <1>1 DEF Types, JobInv
<1>3. /\ x \in Memory /\ x.pc = pc /\ x.loaded = m.loaded /\ x.overall = m.overall
      /\ x.results = m.results /\ x.active = m.active /\ x.dag = m.dag
  <2>1. pc \in Places
    BY DEF Places
  <2>2. x = [m EXCEPT !.pc = pc]
    OBVIOUS
  <2> HIDE DEF x
  <2> QED  BY <1>2, <2>1, <2>2, PcIs
<1>4. run' = [run EXCEPT ![j] = x] /\ writes' = [writes EXCEPT ![j] = writes[j]]
  BY <1>1 DEF Types
<1> HIDE DEF x
<1>5. InTurn(x, writes[j])
  BY <1>2, <1>3, SameSaid DEF JobFits
<1>6. JobFits(s.state, x, writes[j])
  BY <1>2, <1>3, <1>5 DEF JobFits
<1>7. \A n \in Node : Known(n, m, writes[j]) => Known(n, x, writes[j])
  BY <1>3 DEF Known
<1> QED  BY <1>3, <1>2, <1>4, <1>6, <1>7, JobMoves

\* Where a job stands while it is worked on.
LEMMA Standing ==
  ASSUME IInv, NEW j \in Job
  PROVE  /\ run[j] \in Memory /\ writes[j] \in Seq(Write) /\ job[j] \in JobState
         /\ JobFits(job[j].state, run[j], writes[j])
         /\ run[j].pc \notin {"idle", "dead"} => job[j].state \notin {"free", "queued"}
         /\ run' = run => run' = [run EXCEPT ![j] = run[j]]
         /\ job' = job => job' = [job EXCEPT ![j] = job[j]]
         /\ writes' = writes => writes' = [writes EXCEPT ![j] = writes[j]]
BY DEF IInv, Types, JobInv, JobFits

\* The executions row, once written.
LEMMA ExecIs ==
  ASSUME IInv, NEW status \in {"queued", "running"} \cup Finals, SetExec(status)
  PROVE  exec' \in {"queued", "running", "deleted"} \cup Finals
BY DEF IInv, Types, SetExec

\* A job that is handed to a worker remembers nothing.
LEMMA ClaimKeeps ==
  ASSUME IInv, NEW j \in Job, NEW w \in Worker, Claim(j, w)
  PROVE  IInv'
<1> DEFINE x == [Idle EXCEPT !.pc = "load", !.worker = w]
<1>1. /\ job[j].state = "queued" /\ job' = [job EXCEPT ![j].state = "active"]
      /\ run' = [run EXCEPT ![j] = x]
      /\ UNCHANGED <<exec, row, writes, req, boot, crashes>>
  BY DEF Claim
<1>2. /\ x \in Memory /\ x.pc = "load" /\ x.dag = "off" /\ x.active = {}
  BY Words DEF Idle, Memory, Places, Statuses
<1>3. /\ job[j] \in JobState /\ writes[j] = <<>>
      /\ writes' = [writes EXCEPT ![j] = writes[j]] /\ writes[j] \in Seq(Write)
  BY <1>1, Standing DEF JobFits
<1> DEFINE s == [job[j] EXCEPT !.state = "active"]
<1>4. s \in JobState /\ s.state = "active" /\ job' = [job EXCEPT ![j] = s]
  BY <1>1, <1>3 DEF JobState
<1> HIDE DEF x, s
<1>5. InTurn(x, writes[j]) /\ \A n \in Node : Known(n, x, writes[j])
  BY <1>2, <1>3, NoneInTurn DEF Known
<1>6. JobFits(s.state, x, writes[j])
  BY <1>2, <1>3, <1>4, <1>5 DEF JobFits
<1>7. exec' \in {"queued", "running", "deleted"} \cup Finals
  BY <1>1 DEF IInv, Types
<1>8. s.state = "free" <=> job[j].state = "free"
  BY <1>1, <1>4
<1> QED  BY <1>1, <1>2, <1>3, <1>4, <1>5, <1>6, <1>7, <1>8, JobMoves

\* The rows are loaded.
LEMMA LoadRowsKeeps ==
  ASSUME IInv, NEW j \in Job, LoadRows(j)
  PROVE  IInv'
<1> DEFINE m == run[j]
           x == [m EXCEPT !.pc = "mark", !.loaded = row]
<1>1. /\ m.pc = "load" /\ run' = [run EXCEPT ![j] = x]
      /\ UNCHANGED <<exec, row, job, writes, req, boot, crashes>>
  BY DEF LoadRows, At
<1>2. /\ m \in Memory /\ writes[j] \in Seq(Write) /\ job[j] \in JobState
      /\ JobFits(job[j].state, m, writes[j])
      /\ job' = [job EXCEPT ![j] = job[j]] /\ writes' = [writes EXCEPT ![j] = writes[j]]
  BY <1>1, Standing
<1>3. /\ x \in Memory /\ x.pc = "mark" /\ x.loaded = row
      /\ x.results = m.results /\ x.active = m.active /\ x.dag = m.dag
  <2>1. row \in [Node -> Statuses] /\ "mark" \in Places
    BY DEF IInv, Types, Places
  <2> QED  BY <1>2, <2>1 DEF Memory
<1> HIDE DEF x
<1>4. writes[j] = <<>> /\ InTurn(x, writes[j])
  BY <1>1, <1>2, <1>3, SameSaid DEF JobFits
<1>5. JobFits(job[j].state, x, writes[j])
  BY <1>1, <1>2, <1>3, <1>4 DEF JobFits
<1>6. \A n \in Node : row[n] = "success" => Known(n, x, writes[j])
  BY <1>1, <1>2, <1>3, <1>4 DEF Known, JobFits
<1>7. exec' \in {"queued", "running", "deleted"} \cup Finals
  BY <1>1 DEF IInv, Types
<1> QED  BY <1>1, <1>2, <1>3, <1>5, <1>6, <1>7, JobMoves

\* Settled rows become results.
LEMMA StartDagKeeps ==
  ASSUME IInv, NEW j \in Job, StartDag(j)
  PROVE  IInv'
<1> DEFINE m == run[j]
           results == [n \in Node |-> IF m.loaded[n] \in Settled THEN m.loaded[n] ELSE "none"]
           x == [m EXCEPT !.pc = "dag", !.dag = "on", !.results = results]
<1>1. /\ m.pc = "start" /\ run' = [run EXCEPT ![j] = x]
      /\ UNCHANGED <<exec, row, job, writes, req, boot, crashes>>
  BY DEF StartDag, At, Hydrated
<1>2. /\ m \in Memory /\ writes[j] \in Seq(Write) /\ job[j] \in JobState
      /\ JobFits(job[j].state, m, writes[j])
      /\ job' = [job EXCEPT ![j] = job[j]] /\ writes' = [writes EXCEPT ![j] = writes[j]]
  <2>1. job' = job /\ writes' = writes
    BY <1>1
  <2> HIDE DEF x, results
  <2> QED  BY <2>1, Standing
<1>3. results \in [Node -> {"none"} \cup Settled]
      /\ \A n \in Node : m.loaded[n] = "success" => results[n] = "success"
  BY DEF Settled, Terminal
<1> HIDE DEF results
<1>4. /\ x \in Memory /\ x.pc = "dag" /\ x.results = results /\ x.active = m.active /\ x.dag = "on"
  <2>1. "dag" \in Places
    BY DEF Places
  <2> QED  BY <1>2, <1>3, <2>1 DEF Memory
<1> HIDE DEF x
<1>5. writes[j] = <<>> /\ m.active = {} /\ InTurn(x, writes[j])
  BY <1>1, <1>2, NoneInTurn DEF JobFits
<1>6. JobFits(job[j].state, x, writes[j])
  BY <1>1, <1>2, <1>4, <1>5 DEF JobFits
<1>7. \A n \in Node : Known(n, m, writes[j]) => Known(n, x, writes[j])
  BY <1>1, <1>3, <1>4 DEF Known
<1>8. exec' \in {"queued", "running", "deleted"} \cup Finals
  BY <1>1 DEF IInv, Types
<1> QED  BY <1>1, <1>2, <1>4, <1>6, <1>7, <1>8, JobMoves

\* The steps around executeDag.
LEMMA BodyKeeps ==
  ASSUME IInv, NEW j \in Job,
         \/ MarkRunning(j) \/ BodyThrows(j) \/ Drain(j) \/ FinalUpdate(j) \/ TimeOut(j) \/ Rescue(j)
         \/ OuterRescue(j) \/ Complete(j)
  PROVE  IInv'
<1>1. exec \in {"queued", "running", "deleted"} \cup Finals
  BY DEF IInv, Types
<1>2. job[j] \in JobState /\ (run[j].pc \notin {"idle", "dead"} => job[j].state \notin {"free", "queued"})
  BY Standing
<1>3. job' = job => job' = [job EXCEPT ![j] = job[j]]
  BY Standing
<1>4. CASE MarkRunning(j)
  <2>1. exec' \in {"queued", "running", "deleted"} \cup Finals
    BY <1>4, ExecIs DEF MarkRunning
  <2>2. run' = [run EXCEPT ![j].pc = "start"] /\ run[j].pc = "mark"
        /\ UNCHANGED <<row, job, writes, req, boot, crashes>>
    BY <1>4 DEF MarkRunning, Goto, At
  <2> QED  BY <1>2, <1>3, <2>1, <2>2, GoesTo
<1>5. CASE BodyThrows(j)
  <2>1. run' = [run EXCEPT ![j].pc = "thrown"] /\ run[j].pc = "start"
        /\ UNCHANGED <<exec, row, job, writes, req, boot, crashes>>
    BY <1>5 DEF BodyThrows, Goto, At
  <2> QED  BY <1>1, <1>2, <1>3, <2>1, GoesTo
<1>6. CASE Drain(j)
  <2>1. run' = [run EXCEPT ![j].pc = "final"] /\ run[j].pc = "dag" /\ run[j].dag = "ended"
        /\ UNCHANGED <<exec, row, job, writes, req, boot, crashes>>
    BY <1>6 DEF Drain, Drained, Goto, At
  <2> QED  BY <1>1, <1>2, <1>3, <2>1, GoesTo
<1>7. CASE TimeOut(j)
  <2>1. run' = [run EXCEPT ![j].pc = "rescue"] /\ run[j].pc = "dag"
        /\ UNCHANGED <<exec, row, job, writes, req, boot, crashes>>
    BY <1>7 DEF TimeOut, Goto, At
  <2> QED  BY <1>1, <1>2, <1>3, <2>1, GoesTo
<1>8. CASE FinalUpdate(j)
  <2>1. run[j].overall \in Finals
    BY <1>8, Standing DEF FinalUpdate, At, JobFits
  <2>2. exec' \in {"queued", "running", "deleted"} \cup Finals
    BY <1>8, <2>1, ExecIs DEF FinalUpdate
  <2>3. run' = [run EXCEPT ![j].pc = "returned"] /\ run[j].pc = "final"
        /\ UNCHANGED <<row, job, writes, req, boot, crashes>>
    BY <1>8 DEF FinalUpdate, Goto, At
  <2> QED  BY <1>2, <1>3, <2>2, <2>3, GoesTo
<1>9. CASE Rescue(j)
  <2>1. exec' \in {"queued", "running", "deleted"} \cup Finals
    BY <1>9, ExecIs DEF Rescue, Finals
  <2>2. run' = [run EXCEPT ![j].pc = "thrown"] /\ run[j].pc = "rescue"
        /\ UNCHANGED <<row, job, writes, req, boot, crashes>>
    BY <1>9 DEF Rescue, Goto, At
  <2> QED  BY <1>2, <1>3, <2>1, <2>2, GoesTo
<1>10. CASE OuterRescue(j)
  <2>1. exec' \in {"queued", "running", "deleted"} \cup Finals
    BY <1>1, <1>10, ExecIs DEF OuterRescue, Finals
  <2>2. run' = [run EXCEPT ![j].pc = "returned"] /\ run[j].pc = "thrown"
        /\ UNCHANGED <<row, job, writes, req, boot, crashes>>
    BY <1>10 DEF OuterRescue, Goto, At
  <2> QED  BY <1>2, <1>3, <2>1, <2>2, GoesTo
<1>11. CASE Complete(j)
  <2> DEFINE s == [job[j] EXCEPT !.state = "gone"]
  <2>1. s \in JobState /\ s.state = "gone"
    BY <1>2 DEF JobState
  <2>2. /\ job' = [job EXCEPT ![j] = s] /\ run' = [run EXCEPT ![j].pc = "done"] /\ run[j].pc = "returned"
        /\ UNCHANGED <<exec, row, writes, req, boot, crashes>>
    BY <1>11 DEF Complete, Goto, At
  <2> HIDE DEF s
  <2> QED  BY <1>1, <1>2, <2>1, <2>2, GoesTo
<1> QED  BY <1>4, <1>5, <1>6, <1>7, <1>8, <1>9, <1>10, <1>11

-----------------------------------------------------------------------------
(***************************************************************************)
(* Steps of a run.                                                         *)
(***************************************************************************)

\* A run with memory m that learns of the nodes S, which it has not settled, and
\* says so by the upserts u.
Learns(m, x, S, u) ==
  /\ x \in Memory /\ u \in Seq(Write) /\ S \in SUBSET Node
  /\ m.dag = "on" /\ x.dag # "off" /\ x.pc = m.pc /\ x.loaded = m.loaded
  /\ x.active \subseteq {n \in Node : x.results[n] = "none"}
  /\ x.dag = "ended" => x.active = {} /\ x.overall \in Finals
  /\ \A n \in S : Said(m, n) \in {"silent", "running"} /\ Said(x, n) # "silent"
  /\ \A n \in Node \ S : Said(x, n) = Said(m, n)
  /\ \A i \in DOMAIN u : u[i][1] \in S /\ u[i][2] = Said(x, u[i][1])
  /\ \A n \in S : \E i \in DOMAIN u : u[i] = <<n, Said(x, n)>>

\* What such a step of job j makes of the run and of its upserts.
Speaking(j, x, S, u) ==
  /\ Learns(run[j], x, S, u)
  /\ run' = [run EXCEPT ![j] = x] /\ writes' = [writes EXCEPT ![j] = writes[j] \o u]
  /\ UNCHANGED <<exec, row, job, req, boot, crashes>>

\* Such a run keeps the invariant.
LEMMA DagMoves ==
  ASSUME IInv, NEW j \in Job, NEW x, NEW u, NEW S, Speaking(j, x, S, u)
  PROVE  IInv'
<1> DEFINE m == run[j]
           w == writes[j]
<1> USE DEF Learns, Speaking
<1>1. /\ m \in Memory /\ w \in Seq(Write) /\ job[j] \in JobState /\ JobFits(job[j].state, m, w)
      /\ job' = [job EXCEPT ![j] = job[j]]
  BY Standing
<1>2. w \o u \in Seq(Write) /\ InTurn(x, w \o u)
  <2>1. InTurn(m, w)
    BY <1>1 DEF JobFits
  <2> HIDE DEF w, m
  <2> QED  BY <1>1, <2>1, Speaks DEF m
<1>3. x.pc \notin {"idle", "dead", "load", "mark", "start", "final"} /\ job[j].state \notin {"free", "queued"}
  BY <1>1 DEF JobFits
<1>4. JobFits(job[j].state, x, w \o u)
  BY <1>2, <1>3 DEF JobFits
<1>5. ASSUME NEW n \in Node, Known(n, m, w)
      PROVE  Known(n, x, w \o u)
  <2>1. Said(m, n) = "success"
    BY <1>5 DEF Known, Said
  <2>2. n \notin S /\ Said(x, n) = "success"
    BY <2>1
  <2>3. x.results[n] = "success"
    BY <2>2 DEF Said
  <2>4. \A i \in DOMAIN (w \o u) :
          ((w \o u)[i] = w[i] /\ i \in DOMAIN w) \/ (\E k \in DOMAIN u : (w \o u)[i] = u[k])
    <3> HIDE DEF w
    <3>1. /\ Len(w \o u) = Len(w) + Len(u) /\ w \o u \in Seq(Write)
          /\ \A i \in 1 .. Len(w) + Len(u) : (w \o u)[i] = IF i <= Len(w) THEN w[i] ELSE u[i - Len(w)]
      BY <1>1, ConcatProperties
    <3> QED  BY <1>1, <3>1
  <2>5. \A i \in DOMAIN (w \o u) : (w \o u)[i][1] = n => (w \o u)[i][2] = "success"
    BY <1>5, <2>2, <2>4 DEF Known
  <2> QED  BY <1>3, <2>3, <2>5 DEF Known
<1>6. exec' \in {"queued", "running", "deleted"} \cup Finals
  BY DEF IInv, Types
<1>7. UNCHANGED <<row, req, boot, crashes>>
  OBVIOUS
<1> HIDE DEF m, w
<1> QED  BY <1>1, <1>2, <1>4, <1>5, <1>6, <1>7, JobMoves DEF m, w

\* What taking a layer makes of a run, for the nodes it skips.
Layered(j, skipped) ==
  [run[j] EXCEPT !.active = Ready(j) \ skipped,
                 !.results = [n \in Node |-> IF n \in skipped THEN "skipped" ELSE run[j].results[n]]]

\* What a layer says of its nodes.
LEMMA LayerIs ==
  ASSUME IInv, NEW j \in Job, run[j].dag = "on", run[j].active = {}, NEW skipped \in SUBSET Ready(j)
  PROVE  LET x == Layered(j, skipped)
             u == Upserts(skipped, "skipped") \o Upserts(Ready(j) \ skipped, "running")
         IN Learns(run[j], x, Ready(j), u) /\ x.dag = "on"
<1> DEFINE m == run[j]
           started == Ready(j) \ skipped
           results == [n \in Node |-> IF n \in skipped THEN "skipped" ELSE m.results[n]]
           x == [m EXCEPT !.active = started, !.results = results]
           A == Upserts(skipped, "skipped")
           B == Upserts(started, "running")
<1>1. m \in Memory
  BY Standing
<1>2. Ready(j) \subseteq {n \in Node : m.results[n] = "none"}
  BY DEF Ready
<1>3. results \in [Node -> {"none"} \cup Settled] /\ started \in SUBSET Node
  <2>1. "skipped" \in Settled /\ m.results \in [Node -> {"none"} \cup Settled]
    BY <1>1 DEF Memory, Settled, Terminal
  <2> QED  BY <1>2, <2>1
<1>4. /\ \A n \in skipped : results[n] = "skipped"
      /\ \A n \in Node \ skipped : results[n] = m.results[n]
  BY <1>2
<1> HIDE DEF results
<1>5. /\ x \in Memory /\ x.pc = m.pc /\ x.loaded = m.loaded /\ x.dag = "on" /\ x.active = started
      /\ x.results = results /\ x.aborted = m.aborted
  <2> HIDE DEF started
  <2> QED  BY <1>1, <1>3 DEF Memory
<1>6. x = Layered(j, skipped)
  BY DEF Layered, results
<1> HIDE DEF x
<1>7. \A n \in Ready(j) : Said(m, n) = "silent"
  BY <1>2 DEF Said
<1>8. /\ \A n \in skipped : Said(x, n) = "skipped"
      /\ \A n \in started : Said(x, n) = "running"
  BY <1>2, <1>4, <1>5 DEF Said
<1>9. \A n \in Node \ Ready(j) : Said(x, n) = Said(m, n)
  BY <1>4, <1>5 DEF Said
<1>10. /\ A \in Seq(Write) /\ \A i \in DOMAIN A : A[i][1] \in skipped /\ A[i][2] = "skipped"
       /\ \A n \in skipped : \E i \in DOMAIN A : A[i] = <<n, "skipped">>
  <2>1. skipped \in SUBSET Node
    BY <1>2
  <2>2. "skipped" \in Statuses \ {"none"}
    BY Words
  <2>3. PICK status : status = "skipped"
    OBVIOUS
  <2>4. A = Upserts(skipped, status)
    BY <2>3
  <2> HIDE DEF A
  <2> QED  BY <2>1, <2>2, <2>3, <2>4, UpsertsAre
<1>11. /\ B \in Seq(Write) /\ \A i \in DOMAIN B : B[i][1] \in started /\ B[i][2] = "running"
       /\ \A n \in started : \E i \in DOMAIN B : B[i] = <<n, "running">>
  <2>1. "running" \in Statuses \ {"none"}
    BY Words
  <2> QED  BY <1>3, <2>1, UpsertsAre
<1> HIDE DEF A, B
<1>12. /\ A \o B \in Seq(Write) /\ Len(A \o B) = Len(A) + Len(B)
       /\ \A i \in 1 .. Len(A) + Len(B) : (A \o B)[i] = IF i <= Len(A) THEN A[i] ELSE B[i - Len(A)]
  BY <1>10, <1>11, ConcatProperties
<1>13. /\ Len(A) \in Nat /\ Len(B) \in Nat /\ DOMAIN A = 1 .. Len(A) /\ DOMAIN B = 1 .. Len(B)
       /\ DOMAIN (A \o B) = 1 .. Len(A) + Len(B)
  BY <1>10, <1>11, <1>12
<1>14. /\ \A i \in DOMAIN A : i \in DOMAIN (A \o B) /\ (A \o B)[i] = A[i]
       /\ \A i \in DOMAIN B : i + Len(A) \in DOMAIN (A \o B) /\ (A \o B)[i + Len(A)] = B[i]
       /\ \A i \in DOMAIN (A \o B) :
            (\E k \in DOMAIN A : (A \o B)[i] = A[k]) \/ (\E k \in DOMAIN B : (A \o B)[i] = B[k])
  <2>1. \A i \in DOMAIN A : i \in DOMAIN (A \o B) /\ (A \o B)[i] = A[i]
    BY <1>12, <1>13
  <2>2. ASSUME NEW i \in DOMAIN B
        PROVE  i + Len(A) \in DOMAIN (A \o B) /\ (A \o B)[i + Len(A)] = B[i]
    <3>1. i + Len(A) \in 1 .. Len(A) + Len(B) /\ ~(i + Len(A) <= Len(A)) /\ (i + Len(A)) - Len(A) = i
      BY <1>13
    <3> QED  BY <1>12, <1>13, <3>1
  <2>3. ASSUME NEW i \in DOMAIN (A \o B)
        PROVE  (\E k \in DOMAIN A : (A \o B)[i] = A[k]) \/ (\E k \in DOMAIN B : (A \o B)[i] = B[k])
    <3>1. i <= Len(A) => i \in DOMAIN A
      BY <1>13
    <3>2. ~(i <= Len(A)) => i - Len(A) \in DOMAIN B
      BY <1>13
    <3> QED  BY <1>12, <1>13, <3>1, <3>2
  <2> QED  BY <2>1, <2>2, <2>3
<1>15. \A n \in Ready(j) : n \in skipped \/ n \in started
  OBVIOUS
<1>16. \A i \in DOMAIN (A \o B) : (A \o B)[i][1] \in Ready(j) /\ (A \o B)[i][2] = Said(x, (A \o B)[i][1])
  BY <1>8, <1>10, <1>11, <1>14
<1>17. ASSUME NEW n \in Ready(j)
       PROVE  \E i \in DOMAIN (A \o B) : (A \o B)[i] = <<n, Said(x, n)>>
  <2>1. CASE n \in skipped
    BY <1>8, <1>10, <1>14, <2>1
  <2>2. CASE n \in started
    <3>1. PICK i \in DOMAIN B : B[i] = <<n, "running">>
      BY <1>11, <2>2
    <3> QED  BY <1>8, <1>14, <2>2, <3>1
  <2> QED  BY <1>15, <2>1, <2>2
<1>18. /\ \A n \in Ready(j) : Said(x, n) # "silent"
       /\ x.active \subseteq {n \in Node : x.results[n] = "none"}
       /\ Ready(j) \in SUBSET Node
  BY <1>2, <1>4, <1>5, <1>8, <1>15
<1> HIDE DEF m, started
<1> QED  BY <1>5, <1>6, <1>7, <1>9, <1>12, <1>16, <1>17, <1>18 DEF A, B, m, started, Learns

\* The next layer.
LEMMA TakeLayerSpeaks ==
  ASSUME IInv, NEW j \in Job, TakeLayer(j)
  PROVE  \E x, S, u : Speaking(j, x, S, u)
<1>1. run[j].dag = "on" /\ run[j].active = {} /\ UNCHANGED <<exec, row, job, req, boot, crashes>>
  BY DEF TakeLayer
<1>2. PICK skipped \in SUBSET Ready(j) :
        /\ run' = [run EXCEPT ![j] = Layered(j, skipped)]
        /\ writes' = [writes EXCEPT ![j] =
             (writes[j] \o Upserts(skipped, "skipped")) \o Upserts(Ready(j) \ skipped, "running")]
  <2>1. PICK closed \in SUBSET (Ready(j) \cap Gated) :
          LET skipped == closed \cup
                         {n \in Ready(j) : \E p \in Parents(n) : run[j].results[p] = "skipped"}
              started == Ready(j) \ skipped
          IN /\ run' = [run EXCEPT ![j].active = started,
                          ![j].results = [n \in Node |-> IF n \in skipped THEN "skipped" ELSE @[n]]]
             /\ writes' = [writes EXCEPT ![j] =
                             @ \o Upserts(skipped, "skipped") \o Upserts(started, "running")]
    BY DEF TakeLayer
  <2>2. PICK skipped : skipped = closed \cup
                         {n \in Ready(j) : \E p \in Parents(n) : run[j].results[p] = "skipped"}
    OBVIOUS
  <2>3. skipped \in SUBSET Ready(j)
    BY <2>2
  <2>4. run' = [run EXCEPT ![j].active = Ready(j) \ skipped,
                  ![j].results = [n \in Node |-> IF n \in skipped THEN "skipped" ELSE run[j].results[n]]]
    BY <2>1, <2>2
  <2>5. run' = [run EXCEPT ![j] = Layered(j, skipped)]
    BY <2>4 DEF Layered
  <2>6. writes' = [writes EXCEPT ![j] =
             (writes[j] \o Upserts(skipped, "skipped")) \o Upserts(Ready(j) \ skipped, "running")]
    BY <2>1, <2>2
  <2> QED  BY <2>3, <2>5, <2>6
<1> DEFINE x == Layered(j, skipped)
           A == Upserts(skipped, "skipped")
           B == Upserts(Ready(j) \ skipped, "running")
           u == A \o B
<1>3. Learns(run[j], x, Ready(j), u)
  BY <1>1, LayerIs
<1>4. A \in Seq(Write) /\ B \in Seq(Write) /\ writes[j] \in Seq(Write)
  <2>1. skipped \in SUBSET Node /\ Ready(j) \ skipped \in SUBSET Node
    BY DEF Ready
  <2>2. "skipped" \in Statuses \ {"none"} /\ "running" \in Statuses \ {"none"}
    BY Words
  <2> QED  BY <2>1, <2>2, UpsertsAre, Standing
<1> HIDE DEF x, A, B
<1>5. writes' = [writes EXCEPT ![j] = writes[j] \o u]
  <2>1. \A w \in Seq(Write) : (w \o A) \o B = w \o (A \o B)
    BY <1>4, ConcatAssociative
  <2> QED  BY <1>2, <1>4, <2>1 DEF A, B
<1>6. run' = [run EXCEPT ![j] = x]
  BY <1>2 DEF x
<1> HIDE DEF u
<1> QED  BY <1>1, <1>3, <1>5, <1>6 DEF Speaking

\* The outcome of a node.
LEMMA SettleNodeSpeaks ==
  ASSUME IInv, NEW j \in Job, NEW n \in Node, SettleNode(j, n)
  PROVE  \E x, S, u : Speaking(j, x, S, u)
<1> DEFINE m == run[j]
<1>1. /\ m.dag = "on" /\ n \in m.active
      /\ UNCHANGED <<exec, row, job, req, boot, crashes>>
  BY DEF SettleNode
<1>2. PICK status \in Outcomes(n) :
        /\ run' = [run EXCEPT ![j].active = @ \ {n}, ![j].results[n] = status,
                     ![j].aborted = @ \/ (status = "failed" /\ n \in Terminates)]
        /\ writes' = [writes EXCEPT ![j] = Append(@, <<n, status>>)]
  BY DEF SettleNode
<1>3. status \in Settled /\ status \in Statuses \ {"none"}
  BY DEF Outcomes, Settled, Terminal, Statuses
<1>4. m \in Memory /\ writes[j] \in Seq(Write) /\ JobFits(job[j].state, m, writes[j])
  BY Standing
<1>5. PICK aborted \in BOOLEAN : aborted = (m.aborted \/ (status = "failed" /\ n \in Terminates))
  BY <1>4 DEF Memory
<1> DEFINE x == [m EXCEPT !.active = m.active \ {n}, !.results = [m.results EXCEPT ![n] = status],
                          !.aborted = aborted]
<1>6. run' = [run EXCEPT ![j] = x]
  BY <1>2, <1>5
<1>7. /\ x \in Memory /\ x.pc = m.pc /\ x.loaded = m.loaded /\ x.dag = "on"
      /\ x.active = m.active \ {n} /\ x.results = [m.results EXCEPT ![n] = status]
  <2>1. m.active \ {n} \in SUBSET Node /\ [m.results EXCEPT ![n] = status] \in [Node -> {"none"} \cup Settled]
    BY <1>3, <1>4 DEF Memory
  <2> QED  BY <1>1, <1>4, <2>1 DEF Memory
<1> HIDE DEF x
<1>8. m.active \subseteq {k \in Node : m.results[k] = "none"} /\ m.results \in [Node -> {"none"} \cup Settled]
  BY <1>4 DEF JobFits, Memory
<1>9. /\ Said(m, n) = "running" /\ Said(x, n) = status /\ status # "silent"
      /\ \A k \in Node \ {n} : Said(x, k) = Said(m, k)
      /\ x.active \subseteq {k \in Node : x.results[k] = "none"}
  BY <1>1, <1>3, <1>7, <1>8, Words DEF Said
<1> DEFINE u == <<<<n, status>>>>
<1>10. u \in Seq(Write) /\ \A i \in DOMAIN u : u[i][1] \in {n} /\ u[i][2] = Said(x, u[i][1])
  BY <1>3, <1>9 DEF Write
<1>11. writes' = [writes EXCEPT ![j] = writes[j] \o u]
  <2>1. <<n, status>> \in Write
    BY <1>3 DEF Write
  <2>2. Append(writes[j], <<n, status>>) = writes[j] \o u
    BY <1>4, <2>1, AppendIsConcat
  <2> QED  BY <1>2, <2>2
<1>12. \A k \in {n} : \E i \in DOMAIN u : u[i] = <<k, Said(x, k)>>
  BY <1>9
<1> HIDE DEF u, m
<1>13. Learns(m, x, {n}, u)
  BY <1>1, <1>7, <1>9, <1>10, <1>12 DEF Learns
<1> QED  BY <1>1, <1>6, <1>11, <1>13 DEF m, Speaking

\* The verdict of executeDag.
LEMMA EndDagSpeaks ==
  ASSUME IInv, NEW j \in Job, EndDag(j)
  PROVE  \E x, S, u : Speaking(j, x, S, u)
<1> DEFINE m == run[j]
           S == {n \in Node : m.results[n] = "none"}
           u == Upserts(S, "pending")
<1>1. /\ m.dag = "on" /\ m.active = {}
      /\ run' = [run EXCEPT ![j].dag = "ended", ![j].overall = Aggregate(j)]
      /\ writes' = [writes EXCEPT ![j] = writes[j] \o u]
      /\ UNCHANGED <<exec, row, job, req, boot, crashes>>
  BY DEF EndDag
<1>2. m \in Memory
  BY Standing
<1>3. PICK overall \in Finals : overall = Aggregate(j)
  BY DEF Aggregate, Finals
<1> DEFINE x == [m EXCEPT !.dag = "ended", !.overall = overall]
<1>4. run' = [run EXCEPT ![j] = x]
  BY <1>1, <1>3
<1>5. /\ x \in Memory /\ x.pc = m.pc /\ x.loaded = m.loaded /\ x.dag = "ended"
      /\ x.active = {} /\ x.results = m.results /\ x.overall = overall
  BY <1>1, <1>2, <1>3 DEF Memory
<1> HIDE DEF x
<1>6. /\ \A n \in S : Said(m, n) = "silent" /\ Said(x, n) = "pending"
      /\ \A n \in Node \ S : Said(x, n) = Said(m, n)
  BY <1>1, <1>5 DEF Said
<1>7. /\ u \in Seq(Write) /\ \A i \in DOMAIN u : u[i][1] \in S /\ u[i][2] = "pending"
      /\ \A n \in S : \E i \in DOMAIN u : u[i] = <<n, "pending">>
  <2>1. S \in SUBSET Node
    OBVIOUS
  <2>2. "pending" \in Statuses \ {"none"}
    BY Words
  <2> HIDE DEF S
  <2> QED  BY <2>1, <2>2, UpsertsAre
<1>8. S \in SUBSET Node /\ x.active \subseteq {n \in Node : x.results[n] = "none"}
  BY <1>5
<1> HIDE DEF S, u, m
<1>9. Learns(m, x, S, u)
  BY <1>1, <1>3, <1>5, <1>6, <1>7, <1>8 DEF Learns
<1> QED  BY <1>1, <1>4, <1>9 DEF m, Speaking

\* A step of a run.
LEMMA DagSpeaks ==
  ASSUME IInv, NEW j \in Job, DagStep(j)
  PROVE  \E x, S, u : Speaking(j, x, S, u)
BY TakeLayerSpeaks, SettleNodeSpeaks, EndDagSpeaks DEF DagStep

-----------------------------------------------------------------------------
(***************************************************************************)
(* Upserts that are applied, crashes and boots.                            *)
(***************************************************************************)

\* A job that nobody works on knows of nothing, and has nothing on its way.
LEMMA IdleKnows ==
  ASSUME NEW s, NEW m, NEW w, JobFits(s, m, w), s \in {"free", "queued"} \/ m.pc = "dead", NEW n
  PROVE  Known(n, m, w) /\ m.dag = "off" /\ w = <<>>
<1>1. m.pc \in {"idle", "dead"} /\ m.dag = "off" /\ w = <<>>
  BY DEF JobFits
<1> QED  BY <1>1 DEF Known

\* In the order they were issued, the upserts of a success are the last of its node.
LEMMA ApplyWriteKeeps ==
  ASSUME IInv, NEW j \in Job, NEW i \in DOMAIN writes[j], ApplyWrite(j, i)
  PROVE  IInv'
<1> DEFINE m == run[j]
           w == writes[j]
           v == RemoveAt(w, i)
<1>1. /\ i \in 1 .. Len(w) /\ (InOrder => i = 1)
      /\ row' = IF exec = "deleted" THEN row ELSE [row EXCEPT ![w[i][1]] = w[i][2]]
      /\ writes' = [writes EXCEPT ![j] = v]
      /\ UNCHANGED <<exec, job, run, req, boot, crashes>>
  BY DEF ApplyWrite
<1>2. Types /\ JobInv
  BY DEF IInv
<1>3. m \in Memory /\ w \in Seq(Write) /\ JobFits(job[j].state, m, w)
  BY Standing
<1>4. /\ v \in Seq(Write) /\ Len(v) = Len(w) - 1
      /\ \A k \in 1 .. Len(w) - 1 : v[k] = IF k < i THEN w[k] ELSE w[k + 1]
  BY <1>1, <1>3, RemoveAtIs
<1>5. w[i] \in Write /\ w[i][1] \in Node /\ w[i][2] \in Statuses
  BY <1>1, <1>3 DEF Write
<1> HIDE DEF v
<1>6. InTurn(m, w) /\ InTurn(m, v) /\ m.dag # "off" /\ job[j].state \notin {"free", "queued"}
  <2>1. InTurn(m, w) /\ m.dag # "off"
    BY <1>1, <1>3 DEF JobFits
  <2>2. job[j].state \notin {"free", "queued"}
    BY <1>3, <2>1 DEF JobFits
  <2>3. InTurn(m, v)
    <3> HIDE DEF m, w
    <3> QED  BY <1>1, <1>3, <2>1, StillInTurn DEF v
  <2> QED  BY <2>1, <2>2, <2>3
<1>7. Types'
  <2>1. row' \in [Node -> Statuses] /\ writes' \in [Job -> Seq(Write)]
    BY <1>1, <1>2, <1>4, <1>5 DEF Types
  <2> QED  BY <1>1, <1>2, <2>1 DEF Types
<1>8. writes'[j] = v /\ \A k \in Job \ {j} : writes'[k] = writes[k]
  BY <1>1, <1>2 DEF Types
<1>9. JobInv'
  <2>1. JobFits(job[j].state, m, v)
    BY <1>3, <1>6 DEF JobFits
  <2>2. \A k \in Job : JobFits(job'[k].state, run'[k], writes'[k])
    BY <1>1, <1>2, <1>8, <2>1 DEF JobInv
  <2>3. job'[FirstJob].state # "free"
    BY <1>1, <1>2 DEF JobInv
  <2> QED  BY <2>2, <2>3, NextJobInv
<1>10. ASSUME NEW k \in DOMAIN v
       PROVE  \E h \in DOMAIN w : v[k] = w[h]
  BY <1>1, <1>3, <1>4
<1>11. InOrder => SuccessInv'
  <2> SUFFICES ASSUME InOrder, Quiet', NEW n \in Node, row'[n] = "success", NEW k \in Job
               PROVE  Known(n, run'[k], writes'[k])
    BY NextSuccessInv
  <2>1. Quiet /\ i = 1 /\ run' = run
    BY <1>1 DEF Quiet
  <2>2. CASE row[n] = "success"
    <3>1. Known(n, run[k], writes[k])
      BY <2>1, <2>2 DEF IInv, SuccessInv
    <3>2. CASE k = j
      BY <1>8, <1>10, <2>1, <3>1, <3>2 DEF Known
    <3> QED  BY <1>8, <2>1, <3>1, <3>2
  <2>3. CASE row[n] # "success"
    <3>1. w[1][1] = n /\ w[1][2] = "success"
      BY <1>1, <1>2, <2>1, <2>3 DEF Types
    <3>2. CASE k # j
      <4>1. job[k].state = "free"
        BY <1>6, <2>1, <3>2 DEF Quiet
      <4> QED  BY <1>2, <1>8, <2>1, <3>2, <4>1, IdleKnows DEF JobInv
    <3>3. CASE k = j
      <4>1. \A h \in DOMAIN w : w[h][1] = n => w[h][2] = Said(m, n)
        BY <1>1, <1>3, <1>6, <2>1, <3>1 DEF InTurn
      <4>2. Said(m, n) = "success" /\ m.results[n] = "success"
        BY <1>1, <1>3, <2>1, <3>1, <4>1 DEF Said
      <4>3. m.pc \notin {"mark", "start"}
        BY <1>3, <1>6 DEF JobFits
      <4>4. Known(n, m, v)
        BY <1>10, <4>1, <4>2, <4>3 DEF Known
      <4> QED  BY <1>8, <2>1, <3>3, <4>4
    <3> QED  BY <3>2, <3>3
  <2> QED  BY <2>2, <2>3
<1> QED  BY <1>7, <1>9, <1>11 DEF IInv

\* A memory that holds nothing.
LEMMA Forgotten ==
  ASSUME NEW pc \in {"idle", "done", "dead"}
  PROVE  LET x == [Idle EXCEPT !.pc = pc]
         IN /\ x \in Memory /\ x.pc = pc /\ InTurn(x, <<>>) /\ <<>> \in Seq(Write)
            /\ \A s : (s \in {"free", "queued"} => pc # "done") => JobFits(s, x, <<>>)
            /\ \A n : Known(n, x, <<>>)
<1> DEFINE x == [Idle EXCEPT !.pc = pc]
<1>1. x \in Memory /\ x.pc = pc /\ x.dag = "off" /\ x.active = {}
  BY Words DEF Idle, Memory, Places, Statuses
<1> HIDE DEF x
<1>2. InTurn(x, <<>>) /\ <<>> \in Seq(Write) /\ DOMAIN <<>> = {}
  BY NoneInTurn
<1>3. \A s : (s \in {"free", "queued"} => pc # "done") => JobFits(s, x, <<>>)
  BY <1>1, <1>2 DEF JobFits
<1>4. \A n : Known(n, x, <<>>)
  BY <1>1, <1>2 DEF Known
<1> QED  BY <1>1, <1>2, <1>3, <1>4 DEF x

\* A worker dies with the memory and the upserts of its runs.
LEMMA CrashKeeps ==
  ASSUME IInv, NEW w \in Worker, Crash(w)
  PROVE  IInv'
<1> DEFINE pc(j) == IF run[j].pc = "done" THEN "done" ELSE "dead"
<1>1. /\ crashes' = crashes + 1 /\ boot' = [boot EXCEPT ![w] = "down"]
      /\ run' = [j \in Job |-> IF run[j].worker = w THEN [Idle EXCEPT !.pc = pc(j)] ELSE run[j]]
      /\ writes' = [j \in Job |-> IF run[j].worker = w THEN <<>> ELSE writes[j]]
      /\ UNCHANGED <<exec, row, job, req>>
  BY DEF Crash, At
<1>2. Types /\ JobInv
  BY DEF IInv
<1>3. ASSUME NEW j \in Job
      PROVE  /\ run'[j] \in Memory /\ writes'[j] \in Seq(Write) /\ JobFits(job[j].state, run'[j], writes'[j])
             /\ \A n \in Node : Known(n, run[j], writes[j]) => Known(n, run'[j], writes'[j])
  <2>1. CASE run[j].worker # w
    BY <1>1, <1>2, <2>1 DEF Types, JobInv
  <2>2. CASE run[j].worker = w
    <3>1. pc(j) \in {"idle", "done", "dead"}
      OBVIOUS
    <3>2. run'[j] = [Idle EXCEPT !.pc = pc(j)] /\ writes'[j] = <<>>
      BY <1>1, <2>2
    <3>3. job[j].state \in {"free", "queued"} => pc(j) # "done"
      BY <1>2 DEF JobInv, JobFits
    <3> HIDE DEF pc
    <3> QED  BY <3>1, <3>2, <3>3, Forgotten
  <2> QED  BY <2>1, <2>2
<1>4. Types'
  <2>1. run' \in [Job -> Memory] /\ writes' \in [Job -> Seq(Write)]
    BY <1>1, <1>3
  <2> QED  BY <1>1, <1>2, <2>1 DEF Types
<1>5. JobInv'
  <2>1. job'[FirstJob].state # "free"
    BY <1>1, <1>2 DEF JobInv
  <2> QED  BY <1>1, <1>3, <2>1, NextJobInv
<1>6. InOrder => SuccessInv'
  <2> SUFFICES ASSUME InOrder, Quiet'
               PROVE  \A n \in Node : row'[n] = "success" => \A j \in Job : Known(n, run'[j], writes'[j])
    BY NextSuccessInv
  <2>1. Quiet /\ row' = row
    BY <1>1 DEF Quiet
  <2> QED  BY <1>3, <2>1 DEF IInv, SuccessInv
<1> QED  BY <1>4, <1>5, <1>6 DEF IInv

\* BullMQ gives the job to a worker once more, or up.
LEMMA StalledKeeps ==
  ASSUME IInv, NEW j \in Job, Stalled(j)
  PROVE  IInv'
<1>1. /\ job[j].state = "active" /\ run[j].pc = "dead" /\ run' = [run EXCEPT ![j] = Idle]
      /\ UNCHANGED <<exec, row, writes, req, boot, crashes>>
  BY DEF Stalled, At
<1>2. PICK s \in JobState : s.state \in {"queued", "gone"} /\ job' = [job EXCEPT ![j] = s]
  <2>1. job[j] \in JobState
    BY Standing
  <2>2. /\ [state |-> "queued", stalls |-> 1] \in JobState
        /\ [job[j] EXCEPT !.state = "gone"] \in JobState /\ [job[j] EXCEPT !.state = "gone"].state = "gone"
    BY <2>1 DEF JobState
  <2> QED  BY <2>2 DEF Stalled
<1>3. Idle \in Memory /\ Idle.pc = "idle" /\ Idle.dag = "off" /\ Idle.active = {}
  BY Words DEF Idle, Memory, Places, Statuses
<1>4. /\ Idle \in Memory /\ <<>> \in Seq(Write) /\ JobFits(s.state, Idle, <<>>)
      /\ \A n : Known(n, Idle, <<>>)
  <2>1. InTurn(Idle, <<>>) /\ <<>> \in Seq(Write) /\ DOMAIN <<>> = {}
    BY NoneInTurn
  <2> QED  BY <1>3, <2>1 DEF JobFits, Known
<1>5. writes' = [writes EXCEPT ![j] = <<>>]
  <2>1. JobFits(job[j].state, run[j], writes[j]) /\ writes' = [writes EXCEPT ![j] = writes[j]]
    BY <1>1, Standing
  <2>2. writes[j] = <<>>
    BY <1>1, <2>1 DEF JobFits
  <2> QED  BY <2>1, <2>2
<1>6. exec' \in {"queued", "running", "deleted"} \cup Finals /\ (s.state = "free" <=> job[j].state = "free")
  BY <1>1, <1>2 DEF IInv, Types
<1> QED  BY <1>1, <1>2, <1>4, <1>5, <1>6, JobMoves

\* A step that leaves the runs and their upserts alone.
LEMMA RestMoves ==
  ASSUME IInv, Types', UNCHANGED <<run, writes>>,
         \A j \in Job : JobFits(job'[j].state, run[j], writes[j]),
         job'[FirstJob].state # "free",
         Quiet' => Quiet /\ \A n \in Node : row'[n] = "success" => row[n] = "success"
  PROVE  IInv'
<1>1. JobInv'
  BY NextJobInv
<1>2. InOrder => SuccessInv'
  <2> SUFFICES ASSUME InOrder, Quiet'
               PROVE  \A n \in Node : row'[n] = "success" => \A j \in Job : Known(n, run'[j], writes'[j])
    BY NextSuccessInv
  <2> QED  BY DEF IInv, SuccessInv
<1> QED  BY <1>1, <1>2 DEF IInv

\* A worker boots and fails what its predecessor has left running.
LEMMA WorkerKeeps ==
  ASSUME IInv, NEW w \in Worker, WorkerStep(w)
  PROVE  IInv'
<1>1. Types /\ JobInv
  BY DEF IInv
<1>2. UNCHANGED <<job, run, writes, req>>
  BY DEF WorkerStep, Boot, ReapExecution, MarkReapedRows
<1>3. Quiet' => Quiet
  BY <1>2 DEF Quiet
<1>4. /\ \A j \in Job : JobFits(job'[j].state, run[j], writes[j])
      /\ job'[FirstJob].state # "free"
  BY <1>1, <1>2 DEF JobInv
<1>5. Types' /\ \A n \in Node : row'[n] = "success" => row[n] = "success"
  <2>1. CASE Boot(w)
    BY <1>1, <2>1 DEF Boot, Types
  <2>2. CASE ReapExecution(w)
    <3>1. exec' \in {"queued", "running", "deleted"} \cup Finals
          /\ boot' \in [Worker -> {"down", "reaping", "marking", "up"}] /\ UNCHANGED <<row, crashes>>
      BY <1>1, <2>2 DEF ReapExecution, Types, Finals
    <3> QED  BY <1>1, <1>2, <3>1 DEF Types
  <2>3. CASE MarkReapedRows(w)
    <3>1. row' = [n \in Node |-> IF row[n] = "running" THEN "failed" ELSE row[n]]
          /\ boot' = [boot EXCEPT ![w] = "up"] /\ UNCHANGED <<exec, crashes>>
      BY <2>3 DEF MarkReapedRows
    <3>2. row' \in [Node -> Statuses]
      BY <1>1, <3>1, Words DEF Types
    <3> QED  BY <1>1, <1>2, <3>1, <3>2 DEF Types
  <2> QED  BY <2>1, <2>2, <2>3 DEF WorkerStep
<1> QED  BY <1>2, <1>3, <1>4, <1>5, RestMoves

\* A handler's next statement: a second job, and the way to it, is not quiet.
LEMMA RequestKeeps ==
  ASSUME IInv, NEW r \in Client,
         \/ \E n \in Node : AskRespond(r, n) \/ \E kind \in Kinds : AskResumeOrSkip(r, kind, n)
         \/ CheckNode(r) \/ Requeue(r) \/ ApiCrash(r)
  PROVE  IInv'
<1>1. Types /\ JobInv
  BY DEF IInv
<1>2. UNCHANGED <<row, job, run, writes, boot, crashes>>
  BY DEF AskRespond, AskResumeOrSkip, CheckNode, Requeue, ApiCrash
<1>3. exec' \in {"queued", "running", "deleted"} \cup Finals
  <2>1. CASE Requeue(r)
    BY <2>1, ExecIs DEF Requeue
  <2> QED  BY <1>1, <2>1 DEF Types, AskRespond, AskResumeOrSkip, CheckNode, ApiCrash
<1>4. PICK q \in Asked \cup {NoRequest} :
        /\ req' = [req EXCEPT ![r] = q]
        /\ q.pc \in {"idle", "check", "reset"} => req[r].pc \in {"idle", "check", "reset"}
  <2>1. CASE \E n \in Node : AskRespond(r, n) \/ \E kind \in Kinds : AskResumeOrSkip(r, kind, n)
    BY <2>1, LifecycleAssumption DEF AskRespond, AskResumeOrSkip, MayAsk, Asked
  <2>2. CASE CheckNode(r) \/ Requeue(r) \/ ApiCrash(r)
    <3>1. req[r] \in Asked
      BY <1>1, <2>2 DEF CheckNode, Requeue, ApiCrash, Types, NoRequest
    <3>2. ASSUME NEW pc \in {"reset", "enqueue", "died"}
          PROVE  LET q == [req[r] EXCEPT !.pc = pc] IN q \in Asked /\ q.pc = pc
      BY <3>1 DEF Asked
    <3>3. NoRequest.pc = "idle"
      BY DEF NoRequest
    <3> QED  BY <2>2, <3>2, <3>3 DEF CheckNode, Requeue, ApiCrash, ReqGoto, Answer
  <2> QED  BY <2>1, <2>2
<1>5. Types'
  BY <1>1, <1>2, <1>3, <1>4 DEF Types
<1>6. Quiet' => Quiet
  BY <1>1, <1>2, <1>4 DEF Quiet, Types
<1>7. /\ \A j \in Job : JobFits(job'[j].state, run[j], writes[j])
      /\ job'[FirstJob].state # "free"
  BY <1>1, <1>2 DEF JobInv
<1> QED  BY <1>2, <1>5, <1>6, <1>7, RestMoves


\* A second job is not quiet.
LEMMA EnqueueKeeps ==
  ASSUME IInv, NEW r \in Client, Enqueue(r)
  PROVE  IInv'
<1>1. Types /\ JobInv
  BY DEF IInv
<1>2. UNCHANGED <<exec, row, run, writes, boot, crashes>> /\ req' = [req EXCEPT ![r] = NoRequest]
  BY DEF Enqueue, Answer
<1>3. PICK j \in Job : job[j].state = "free" /\ job' = [job EXCEPT ![j].state = "queued"]
  BY DEF Enqueue
<1>4. job' \in [Job -> JobState] /\ job'[j].state = "queued" /\ \A k \in Job \ {j} : job'[k] = job[k]
  <2>1. job[j] \in JobState
    BY Standing
  <2>2. [job[j] EXCEPT !.state = "queued"] \in JobState /\ [job[j] EXCEPT !.state = "queued"].state = "queued"
    BY <2>1 DEF JobState
  <2> QED  BY <1>1, <1>3, <2>2 DEF Types
<1>5. Types'
  BY <1>1, <1>2, <1>4 DEF Types
<1>6. \A k \in Job : JobFits(job'[k].state, run[k], writes[k])
  <2>1. JobFits("queued", run[j], writes[j])
    BY <1>1, <1>3 DEF JobInv, JobFits
  <2> QED  BY <1>1, <1>4, <2>1 DEF JobInv
<1>7. FirstJob \in Job /\ FirstJob # j /\ job'[FirstJob].state # "free"
  BY <1>1, <1>3, <1>4, LifecycleAssumption DEF JobInv
<1>8. ~Quiet'
  BY <1>4, <1>7 DEF Quiet
<1> QED  BY <1>2, <1>5, <1>6, <1>7, <1>8, RestMoves

\* The status that a request leaves in its node's row.
LEMMA NewStatusIs ==
  ASSUME NEW kind \in {"resume", "skip", "respond"}, NEW old \in Statuses
  PROVE  NewStatus(kind, old) \subseteq Statuses
<1>1. {"none", "pending", "success", "skipped"} \subseteq Statuses
  BY DEF Statuses, Terminal
<1> QED  BY <1>1 DEF NewStatus

\* A request resets the row of its node.
LEMMA ResetKeeps ==
  ASSUME IInv, NEW r \in Client, ResetNode(r)
  PROVE  IInv'
<1>1. Types /\ JobInv
  BY DEF IInv
<1>2. UNCHANGED <<exec, job, run, writes, boot, crashes>> /\ req[r].pc = "reset"
  BY DEF ResetNode
<1>3. req[r] \in Asked
  BY <1>1, <1>2 DEF Types, NoRequest
<1>4. row' \in [Node -> Statuses]
  <2>1. CASE exec = "deleted"
    BY <1>1, <2>1 DEF ResetNode, Types
  <2>2. CASE exec # "deleted"
    <3>1. PICK status \in NewStatus(req[r].kind, row[req[r].node]) :
            row' = [row EXCEPT ![req[r].node] = status]
      BY <2>2 DEF ResetNode
    <3>2. req[r].kind \in {"resume", "skip", "respond"} /\ row[req[r].node] \in Statuses
      BY <1>1, <1>3 DEF Asked, Types
    <3>3. status \in Statuses
      BY <3>1, <3>2, NewStatusIs
    <3> QED  BY <1>1, <3>1, <3>3 DEF Types
  <2> QED  BY <2>1, <2>2
<1>5. CASE exec = "deleted" /\ req[r].kind = "respond"
  <2>1. row' = row /\ req' = [req EXCEPT ![r] = NoRequest]
    BY <1>5 DEF ResetNode, Answer
  <2>2. Types'
    BY <1>1, <1>2, <1>4, <2>1 DEF Types
  <2>3. Quiet' => Quiet
    BY <1>1, <1>2, <2>1 DEF Quiet, Types
  <2> QED  BY <1>1, <1>2, <2>1, <2>2, <2>3, RestMoves DEF JobInv
<1>6. CASE ~(exec = "deleted" /\ req[r].kind = "respond")
  <2>1. PICK q \in Asked : q.pc = "requeue" /\ req' = [req EXCEPT ![r] = q]
    <3>1. [req[r] EXCEPT !.pc = "requeue"] \in Asked /\ [req[r] EXCEPT !.pc = "requeue"].pc = "requeue"
      BY <1>3 DEF Asked
    <3>2. req' = [req EXCEPT ![r] = [req[r] EXCEPT !.pc = "requeue"]]
      BY <1>6 DEF ResetNode, ReqGoto
    <3> QED  BY <3>1, <3>2
  <2>2. Types'
    BY <1>1, <1>2, <1>4, <2>1 DEF Types
  <2>3. ~Quiet'
    BY <1>1, <2>1 DEF Quiet, Types
  <2> QED  BY <1>1, <1>2, <2>2, <2>3, RestMoves DEF JobInv
<1> QED  BY <1>5, <1>6

\* No row is left to know of.
LEMMA DeleteKeeps ==
  ASSUME IInv, NEW r \in Client, Delete(r)
  PROVE  IInv'
<1>1. Types /\ JobInv
  BY DEF IInv
<1>2. /\ exec' = "deleted" /\ row' = [n \in Node |-> "none"]
      /\ UNCHANGED <<job, run, writes, req, boot, crashes>>
  BY DEF Delete
<1>3. Types'
  <2>1. row' \in [Node -> Statuses]
    BY <1>2 DEF Statuses
  <2> QED  BY <1>1, <1>2, <2>1 DEF Types
<1>4. (Quiet' => Quiet) /\ \A n \in Node : row'[n] # "success"
  BY <1>2 DEF Quiet
<1> QED  BY <1>1, <1>2, <1>3, <1>4, RestMoves DEF JobInv

-----------------------------------------------------------------------------
(***************************************************************************)
(* The invariant holds.                                                    *)
(***************************************************************************)

\* At the start nothing has run.
LEMMA InitIInv == Init => IInv
<1> SUFFICES ASSUME Init PROVE IInv
  OBVIOUS
<1>1. Idle \in Memory /\ Idle.pc = "idle" /\ Idle.dag = "off" /\ Idle.active = {}
  BY Words DEF Idle, Memory, Places, Statuses
<1>2. \A s : JobFits(s, Idle, <<>>)
  BY <1>1, NoneInTurn DEF JobFits
<1>3. Types
  <2>1. row \in [Node -> Statuses] /\ job \in [Job -> JobState]
    BY DEF Init, Statuses, JobState
  <2>2. run \in [Job -> Memory] /\ writes \in [Job -> Seq(Write)]
    BY <1>1, NoneInTurn DEF Init
  <2> QED  BY <2>1, <2>2 DEF Init, Types
<1>4. JobInv
  <2>1. job[FirstJob].state # "free"
    BY LifecycleAssumption DEF Init
  <2> QED  BY <1>2, <2>1 DEF Init, JobInv
<1>5. SuccessInv
  BY DEF Init, SuccessInv
<1> QED  BY <1>3, <1>4, <1>5 DEF IInv

\* Every step keeps it.
LEMMA NextIInv == IInv /\ [Next]_vars => IInv'
<1> SUFFICES ASSUME IInv, [Next]_vars PROVE IInv'
  OBVIOUS
<1>1. ASSUME NEW j \in Job, NEW w \in Worker, Claim(j, w)
      PROVE  IInv'
  BY <1>1, ClaimKeeps
<1>2. ASSUME NEW j \in Job, BodyStep(j) \/ DagStep(j) \/ TimeOut(j) \/ Stalled(j)
      PROVE  IInv'
  BY <1>2, LoadRowsKeeps, StartDagKeeps, BodyKeeps, DagSpeaks, DagMoves, StalledKeeps
     DEF BodyStep
<1>3. ASSUME NEW j \in Job, NEW i \in DOMAIN writes[j], ApplyWrite(j, i)
      PROVE  IInv'
  BY <1>3, ApplyWriteKeeps
<1>4. ASSUME NEW w \in Worker, WorkerStep(w) \/ Crash(w)
      PROVE  IInv'
  BY <1>4, WorkerKeeps, CrashKeeps
<1>5. ASSUME NEW r \in Client, NEW n \in Node,
             AskRespond(r, n) \/ \E kind \in Kinds : AskResumeOrSkip(r, kind, n)
      PROVE  IInv'
  BY <1>5, RequestKeeps
<1>6. ASSUME NEW r \in Client, HandlerStep(r) \/ Delete(r) \/ ApiCrash(r)
      PROVE  IInv'
  BY <1>6, RequestKeeps, ResetKeeps, EnqueueKeeps, DeleteKeeps DEF HandlerStep
<1>7. CASE UNCHANGED vars
  BY <1>7 DEF vars, IInv, Types, JobInv, JobFits, InTurn, Said, SuccessInv, Quiet, Known
<1> QED  BY <1>1, <1>2, <1>3, <1>4, <1>5, <1>6, <1>7 DEF Next

\* Hence it always holds.
THEOREM Invariance == Spec => []IInv
<1> QED  BY InitIInv, NextIInv, PTL DEF Spec


\* What is on disk, and what a run starts, while there is one job.
LEMMA QuietStep ==
  ASSUME IInv, InOrder, HasOneJob, [Next]_vars, NEW n \in Node, row[n] = "success"
  PROVE  /\ row'[n] = "success" \/ exec' = "deleted"
         /\ \A j \in Job : n \notin run'[j].active \ run[j].active
<1>1. Types /\ \A j \in Job : Known(n, run[j], writes[j])
  BY DEF IInv, SuccessInv, HasOneJob, InHandler, Quiet
<1>2. row'[n] = "success" \/ exec' = "deleted"
  <2>1. ASSUME NEW j \in Job, NEW i \in DOMAIN writes[j], ApplyWrite(j, i)
        PROVE  row'[n] = "success"
    <3>1. row' = row \/ row' = [row EXCEPT ![writes[j][i][1]] = writes[j][i][2]]
      BY <2>1 DEF ApplyWrite
    <3>2. writes[j][i][1] = n => writes[j][i][2] = "success"
      BY <1>1 DEF Known
    <3> QED  BY <1>1, <3>1, <3>2 DEF Types
  <2>2. ASSUME NEW w \in Worker, WorkerStep(w) \/ Crash(w)
        PROVE  row'[n] = "success"
    BY <2>2 DEF WorkerStep, Boot, ReapExecution, MarkReapedRows, Crash
  <2>3. ASSUME NEW r \in Client, HandlerStep(r) \/ Delete(r) \/ ApiCrash(r)
        PROVE  row'[n] = "success" \/ exec' = "deleted"
    BY <2>3 DEF HandlerStep, CheckNode, ResetNode, Requeue, Enqueue, Delete, ApiCrash, HasOneJob,
       InHandler
  <2>4. ASSUME \/ \E j \in Job, w \in Worker : Claim(j, w)
               \/ \E j \in Job : BodyStep(j) \/ DagStep(j) \/ TimeOut(j) \/ Stalled(j)
               \/ \E r \in Client, m \in Node :
                    AskRespond(r, m) \/ (\E kind \in Kinds : AskResumeOrSkip(r, kind, m))
               \/ UNCHANGED vars
        PROVE  row' = row
    <3>1. ASSUME NEW j \in Job, NEW w \in Worker, Claim(j, w) PROVE row' = row
      BY <3>1 DEF Claim
    <3>2. ASSUME NEW j \in Job, BodyStep(j) PROVE row' = row
      BY <3>2, Zenon DEF BodyStep, LoadRows, MarkRunning, StartDag, BodyThrows, Drain, FinalUpdate,
         Rescue, OuterRescue, Complete
    <3>3. ASSUME NEW j \in Job, DagStep(j) PROVE row' = row
      BY <3>3, Zenon DEF DagStep, TakeLayer, SettleNode, EndDag
    <3>4. ASSUME NEW j \in Job, TimeOut(j) \/ Stalled(j) PROVE row' = row
      BY <3>4, Zenon DEF TimeOut, Stalled
    <3>5. ASSUME NEW r \in Client, NEW m \in Node,
                 AskRespond(r, m) \/ (\E kind \in Kinds : AskResumeOrSkip(r, kind, m))
          PROVE  row' = row
      BY <3>5 DEF AskRespond, AskResumeOrSkip
    <3>6. CASE UNCHANGED vars
      BY <3>6 DEF vars
    <3> QED  BY <2>4, <3>1, <3>2, <3>3, <3>4, <3>5, <3>6
  <2> QED  BY <2>1, <2>2, <2>3, <2>4 DEF Next
<1>3. ASSUME NEW j \in Job
      PROVE  n \notin run'[j].active \ run[j].active
  <2>1. run \in [Job -> Memory] /\ Idle.active = {}
    BY <1>1 DEF Types, Idle
  <2>2. ASSUME NEW k \in Job, TakeLayer(k)
        PROVE  n \notin run'[j].active \ run[j].active
    <3>1. run[k].results[n] = "success"
      BY <1>1, <2>2 DEF TakeLayer, Known
    <3>2. n \notin Ready(k)
      BY <3>1 DEF Ready
    <3>3. run'[j].active \subseteq run[j].active \cup Ready(k)
      BY <2>1, <2>2 DEF TakeLayer, Memory
    <3> QED  BY <3>2, <3>3
  <2>3. ASSUME NEW k \in Job, NEW m \in Node, SettleNode(k, m)
        PROVE  run'[j].active \subseteq run[j].active
    BY <2>1, <2>3 DEF SettleNode, Memory
  <2>4. ASSUME NEW w \in Worker, Crash(w)
        PROVE  run'[j].active \subseteq run[j].active
    BY <2>1, <2>4 DEF Crash, Idle
  <2>5. ASSUME NEW k \in Job, NEW pc, run' = [run EXCEPT ![k].pc = pc]
        PROVE  run'[j].active \subseteq run[j].active
    BY <2>1, <2>5 DEF Memory
  <2>6. ASSUME NEW k \in Job, LoadRows(k) \/ StartDag(k) \/ EndDag(k) \/ Stalled(k)
        PROVE  run'[j].active \subseteq run[j].active
    <3>1. CASE LoadRows(k)
      BY <2>1, <3>1 DEF LoadRows, Memory
    <3>2. CASE StartDag(k)
      BY <2>1, <3>2 DEF StartDag, Memory
    <3>3. CASE EndDag(k)
      BY <2>1, <3>3 DEF EndDag, Memory
    <3>4. CASE Stalled(k)
      BY <2>1, <3>4 DEF Stalled
    <3> QED  BY <2>6, <3>1, <3>2, <3>3, <3>4
  <2>7. ASSUME NEW k \in Job,
               \/ MarkRunning(k) \/ BodyThrows(k) \/ Drain(k) \/ FinalUpdate(k) \/ TimeOut(k)
               \/ Rescue(k) \/ OuterRescue(k) \/ Complete(k)
        PROVE  run'[j].active \subseteq run[j].active
    <3>1. \E pc : run' = [run EXCEPT ![k].pc = pc]
      BY <2>7 DEF MarkRunning, BodyThrows, Drain, FinalUpdate, TimeOut, Rescue, OuterRescue,
         Complete, Goto
    <3> QED  BY <2>5, <3>1
  <2>8. ASSUME NEW k \in Job, NEW w \in Worker, Claim(k, w)
        PROVE  run'[j].active \subseteq run[j].active
    BY <2>1, <2>8 DEF Claim, Idle
  <2>9. ASSUME \/ \E k \in Job : \E i \in DOMAIN writes[k] : ApplyWrite(k, i)
               \/ \E w \in Worker : WorkerStep(w)
               \/ \E r \in Client, m \in Node :
                    AskRespond(r, m) \/ (\E kind \in Kinds : AskResumeOrSkip(r, kind, m))
               \/ \E r \in Client : HandlerStep(r) \/ Delete(r) \/ ApiCrash(r)
               \/ UNCHANGED vars
        PROVE  run' = run
    BY <2>9 DEF ApplyWrite, WorkerStep, Boot, ReapExecution, MarkReapedRows, AskRespond,
       AskResumeOrSkip, HandlerStep, CheckNode, ResetNode, Requeue, Enqueue, Delete, ApiCrash, vars
  <2> QED  BY <2>2, <2>3, <2>4, <2>5, <2>6, <2>8, <2>9, <2>7 DEF Next, BodyStep, DagStep
<1> QED  BY <1>2, <1>3

\* A success on disk stays there until somebody asks (SuccessIsDurable).
THEOREM DurableHolds == InOrder => (Spec => SuccessIsDurable)
<1> SUFFICES ASSUME InOrder
             PROVE  Spec => SuccessIsDurable
  OBVIOUS
<1> DEFINE Step == \A n \in Node : HasOneJob /\ row[n] = "success" =>
                                      row'[n] = "success" \/ exec' = "deleted"
<1>1. IInv /\ [Next]_vars => Step
  BY QuietStep
<1>2. IInv /\ [Next]_vars => [Step]_vars
  BY <1>1
<1> QED  BY <1>2, Invariance, PTL DEF Spec, SuccessIsDurable

\* No run starts a node whose success is on disk (NothingIsRedone).
THEOREM RedoneHolds == InOrder => (Spec => NothingIsRedone)
<1> SUFFICES ASSUME InOrder
             PROVE  Spec => NothingIsRedone
  OBVIOUS
<1> DEFINE Step == \A j \in Job, n \in Node :
                     HasOneJob /\ n \in run'[j].active \ run[j].active => row[n] # "success"
<1>1. IInv /\ [Next]_vars => Step
  BY QuietStep
<1>2. IInv /\ [Next]_vars => [Step]_vars
  BY <1>1
<1> QED  BY <1>2, Invariance, PTL DEF Spec, NothingIsRedone


\* Every variable keeps its type (TypeOK).
THEOREM TypesHold == Spec => []TypeOK
<1>1. ASSUME IInv PROVE TypeOK
  <2>1. Types /\ JobInv
    BY <1>1 DEF IInv
  <2>2. ASSUME NEW j \in Job
        PROVE  /\ job[j].state \in {"free", "queued", "active", "gone"} /\ job[j].stalls \in 0 .. 1
               /\ run[j].results \in [Node -> {"none"} \cup Settled]
               /\ run[j].active \subseteq {n \in Node : run[j].results[n] = "none"}
               /\ \A i \in DOMAIN writes[j] :
                    writes[j][i][1] \in Node /\ writes[j][i][2] \in Statuses \ {"none"}
    <3>1. job[j] \in JobState /\ run[j] \in Memory /\ writes[j] \in Seq(Write)
      BY <2>1 DEF Types
    <3>2. \A i \in DOMAIN writes[j] : writes[j][i] \in Write
      BY <3>1
    <3> QED  BY <2>1, <3>1, <3>2 DEF JobState, Memory, Write, JobInv, JobFits
  <2>3. ASSUME NEW r \in Client, req[r].pc # "idle"
        PROVE  req[r].kind \in Kinds /\ req[r].node \in Node
    BY <2>1, <2>3 DEF Types, Asked, NoRequest
  <2> QED  BY <2>1, <2>2, <2>3 DEF Types, TypeOK
<1> QED  BY <1>1, Invariance, PTL

-----------------------------------------------------------------------------
(***************************************************************************)
(* Each run is a run of DagRun.                                            *)
(***************************************************************************)
\* A run with memory m: it has no verdict before its end, and what it has
\* started stands below nodes that have ended and are not skipped.
RunFits(m) ==
  /\ m.dag = "off" => ~m.aborted
  /\ m.dag # "ended" => m.overall = "none"
  /\ \A n \in m.active : \A p \in Parents(n) : m.results[p] \in Terminal \ {"skipped"}

RunInv == \A j \in Job : RunFits(run[j])

\* What DagRun sees of a memory.
Seen(m) ==
  [n \in Node |-> IF m.results[n] # "none" THEN m.results[n]
                  ELSE IF n \in m.active THEN "active"
                  ELSE IF m.dag = "ended" THEN "pending" ELSE "idle"]

\* A memory that has become another one of the same run.
SameRun(m, x) ==
  /\ x.results = m.results /\ x.active = m.active /\ x.aborted = m.aborted
  /\ x.dag = m.dag /\ x.overall = m.overall

\* A memory that holds no run.
NoRun(m) == m.dag = "off" /\ m.active = {} /\ ~m.aborted /\ m.overall = "none"

\* DagRun has the same words for the graph and for its outcomes.
LEMMA SameWords ==
  ASSUME NEW j \in Job
  PROVE  /\ \A n : RunOf(j)!Parents(n) = Parents(n)
         /\ RunOf(j)!Settled = Settled /\ RunOf(j)!Terminal = Terminal
BY DEF RunOf!Parents, Parents, RunOf!Settled, Settled, RunOf!Terminal, Terminal

\* The parents of a node are nodes.
LEMMA ParentsAreNodes == \A n : Parents(n) \subseteq Node
BY DagAssumption DEF Parents

\* What DagRun sees of a job's run.
LEMMA SeenIs ==
  ASSUME NEW j \in Job
  PROVE  OutcomeSeen(j) = Seen(run[j]) /\ OutcomeSeen(j)' = Seen(run'[j])
BY DEF OutcomeSeen, Seen

\* A run begins with the settled rows as its outcomes.
LEMMA StartDagBegins ==
  ASSUME IInv, RunInv, NEW j \in Job, StartDag(j)
  PROVE  RunOf(j)!Init' /\ RunFits(run'[j])
<1> DEFINE results == [n \in Node |-> IF run[j].loaded[n] \in Settled THEN run[j].loaded[n] ELSE "none"]
           x == [run[j] EXCEPT !.pc = "dag", !.dag = "on", !.results = results]
<1>1. run[j] \in Memory /\ run[j].dag = "off" /\ run[j].active = {}
  BY Standing DEF StartDag, At, JobFits
<1>2. ~run[j].aborted /\ run[j].overall = "none"
  BY <1>1 DEF RunInv, RunFits
<1>3. run' = [run EXCEPT ![j] = x]
  BY DEF StartDag, Hydrated
<1>4. run'[j] = x
  BY <1>3 DEF IInv, Types
<1>5. results \in [Node -> {"none"} \cup Settled]
  OBVIOUS
<1> HIDE DEF results
<1>6. x.results = results /\ x.active = {} /\ x.aborted = FALSE /\ x.dag = "on" /\ x.overall = "none"
  BY <1>1, <1>2 DEF Memory
<1> HIDE DEF x
<1>7. Seen(x) \in [Node -> {"idle"} \cup Settled]
  BY <1>5, <1>6 DEF Seen
<1>8. RunOf(j)!Init'
  BY <1>4, <1>6, <1>7, SameWords, SeenIs DEF RunOf!Init
<1>9. RunFits(x)
  BY <1>6 DEF RunFits
<1> QED  BY <1>4, <1>8, <1>9

\* A layer starts, of which some nodes are skipped at once.
LEMMA TakeLayerStarts ==
  ASSUME IInv, RunInv, NEW j \in Job, TakeLayer(j)
  PROVE  RunOf(j)!Next /\ RunFits(run'[j])
<1> DEFINE m == run[j]
<1>1. /\ m \in Memory /\ m.dag = "on" /\ m.active = {} /\ m.aborted = FALSE /\ m.overall = "none"
  BY Standing DEF TakeLayer, RunInv, RunFits, Memory
<1>2. PICK closed \in SUBSET (Ready(j) \cap Gated) :
        LET skipped == closed \cup
                       {n \in Ready(j) : \E p \in Parents(n) : run[j].results[p] = "skipped"}
            started == Ready(j) \ skipped
        IN run' = [run EXCEPT ![j].active = started,
                     ![j].results = [n \in Node |-> IF n \in skipped THEN "skipped" ELSE @[n]]]
  BY DEF TakeLayer
<1>3. PICK skipped : skipped = closed \cup
                       {n \in Ready(j) : \E p \in Parents(n) : run[j].results[p] = "skipped"}
  OBVIOUS
<1>4. /\ Ready(j) = {n \in Node : m.results[n] = "none" /\ \A p \in Parents(n) : m.results[p] \in Terminal}
      /\ skipped \subseteq Ready(j)
  BY <1>1, <1>3 DEF Ready
<1> DEFINE x == Layered(j, skipped)
<1>5. run'[j] = x
  <2>1. run' = [run EXCEPT ![j] = x]
    BY <1>2, <1>3 DEF Layered
  <2> QED  BY <2>1 DEF IInv, Types
<1>6. /\ x.results = [n \in Node |-> IF n \in skipped THEN "skipped" ELSE m.results[n]]
      /\ x.active = Ready(j) \ skipped /\ x.aborted = FALSE /\ x.dag = "on" /\ x.overall = "none"
  BY <1>1 DEF Layered, Memory
<1>7. \A n \in Ready(j) \ skipped : \A p \in Parents(n) : m.results[p] # "skipped"
  BY <1>3
<1> HIDE DEF x, m
<1>8. RunFits(x)
  <2>1. ASSUME NEW n \in Ready(j) \ skipped, NEW p \in Parents(n)
        PROVE  x.results[p] \in Terminal \ {"skipped"}
    <3>1. p \in Node /\ m.results[p] \in Terminal \ {"skipped"}
      BY <1>4, <1>7, ParentsAreNodes
    <3>2. m.results[p] # "none"
      BY <3>1 DEF Terminal
    <3>3. p \notin skipped
      BY <1>4, <3>2
    <3> QED  BY <1>6, <3>1, <3>3
  <2> QED  BY <1>6, <2>1 DEF RunFits
<1>9. Ready(j) \in SUBSET RunOf(j)!Startable
  <2> SUFFICES ASSUME NEW n \in Ready(j)
               PROVE  n \in RunOf(j)!Startable
    OBVIOUS
  <2>1. n \in Node /\ Seen(m)[n] = "idle"
    BY <1>1, <1>4 DEF Seen
  <2>2. \A p \in Parents(n) : Seen(m)[p] \in Terminal
    <3> SUFFICES ASSUME NEW p \in Parents(n)
                 PROVE  Seen(m)[p] \in Terminal
      OBVIOUS
    <3>1. p \in Node /\ m.results[p] \in Terminal /\ m.results[p] # "none"
      BY <1>4, ParentsAreNodes DEF Terminal
    <3> QED  BY <3>1 DEF Seen
  <2>3. OutcomeSeen(j) = Seen(m)
    BY SeenIs DEF m
  <2> QED  BY <2>1, <2>2, <2>3, SameWords DEF RunOf!Startable, RunOf!Is
<1>10. Seen(x) = [n \in Node |-> IF n \in skipped THEN "skipped"
                                 ELSE IF n \in Ready(j) THEN "active" ELSE Seen(m)[n]]
  BY <1>1, <1>4, <1>6 DEF Seen
<1>11. RunOf(j)!Start(Ready(j), skipped)
  <2>1. OutcomeSeen(j) = Seen(m) /\ OutcomeSeen(j)' = Seen(x)
    BY <1>5, SeenIs DEF m
  <2>2. run[j].overall = "none" /\ ~run[j].aborted /\ run'[j].overall = run[j].overall
        /\ run'[j].aborted = run[j].aborted
    BY <1>1, <1>5, <1>6 DEF m
  <2> QED  BY <1>10, <2>1, <2>2 DEF RunOf!Start
<1> QED  BY <1>4, <1>5, <1>8, <1>9, <1>11 DEF RunOf!Next

\* A node settles.
LEMMA SettleNodeSettles ==
  ASSUME IInv, RunInv, NEW j \in Job, NEW n \in Node, SettleNode(j, n)
  PROVE  RunOf(j)!Next /\ RunFits(run'[j])
<1> DEFINE m == run[j]
<1>1. /\ m \in Memory /\ m.dag = "on" /\ n \in m.active /\ m.overall = "none"
      /\ m.active \subseteq {k \in Node : m.results[k] = "none"}
      /\ \A k \in m.active : \A p \in Parents(k) : m.results[p] \in Terminal \ {"skipped"}
  BY Standing DEF SettleNode, RunInv, RunFits, JobFits
<1>2. PICK status \in Outcomes(n) :
        run' = [run EXCEPT ![j].active = @ \ {n}, ![j].results[n] = status,
                  ![j].aborted = @ \/ (status = "failed" /\ n \in Terminates)]
  BY DEF SettleNode
<1>3. status \in Settled /\ status # "none"
  BY DEF Outcomes, Settled, Terminal
<1>4. PICK aborted \in BOOLEAN : aborted = (m.aborted \/ (status = "failed" /\ n \in Terminates))
  BY <1>1 DEF Memory
<1> DEFINE x == [m EXCEPT !.active = m.active \ {n}, !.results = [m.results EXCEPT ![n] = status],
                          !.aborted = aborted]
<1>5. run'[j] = x
  <2>1. run' = [run EXCEPT ![j] = x]
    BY <1>2, <1>4
  <2> QED  BY <2>1 DEF IInv, Types
<1>6. /\ x.results = [m.results EXCEPT ![n] = status] /\ x.active = m.active \ {n}
      /\ x.aborted = aborted /\ x.dag = "on" /\ x.overall = "none"
      /\ m.results \in [Node -> {"none"} \cup Settled]
  BY <1>1 DEF Memory
<1> HIDE DEF x
<1>7. \A k \in m.active : \A p \in Parents(k) :
         p # n /\ p \in Node /\ m.results[p] \in Terminal \ {"skipped"} /\ m.results[p] # "none"
  BY <1>1, ParentsAreNodes DEF Terminal
<1>8. RunFits(x)
  BY <1>6, <1>7 DEF RunFits
<1>9. OutcomeSeen(j) = Seen(m) /\ OutcomeSeen(j)' = Seen(x)
  BY <1>5, SeenIs
<1> HIDE DEF m
<1>10. n \in RunOf(j)!Is("active")
  <2>1. Seen(m)[n] = "active"
    BY <1>1 DEF Seen
  <2> QED  BY <1>9, <2>1 DEF RunOf!Is
<1>11. ~\E p \in Parents(n) : Seen(m)[p] = "skipped"
  BY <1>1, <1>7 DEF Seen
<1>12. Seen(x) = [Seen(m) EXCEPT ![n] = status]
  BY <1>1, <1>3, <1>6 DEF Seen
<1>13. RunOf(j)!Settle(n, status)
  <2>1. run'[j].aborted \in {run[j].aborted, run[j].aborted \/ (status = "failed" /\ n \in Terminates)}
    BY <1>4, <1>5, <1>6, Zenon DEF m
  <2>2. run'[j].overall = run[j].overall
    BY <1>1, <1>5, <1>6 DEF m
  <2>3. ~\E p \in RunOf(j)!Parents(n) : OutcomeSeen(j)[p] = "skipped"
    BY <1>9, <1>11, SameWords
  <2>4. OutcomeSeen(j)' = [OutcomeSeen(j) EXCEPT ![n] = status]
    BY <1>9, <1>12
  <2> QED  BY <1>10, <2>1, <2>2, <2>3, <2>4 DEF RunOf!Settle
<1> QED  BY <1>3, <1>5, <1>8, <1>13, SameWords DEF RunOf!Next

\* The run ends with its verdict.
LEMMA EndDagEnds ==
  ASSUME IInv, RunInv, NEW j \in Job, EndDag(j)
  PROVE  RunOf(j)!Next /\ RunFits(run'[j])
<1> DEFINE m == run[j]
<1>1. /\ m \in Memory /\ m.dag = "on" /\ m.active = {} /\ m.overall = "none"
      /\ m.aborted \/ Ready(j) = {}
  BY Standing DEF EndDag, RunInv, RunFits
<1>2. PICK overall : overall = Aggregate(j)
  OBVIOUS
<1> DEFINE x == [m EXCEPT !.dag = "ended", !.overall = overall]
<1>3. run'[j] = x
  <2>1. run' = [run EXCEPT ![j] = x]
    BY <1>2 DEF EndDag
  <2> QED  BY <2>1 DEF IInv, Types
<1>4. /\ x.results = m.results /\ x.active = {} /\ x.aborted = m.aborted /\ x.dag = "ended"
      /\ x.overall = overall /\ m.results \in [Node -> {"none"} \cup Settled]
  BY <1>1 DEF Memory
<1> HIDE DEF x
<1>5. RunFits(x)
  BY <1>4 DEF RunFits
<1>6. OutcomeSeen(j) = Seen(m) /\ OutcomeSeen(j)' = Seen(x)
  BY <1>3, SeenIs
<1>7. \A n \in Node : /\ m.results[n] \in Settled => Seen(m)[n] = m.results[n]
                      /\ m.results[n] = "none" => Seen(m)[n] = "idle"
                      /\ m.results[n] \in {"none"} \cup Settled
  <2>1. "none" \notin Settled
    BY Words
  <2> QED  BY <1>1, <1>4, <2>1 DEF Seen
<1>8. overall = IF m.aborted THEN "failed"
                ELSE IF \E n \in Node : m.results[n] = "failed" THEN "partial"
                ELSE IF \E n \in Node : m.results[n] = "waiting" THEN "waiting"
                ELSE "success"
  BY <1>2 DEF Aggregate
<1> DEFINE is(status) == {n \in Node : Seen(m)[n] = status}
<1>9. is("active") = {} /\ \A s \in {"failed", "waiting"} : (is(s) # {} <=> \E n \in Node : m.results[n] = s)
  BY <1>7 DEF Settled, Terminal
<1>10. Ready(j) = {} => {n \in is("idle") : \A p \in Parents(n) : Seen(m)[p] \in Terminal} = {}
  <2> SUFFICES ASSUME NEW n \in is("idle"), \A p \in Parents(n) : Seen(m)[p] \in Terminal
               PROVE  n \in Ready(j)
    OBVIOUS
  <2>1. n \in Node /\ m.results[n] = "none"
    BY <1>7 DEF Settled, Terminal
  <2>2. ASSUME NEW p \in Parents(n)
        PROVE  m.results[p] \in Terminal
    <3>1. p \in Node /\ Seen(m)[p] \in Terminal
      BY ParentsAreNodes
    <3> QED  BY <1>7, <3>1 DEF Terminal
  <2> QED  BY <1>1, <2>1, <2>2 DEF Ready
<1>11. Seen(x) = [n \in Node |-> IF Seen(m)[n] = "idle" THEN "pending" ELSE Seen(m)[n]]
  BY <1>1, <1>4, <1>7 DEF Seen, Settled, Terminal
<1> HIDE DEF m
<1>12. /\ \A s : RunOf(j)!Is(s) = is(s)
       /\ RunOf(j)!Startable = {n \in is("idle") : \A p \in Parents(n) : Seen(m)[p] \in Terminal}
  BY <1>6, SameWords DEF RunOf!Is, RunOf!Startable
<1> HIDE DEF is
<1>13. RunOf(j)!End
  <2>1. run[j].overall = "none" /\ (run[j].aborted \/ RunOf(j)!Startable = {})
    BY <1>1, <1>10, <1>12 DEF m
  <2>2. run'[j].aborted = run[j].aborted /\ run'[j].overall = overall
    BY <1>3, <1>4 DEF m
  <2>3. overall = IF run[j].aborted THEN "failed"
                  ELSE IF RunOf(j)!Is("failed") # {} THEN "partial"
                  ELSE IF RunOf(j)!Is("waiting") # {} THEN "waiting"
                  ELSE "success"
    BY <1>8, <1>9, <1>12 DEF m
  <2>4. OutcomeSeen(j)' = [n \in Node |-> IF OutcomeSeen(j)[n] = "idle" THEN "pending" ELSE OutcomeSeen(j)[n]]
    BY <1>6, <1>11
  <2> QED  BY <1>9, <1>12, <2>1, <2>2, <2>3, <2>4 DEF RunOf!End
<1> QED  BY <1>3, <1>5, <1>13 DEF RunOf!Next

\* Any other step leaves the run of a job as it is or takes it away.
LEMMA RunStays ==
  ASSUME IInv, [Next]_vars, NEW j \in Job
  PROVE  \/ StartDag(j) \/ DagStep(j)
         \/ SameRun(run[j], run'[j]) \/ NoRun(run'[j])
<1>1. run \in [Job -> Memory] /\ run[j] \in Memory
  BY DEF IInv, Types
<1>2. ASSUME NEW k \in Job, k # j, NEW x, run' = [run EXCEPT ![k] = x]
      PROVE  SameRun(run[j], run'[j])
  BY <1>1, <1>2 DEF SameRun
<1>3. ASSUME NEW k \in Job, NEW pc, run' = [run EXCEPT ![k].pc = pc]
      PROVE  SameRun(run[j], run'[j])
  BY <1>1, <1>3 DEF SameRun, Memory
<1>4. ASSUME NEW k \in Job, NEW w \in Worker, Claim(k, w)
      PROVE  SameRun(run[j], run'[j]) \/ NoRun(run'[j])
  <2> DEFINE x == [Idle EXCEPT !.pc = "load", !.worker = w]
  <2>1. run' = [run EXCEPT ![k] = x] /\ NoRun(x)
    BY <1>4 DEF Claim, Idle, NoRun
  <2> HIDE DEF x
  <2>2. k = j => run'[j] = x
    BY <1>1, <2>1
  <2> QED  BY <1>2, <2>1, <2>2
<1>5. ASSUME NEW k \in Job, Stalled(k)
      PROVE  SameRun(run[j], run'[j]) \/ NoRun(run'[j])
  <2>1. run' = [run EXCEPT ![k] = Idle] /\ NoRun(Idle)
    BY <1>5 DEF Stalled, Idle, NoRun
  <2>2. k = j => run'[j] = Idle
    BY <1>1, <2>1
  <2> QED  BY <1>2, <2>1, <2>2
<1>6. ASSUME NEW w \in Worker, Crash(w)
      PROVE  SameRun(run[j], run'[j]) \/ NoRun(run'[j])
  <2>1. run'[j] = run[j] \/ \E pc : run'[j] = [Idle EXCEPT !.pc = pc]
    BY <1>6 DEF Crash
  <2> QED  BY <2>1 DEF SameRun, Idle, NoRun
<1>7. ASSUME NEW k \in Job, k # j, StartDag(k) \/ DagStep(k)
      PROVE  SameRun(run[j], run'[j])
  <2>1. run'[j] = run[j]
    <3>1. CASE StartDag(k)
      BY <1>1, <1>7, <3>1 DEF StartDag
    <3>2. CASE TakeLayer(k)
      BY <1>1, <1>7, <3>2 DEF TakeLayer
    <3>3. ASSUME NEW n \in Node, SettleNode(k, n) PROVE run'[j] = run[j]
      BY <1>1, <1>7, <3>3 DEF SettleNode
    <3>4. CASE EndDag(k)
      BY <1>1, <1>7, <3>4 DEF EndDag
    <3> QED  BY <1>7, <3>1, <3>2, <3>3, <3>4 DEF DagStep
  <2> QED  BY <2>1 DEF SameRun
<1>8. ASSUME NEW k \in Job, LoadRows(k)
      PROVE  SameRun(run[j], run'[j])
  BY <1>1, <1>8 DEF LoadRows, SameRun, Memory
<1>9. ASSUME NEW k \in Job,
             \/ MarkRunning(k) \/ BodyThrows(k) \/ Drain(k) \/ FinalUpdate(k) \/ TimeOut(k)
             \/ Rescue(k) \/ OuterRescue(k) \/ Complete(k)
      PROVE  SameRun(run[j], run'[j])
  <2>1. \E pc : run' = [run EXCEPT ![k].pc = pc]
    BY <1>9 DEF MarkRunning, BodyThrows, Drain, FinalUpdate, TimeOut, Rescue, OuterRescue,
       Complete, Goto
  <2> QED  BY <1>3, <2>1
<1>10. ASSUME \/ \E k \in Job : \E i \in DOMAIN writes[k] : ApplyWrite(k, i)
              \/ \E w \in Worker : WorkerStep(w)
              \/ \E r \in Client, n \in Node :
                   AskRespond(r, n) \/ (\E kind \in Kinds : AskResumeOrSkip(r, kind, n))
              \/ \E r \in Client : HandlerStep(r) \/ Delete(r) \/ ApiCrash(r)
              \/ UNCHANGED vars
       PROVE  SameRun(run[j], run'[j])
  <2>1. run' = run
    BY <1>10 DEF ApplyWrite, WorkerStep, Boot, ReapExecution, MarkReapedRows, AskRespond,
       AskResumeOrSkip, HandlerStep, CheckNode, ResetNode, Requeue, Enqueue, Delete, ApiCrash, vars
  <2> QED  BY <2>1 DEF SameRun
<1> QED  BY <1>4, <1>5, <1>6, <1>7, <1>8, <1>9, <1>10 DEF Next, BodyStep

\* A run that stays as it is does so in DagRun.
LEMMA SameRunIsSeen ==
  ASSUME NEW j \in Job, SameRun(run[j], run'[j])
  PROVE  UNCHANGED RunOf(j)!runVars /\ (RunFits(run[j]) => RunFits(run'[j]))
<1>1. OutcomeSeen(j)' = OutcomeSeen(j)
  BY DEF OutcomeSeen, SameRun
<1> QED  BY <1>1 DEF RunOf!runVars, SameRun, RunFits

\* Every step keeps what a run is, and is one of DagRun's or hidden from it.
LEMMA RunStep ==
  ASSUME IInv, RunInv, [Next]_vars, NEW j \in Job
  PROVE  /\ RunFits(run'[j])
         /\ run[j].dag = "off" /\ run'[j].dag # "off" => RunOf(j)!Init'
         /\ run[j].dag # "off" /\ run'[j].dag # "off" =>
              UNCHANGED RunOf(j)!runVars \/ RunOf(j)!Next
<1>1. CASE StartDag(j)
  <2>1. run[j].dag = "off"
    BY <1>1, Standing DEF StartDag, At, JobFits
  <2> QED  BY <1>1, <2>1, StartDagBegins
<1>2. CASE DagStep(j)
  <2>1. run[j].dag = "on"
    <3>1. TakeLayer(j) => run[j].dag = "on"
      BY DEF TakeLayer
    <3>2. \A n \in Node : SettleNode(j, n) => run[j].dag = "on"
      BY DEF SettleNode
    <3>3. EndDag(j) => run[j].dag = "on"
      BY DEF EndDag
    <3> QED  BY <1>2, <3>1, <3>2, <3>3 DEF DagStep
  <2>2. RunOf(j)!Next /\ RunFits(run'[j])
    BY <1>2, TakeLayerStarts, SettleNodeSettles, EndDagEnds DEF DagStep
  <2> QED  BY <2>1, <2>2
<1>3. CASE SameRun(run[j], run'[j])
  <2>1. RunFits(run[j]) /\ run'[j].dag = run[j].dag
    BY <1>3 DEF RunInv, SameRun
  <2> QED  BY <1>3, <2>1, SameRunIsSeen
<1>4. CASE NoRun(run'[j])
  BY <1>4 DEF NoRun, RunFits
<1> QED  BY <1>1, <1>2, <1>3, <1>4, RunStays

\* At first no job has a run.
LEMMA InitRunInv == Init => RunInv
BY DEF Init, RunInv, RunFits, Idle

\* Each run of executeDag is one of DagRun, whatever crashes, times out and is
\* asked for meanwhile (RunsAreDagRuns).
THEOREM RunsHold == Spec => RunsAreDagRuns
<1> DEFINE Step == \A j \in Job :
                     /\ run[j].dag = "off" /\ run'[j].dag # "off" => RunOf(j)!Init'
                     /\ run[j].dag # "off" /\ run'[j].dag # "off" =>
                          UNCHANGED RunOf(j)!runVars \/ RunOf(j)!Next
<1>1. IInv /\ RunInv /\ [Next]_vars => RunInv' /\ Step
  <2> SUFFICES ASSUME IInv, RunInv, [Next]_vars PROVE RunInv' /\ Step
    OBVIOUS
  <2>1. \A j \in Job : RunFits(run'[j])
    BY RunStep
  <2>2. RunInv'
    BY <2>1 DEF RunInv, RunFits
  <2> QED  BY <2>2, RunStep
<1>2. IInv /\ RunInv /\ [Next]_vars => RunInv' /\ [Step]_vars
  BY <1>1
<1> QED  BY <1>2, InitRunInv, Invariance, PTL DEF Spec, RunsAreDagRuns

-----------------------------------------------------------------------------
(***************************************************************************)
(* One operator: one thing at a time works on the execution.               *)
(***************************************************************************)

\* A step of one job.
LEMMA OneMoves ==
  ASSUME OneInv, NEW j \in Job,
         \A k \in Job \ {j} : job'[k] = job[k] /\ run'[k] = run[k] /\ writes'[k] = writes[k],
         UNCHANGED <<req, boot, crashes>>,
         EndsClean(job'[j].state, run'[j], writes'[j]),
         Busy(j)' => Busy(j) /\ exec' \in NotResumable,
         exec' = exec \/ Busy(j)
  PROVE  OneInv'
<1>1. \A k \in Job : EndsClean(job'[k].state, run'[k], writes'[k])
  BY DEF OneInv
<1>2. \A k \in Job : Busy(k)' => Busy(k)
  BY DEF Busy
<1>3. \A k \in Job : Busy(k)' => exec' \in NotResumable
  BY <1>2 DEF OneInv
<1>4. \A r \in Client : req[r].pc = "enqueue" => exec' \in {"queued", "deleted"}
  BY DEF OneInv, Underway
<1>5. \A k \in Job : Busy(k)' => \A r \in Client : ~Underway(r)'
  BY <1>2 DEF OneInv, Underway
<1> QED  BY <1>1, <1>2, <1>3, <1>4, <1>5 DEF OneInv, EndsClean, Busy, NotResumable, Working

\* A step of the program counter alone.
LEMMA OneGoes ==
  ASSUME IInv, OneInv, NEW j \in Job, NEW pc \in {"start", "final", "thrown", "returned"},
         run' = [run EXCEPT ![j].pc = pc], UNCHANGED <<job, writes, req, boot, crashes>>,
         run[j].pc \in Working, run[j].dag # "on", writes[j] = <<>>,
         exec' = exec \/ exec' \in NotResumable \/ pc = "returned"
  PROVE  OneInv'
<1>1. run \in [Job -> Memory]
  BY DEF IInv, Types
<1>2. /\ run'[j].pc = pc /\ run'[j].dag = run[j].dag
      /\ \A k \in Job \ {j} : run'[k] = run[k]
  BY <1>1 DEF Memory
<1>3. Busy(j) /\ job[j].state = "active"
  BY DEF Busy, OneInv, EndsClean
<1>4. EndsClean(job'[j].state, run'[j], writes'[j])
  BY <1>2, <1>3 DEF EndsClean
<1>5. Busy(j)' => exec' \in NotResumable
  BY <1>2, <1>3 DEF Busy, OneInv, Working
<1> QED  BY <1>2, <1>3, <1>4, <1>5, OneMoves

\* The steps of a job.
LEMMA OneBody ==
  ASSUME IInv, OneInv, OneOperator, NEW j \in Job,
         (\E w \in Worker : Claim(j, w)) \/ BodyStep(j) \/ TimeOut(j) \/ Stalled(j)
  PROVE  OneInv'
<1>1. /\ job \in [Job -> JobState] /\ run \in [Job -> Memory] /\ writes \in [Job -> Seq(Write)]
      /\ JobFits(job[j].state, run[j], writes[j]) /\ EndsClean(job[j].state, run[j], writes[j])
  BY DEF IInv, Types, JobInv, OneInv
<1>2. run[j].pc \in {"idle", "load", "mark", "start"} => run[j].dag = "off" /\ writes[j] = <<>>
  BY <1>1 DEF JobFits
<1>3. run[j].pc \in {"thrown", "returned", "final"} => run[j].dag # "on" /\ writes[j] = <<>>
  BY <1>1 DEF EndsClean
<1>4. exec \in NotResumable \/ ~Busy(j)
  BY DEF OneInv
<1>5. ASSUME NEW w \in Worker, Claim(j, w)
      PROVE  OneInv'
  <2>1. /\ job[j].state = "queued" /\ job'[j].state = "active" /\ run'[j].pc = "load" /\ run'[j].dag = "off"
        /\ writes' = writes /\ exec' = exec /\ UNCHANGED <<req, boot, crashes>>
        /\ \A k \in Job \ {j} : job'[k] = job[k] /\ run'[k] = run[k]
    BY <1>1, <1>5 DEF Claim, Idle, JobState
  <2>2. writes[j] = <<>> /\ Busy(j) /\ exec' \in NotResumable
    BY <1>1, <1>4, <2>1 DEF JobFits, Busy
  <2>3. EndsClean(job'[j].state, run'[j], writes'[j])
    BY <2>1, <2>2 DEF EndsClean
  <2> QED  BY <2>1, <2>2, <2>3, OneMoves
<1>6. CASE LoadRows(j)
  <2>1. /\ run[j].pc = "load" /\ run'[j].pc = "mark" /\ run'[j].dag = run[j].dag
        /\ \A k \in Job \ {j} : run'[k] = run[k]
        /\ UNCHANGED <<exec, job, writes, req, boot, crashes>>
    BY <1>1, <1>6 DEF LoadRows, At, Memory
  <2>2. Busy(j) /\ job[j].state = "active"
    BY <1>1, <2>1 DEF Busy, Working, EndsClean
  <2>3. EndsClean(job'[j].state, run'[j], writes'[j])
    BY <1>2, <2>1, <2>2 DEF EndsClean
  <2> QED  BY <1>4, <2>1, <2>2, <2>3, OneMoves
<1>7. CASE StartDag(j)
  <2>1. /\ run[j].pc = "start" /\ run'[j].pc = "dag"
        /\ \A k \in Job \ {j} : run'[k] = run[k]
        /\ UNCHANGED <<exec, job, writes, req, boot, crashes>>
    BY <1>1, <1>7 DEF StartDag, At, Memory
  <2>2. Busy(j) /\ job[j].state = "active"
    BY <1>1, <2>1 DEF Busy, Working, EndsClean
  <2>3. EndsClean(job'[j].state, run'[j], writes'[j])
    BY <2>1, <2>2 DEF EndsClean
  <2> QED  BY <1>4, <2>1, <2>2, <2>3, OneMoves
<1>8. CASE MarkRunning(j) \/ BodyThrows(j)
  <2>1. PICK pc \in {"start", "thrown"} :
          /\ run' = [run EXCEPT ![j].pc = pc] /\ run[j].pc \in {"mark", "start"}
          /\ UNCHANGED <<job, writes, req, boot, crashes>>
          /\ exec' = exec \/ exec' = "running"
    BY <1>8 DEF MarkRunning, BodyThrows, At, Goto, SetExec
  <2>2. exec' = exec \/ exec' \in NotResumable
    BY <2>1 DEF NotResumable
  <2> QED  BY <1>2, <2>1, <2>2, OneGoes DEF Working
<1>9. CASE Drain(j)
  <2>1. /\ run' = [run EXCEPT ![j].pc = "final"] /\ run[j].pc = "dag" /\ run[j].dag = "ended"
        /\ writes[j] = <<>> /\ exec' = exec /\ UNCHANGED <<job, writes, req, boot, crashes>>
    BY <1>9 DEF Drain, Drained, At, Goto
  <2> QED  BY <2>1, OneGoes DEF Working
<1>10. CASE FinalUpdate(j) \/ OuterRescue(j)
  <2>1. /\ run' = [run EXCEPT ![j].pc = "returned"] /\ run[j].pc \in {"final", "thrown"}
        /\ UNCHANGED <<job, writes, req, boot, crashes>>
    BY <1>10 DEF FinalUpdate, OuterRescue, At, Goto
  <2> QED  BY <1>3, <2>1, OneGoes DEF Working
<1>11. CASE Complete(j)
  <2>1. /\ run[j].pc = "returned" /\ run'[j].pc = "done" /\ job'[j].state = "gone" /\ run'[j].dag = run[j].dag
        /\ \A k \in Job \ {j} : run'[k] = run[k] /\ job'[k] = job[k]
        /\ UNCHANGED <<exec, writes, req, boot, crashes>>
    BY <1>1, <1>11 DEF Complete, At, Goto, Memory, JobState
  <2>2. ~Busy(j)'
    BY <2>1 DEF Busy, Working
  <2>3. EndsClean(job'[j].state, run'[j], writes'[j])
    BY <1>3, <2>1 DEF EndsClean, Working
  <2> QED  BY <2>1, <2>2, <2>3, OneMoves
<1>12. ~TimeOut(j) /\ ~Stalled(j) /\ ~Rescue(j)
  BY <1>1 DEF OneOperator, TimeOut, Stalled, Rescue, At, EndsClean
<1> QED  BY <1>5, <1>6, <1>7, <1>8, <1>9, <1>10, <1>11, <1>12 DEF BodyStep


\* The steps of a run, and its upserts.
LEMMA OneDag ==
  ASSUME IInv, OneInv, NEW j \in Job,
         DagStep(j) \/ \E i \in DOMAIN writes[j] : ApplyWrite(j, i)
  PROVE  OneInv'
<1>1. /\ run \in [Job -> Memory] /\ writes \in [Job -> Seq(Write)]
      /\ JobFits(job[j].state, run[j], writes[j]) /\ EndsClean(job[j].state, run[j], writes[j])
  BY DEF IInv, Types, JobInv, OneInv
<1> DEFINE Kept == /\ UNCHANGED <<exec, job, req, boot, crashes>>
                   /\ \A k \in Job \ {j} : run'[k] = run[k] /\ writes'[k] = writes[k]
                   /\ run'[j].pc = run[j].pc
<1>2. Kept
  <2>1. CASE TakeLayer(j)
    BY <1>1, <2>1 DEF TakeLayer, Memory
  <2>2. ASSUME NEW n \in Node, SettleNode(j, n)
        PROVE  Kept
    BY <1>1, <2>2 DEF SettleNode, Memory
  <2>3. CASE EndDag(j)
    BY <1>1, <2>3 DEF EndDag, Memory
  <2>4. ASSUME NEW i \in DOMAIN writes[j], ApplyWrite(j, i)
        PROVE  Kept
    BY <1>1, <2>4 DEF ApplyWrite
  <2> QED  BY <2>1, <2>2, <2>3, <2>4 DEF DagStep
<1>3. run[j].pc = "dag"
  <2>1. run[j].dag = "on" \/ writes[j] # <<>>
    <3>1. DagStep(j) => run[j].dag = "on"
      BY Zenon DEF DagStep, TakeLayer, SettleNode, EndDag
    <3>2. DOMAIN writes[j] # {} => writes[j] # <<>>
      BY NoneInTurn
    <3> QED  BY <3>1, <3>2
  <2> QED  BY <1>1, <2>1 DEF EndsClean
<1>4. Busy(j) /\ exec \in NotResumable /\ job[j].state = "active"
  BY <1>1, <1>3 DEF Busy, Working, OneInv, EndsClean
<1>5. EndsClean(job'[j].state, run'[j], writes'[j])
  BY <1>2, <1>3, <1>4 DEF EndsClean
<1> QED  BY <1>2, <1>4, <1>5, OneMoves

\* A request, and the job it enqueues.
LEMMA OneRequest ==
  ASSUME IInv, OneInv, OneOperator, NEW r \in Client,
         \/ \E n \in Node : AskRespond(r, n) \/ \E kind \in Kinds : AskResumeOrSkip(r, kind, n)
         \/ HandlerStep(r) \/ Delete(r) \/ ApiCrash(r)
  PROVE  OneInv'
<1>1. /\ job \in [Job -> JobState] /\ req \in [Client -> Asked \cup {NoRequest}]
      /\ \A j \in Job : JobFits(job[j].state, run[j], writes[j])
      /\ exec \in {"queued", "running", "deleted"} \cup Finals
  BY DEF IInv, Types, JobInv
<1>2. UNCHANGED <<run, writes, boot, crashes>> /\ \A s \in Client : s = r
  BY DEF AskRespond, AskResumeOrSkip, HandlerStep, CheckNode, ResetNode, Requeue, Enqueue, Delete,
     ApiCrash, OneOperator
<1>3. req[r].pc # "check" /\ \A n \in Node : ~AskRespond(r, n)
  BY DEF OneInv, OneOperator, AskRespond
<1>4. ASSUME job' = job, req'[r].pc # "check",
             Underway(r)' => \A j \in Job : ~Busy(j),
             exec' = exec \/ exec' \in {"queued", "deleted"},
             req'[r].pc = "enqueue" => exec' \in {"queued", "deleted"}
      PROVE  OneInv'
  <2>1. \A j \in Job : Busy(j)' <=> Busy(j)
    BY <1>2, <1>4 DEF Busy
  <2>2. \A j \in Job : Busy(j) => exec' \in NotResumable
    BY <1>4 DEF OneInv, NotResumable
  <2>3. \A j \in Job : EndsClean(job'[j].state, run'[j], writes'[j])
    BY <1>2, <1>4 DEF OneInv
  <2> QED  BY <1>2, <1>4, <2>1, <2>2, <2>3 DEF OneInv, EndsClean, Busy, NotResumable, Working, Underway
<1>5. ASSUME NEW n \in Node, NEW kind \in Kinds, AskResumeOrSkip(r, kind, n)
      PROVE  OneInv'
  <2>1. /\ job' = job /\ exec' = exec /\ exec \notin NotResumable
        /\ req' = [req EXCEPT ![r] = [pc |-> "reset", kind |-> kind, node |-> n]]
    BY <1>5 DEF AskResumeOrSkip
  <2>2. \A j \in Job : ~Busy(j)
    BY <2>1 DEF OneInv
  <2> QED  BY <1>1, <1>4, <2>1, <2>2
<1>6. CASE ResetNode(r)
  <2>1. /\ job' = job /\ exec' = exec /\ req[r].pc = "reset"
        /\ req'[r].pc \in {"idle", "requeue"}
    BY <1>1, <1>6 DEF ResetNode, Answer, ReqGoto, NoRequest, Asked
  <2> QED  BY <1>4, <2>1 DEF OneInv, Underway
<1>7. CASE Requeue(r)
  <2>1. /\ job' = job /\ exec' \in {"queued", "deleted"} /\ req[r].pc = "requeue"
        /\ req'[r].pc = "enqueue"
    BY <1>1, <1>7 DEF Requeue, SetExec, ReqGoto, NoRequest, Asked
  <2> QED  BY <1>4, <2>1 DEF OneInv, Underway
<1>8. CASE Enqueue(r)
  <2>1. PICK j \in Job : job[j].state = "free" /\ job' = [job EXCEPT ![j].state = "queued"]
    BY <1>8 DEF Enqueue
  <2>2. /\ exec' = exec /\ req[r].pc = "enqueue" /\ req'[r].pc = "idle"
        /\ job'[j].state = "queued" /\ \A k \in Job \ {j} : job'[k] = job[k]
    BY <1>1, <1>8, <2>1 DEF Enqueue, Answer, NoRequest, JobState
  <2>3. exec' \in NotResumable /\ \A k \in Job : ~Busy(k)
    BY <2>2 DEF OneInv, Underway, NotResumable
  <2>4. \A k \in Job : Busy(k)' => k = j
    BY <1>2, <2>2, <2>3 DEF Busy
  <2>5. \A k \in Job : EndsClean(job'[k].state, run'[k], writes'[k])
    <3>1. EndsClean("queued", run[j], writes[j])
      <4>1. run[j].pc \in {"idle", "dead"}
        BY <1>1, <2>1 DEF JobFits
      <4> QED  BY <4>1 DEF OneInv, EndsClean, Working
    <3> QED  BY <1>2, <2>2, <3>1 DEF OneInv
  <2>6. \A s \in Client : ~Underway(s)' /\ req'[s].pc \notin {"check", "enqueue"}
    BY <1>2, <2>2 DEF Underway
  <2> QED  BY <1>2, <2>3, <2>4, <2>5, <2>6 DEF OneInv, EndsClean, Busy, NotResumable, Working, Underway
<1>9. CASE Delete(r)
  <2>1. job' = job /\ req' = req /\ exec' = "deleted"
    BY <1>9 DEF Delete
  <2> QED  BY <1>3, <1>4, <2>1 DEF OneInv, Underway
<1>10. CASE ApiCrash(r)
  <2>1. job' = job /\ exec' = exec /\ req'[r].pc = "died"
    BY <1>1, <1>10 DEF ApiCrash, ReqGoto, NoRequest, Asked
  <2> QED  BY <1>4, <2>1 DEF Underway
<1>11. ~CheckNode(r)
  BY <1>3 DEF CheckNode
<1> QED  BY <1>3, <1>5, <1>6, <1>7, <1>8, <1>9, <1>10, <1>11 DEF HandlerStep

\* Hence one thing at a time works on the execution.
LEMMA OneStep == OneOperator /\ IInv /\ OneInv /\ [Next]_vars => OneInv'
<1> SUFFICES ASSUME OneOperator, IInv, OneInv, [Next]_vars PROVE OneInv'
  OBVIOUS
<1>1. ASSUME NEW w \in Worker
      PROVE  ~WorkerStep(w) /\ ~Crash(w)
  BY DEF OneInv, OneOperator, WorkerStep, Boot, ReapExecution, MarkReapedRows, Crash
<1>2. CASE UNCHANGED vars
  BY <1>2 DEF vars, OneInv, EndsClean, Busy, Working, Underway
<1> QED  BY <1>1, <1>2, OneBody, OneDag, OneRequest DEF Next

\* At the start there is one job and no request.
LEMMA InitOneInv == Init => OneInv
BY DEF Init, OneInv, EndsClean, Busy, Working, Underway, Idle, NoRequest, NotResumable

\* Two runs are never under way (OneRunAtATime).
THEOREM OneRunHolds == OneOperator => (Spec => []OneRunAtATime)
<1> SUFFICES ASSUME OneOperator
             PROVE  Spec => []OneRunAtATime
  OBVIOUS
<1>1. OneInv => OneRunAtATime
  <2> SUFFICES ASSUME OneInv PROVE OneRunAtATime
    OBVIOUS
  <2>1. \A j, k \in Running : j = k
    BY DEF Running, OneInv, EndsClean, Busy, Working
  <2>2. CASE Running = {}
    BY <2>2, FS_EmptySet DEF OneRunAtATime
  <2>3. CASE Running # {}
    <3>1. PICK j \in Running : Running = {j}
      BY <2>1, <2>3
    <3> QED  BY <3>1, FS_Singleton DEF OneRunAtATime
  <2> QED  BY <2>2, <2>3
<1>2. IInv /\ OneInv /\ [Next]_vars => OneInv'
  BY OneStep
<1> QED  BY <1>1, <1>2, InitOneInv, Invariance, PTL DEF Spec


-----------------------------------------------------------------------------
(***************************************************************************)
(* One operator: the rows say what the status says.                        *)
(***************************************************************************)

\* The parts of the invariant in the next state.
LEMMA NextMatchInv ==
  ASSUME \A j \in Job : Truthful(exec', row', run'[j], writes'[j]),
         (\A r \in Client : req'[r].pc \in {"idle", "reset"}) => Matches(exec', row')
  PROVE  MatchInv'
BY DEF MatchInv, Truthful, Matches, Told, Said, Judged, Reached

\* A job that has written nothing yet, or is over, is truthful.
LEMMA SilentIsTruthful ==
  ASSUME NEW e, NEW rows, NEW m, NEW w, m.dag = "off", m.pc \notin {"dag", "final"},
         m.pc \in {"mark", "start"} /\ e # "deleted" => m.loaded = rows
  PROVE  Truthful(e, rows, m, w)
BY DEF Truthful

\* What a run learns is on its way.
LEMMA ToldLearns ==
  ASSUME NEW m, NEW x, NEW S, NEW u, Learns(m, x, S, u), NEW w \in Seq(Write),
         NEW n \in Node, NEW status, Told(n, status, m, w)
  PROVE  Told(n, status, x, w \o u)
<1> DEFINE v == w \o u
<1>1. u \in Seq(Write) /\ Len(w) \in Nat /\ Len(u) \in Nat
  BY DEF Learns
<1>2. /\ Len(v) = Len(w) + Len(u) /\ v \in Seq(Write)
      /\ \A i \in 1 .. Len(w) + Len(u) : v[i] = IF i <= Len(w) THEN w[i] ELSE u[i - Len(w)]
  BY <1>1, ConcatProperties
<1> HIDE DEF v
<1>3. DOMAIN v = 1 .. Len(w) + Len(u) /\ DOMAIN w = 1 .. Len(w) /\ DOMAIN u = 1 .. Len(u)
  BY <1>1, <1>2
<1>4. CASE n \in S
  <2>1. PICK i \in DOMAIN u : u[i] = <<n, Said(x, n)>>
    BY <1>4 DEF Learns
  <2>2. i + Len(w) \in DOMAIN v /\ ~(i + Len(w) <= Len(w)) /\ (i + Len(w)) - Len(w) = i
    BY <1>1, <1>3
  <2>3. v[i + Len(w)] = u[i]
    BY <1>2, <1>3, <2>2
  <2>4. u[i][1] = n /\ u[i][2] = Said(x, n)
    BY <2>1
  <2> QED  BY <2>2, <2>3, <2>4 DEF Told, v
<1>5. CASE n \notin S
  <2>1. Said(x, n) = Said(m, n) /\ \A i \in DOMAIN u : u[i][1] # n
    BY <1>5 DEF Learns
  <2>2. \A i \in DOMAIN w : i \in DOMAIN v /\ v[i] = w[i]
    BY <1>1, <1>2, <1>3
  <2>3. (\A i \in DOMAIN w : w[i][1] # n) => \A i \in DOMAIN v : v[i][1] # n
    <3> SUFFICES ASSUME \A i \in DOMAIN w : w[i][1] # n, NEW i \in DOMAIN v
                 PROVE  v[i][1] # n
      OBVIOUS
    <3>1. CASE i <= Len(w)
      BY <1>1, <1>2, <1>3, <3>1
    <3>2. CASE ~(i <= Len(w))
      <4>1. i - Len(w) \in DOMAIN u /\ v[i] = u[i - Len(w)]
        BY <1>1, <1>2, <1>3, <3>2
      <4> QED  BY <2>1, <4>1
    <3> QED  BY <3>1, <3>2
  <2> QED  BY <2>1, <2>2, <2>3 DEF Told, v
<1> QED  BY <1>4, <1>5

\* What has been told is on disk once its last upsert is applied, in turn.
LEMMA ToldApplied ==
  ASSUME NEW m, NEW w \in Seq(Write), w # <<>>, InTurn(m, w),
         NEW n \in Node, NEW rows \in [Node -> Statuses], Told(n, rows[n], m, w)
  PROVE  Told(n, [rows EXCEPT ![w[1][1]] = w[1][2]][n], m, RemoveAt(w, 1))
<1> DEFINE v == RemoveAt(w, 1)
           rows2 == [rows EXCEPT ![w[1][1]] = w[1][2]]
<1>1. Len(w) \in Nat /\ 1 \in 1 .. Len(w) /\ DOMAIN w = 1 .. Len(w) /\ w[1] \in Write /\ w[1][1] \in Node
  BY DEF Write
<1>2. /\ v \in Seq(Write) /\ Len(v) = Len(w) - 1
      /\ \A k \in 1 .. Len(w) - 1 : v[k] = IF k < 1 THEN w[k] ELSE w[k + 1]
  <2>1. /\ RemoveAt(w, 1) \in Seq(Write) /\ Len(RemoveAt(w, 1)) = Len(w) - 1
        /\ \A k \in 1 .. Len(w) - 1 : RemoveAt(w, 1)[k] = IF k < 1 THEN w[k] ELSE w[k + 1]
    BY <1>1, RemoveAtIs, Zenon
  <2> QED  BY <2>1, Zenon
<1> HIDE DEF v
<1>3. \A k \in DOMAIN v : k + 1 \in DOMAIN w /\ k + 1 # 1 /\ v[k] = w[k + 1]
  BY <1>1, <1>2
<1>4. \A k \in DOMAIN w \ {1} : k - 1 \in DOMAIN v /\ v[k - 1] = w[k]
  BY <1>1, <1>2
<1> SUFFICES ASSUME Said(m, n) # "silent"
             PROVE  \/ \E k \in DOMAIN v : v[k][1] = n /\ v[k][2] = Said(m, n)
                    \/ rows2[n] = Said(m, n) /\ \A k \in DOMAIN v : v[k][1] # n
  BY DEF Told, v
<1>5. CASE \E k \in DOMAIN w \ {1} : w[k][1] = n /\ w[k][2] = Said(m, n)
  BY <1>4, <1>5
<1>6. CASE /\ ~\E k \in DOMAIN w \ {1} : w[k][1] = n /\ w[k][2] = Said(m, n)
           /\ w[1][1] # n
  <2>1. rows[n] = Said(m, n) /\ \A k \in DOMAIN w : w[k][1] # n
    BY <1>1, <1>6 DEF Told
  <2>2. rows2[n] = rows[n]
    BY <1>1, <1>6
  <2> QED  BY <1>3, <2>1, <2>2
<1>7. CASE /\ ~\E k \in DOMAIN w \ {1} : w[k][1] = n /\ w[k][2] = Said(m, n)
           /\ w[1][1] = n
  <2>1. w[1][2] = Said(m, n)
    BY <1>1, <1>7 DEF Told
  <2>2. \A k \in DOMAIN w : w[k][1] = n => w[k][2] = Said(m, n)
    BY <1>1, <1>7, <2>1 DEF InTurn
  <2>3. \A k \in DOMAIN v : v[k][1] # n
    BY <1>3, <1>7, <2>2
  <2>4. rows2[n] = Said(m, n)
    BY <1>1, <1>7, <2>1
  <2> QED  BY <2>3, <2>4
<1> QED  BY <1>5, <1>6, <1>7

\* A run that ends has judged its outcomes and has nothing left to start.
LEMMA EndIsJudged ==
  ASSUME IInv, NEW j \in Job, DagStep(j), run'[j].dag = "ended"
  PROVE  Judged(run'[j]) /\ Reached(run'[j])
<1>1. run \in [Job -> Memory]
  BY DEF IInv, Types
<1>2. ASSUME NEW n \in Node, SettleNode(j, n) PROVE FALSE
  <2>1. PICK status, aborted :
          run' = [run EXCEPT ![j].active = @ \ {n}, ![j].results[n] = status, ![j].aborted = aborted]
    BY <1>2 DEF SettleNode
  <2>2. run'[j].dag = run[j].dag
    BY <1>1, <2>1 DEF Memory
  <2> QED  BY <1>2, <2>2 DEF SettleNode
<1>3. ASSUME TakeLayer(j) PROVE FALSE
  <2>1. PICK closed \in SUBSET (Ready(j) \cap Gated) :
          LET skipped == closed \cup
                           {n \in Ready(j) : \E p \in Parents(n) : run[j].results[p] = "skipped"}
          IN  run' = [run EXCEPT ![j].active = Ready(j) \ skipped,
                        ![j].results = [n \in Node |-> IF n \in skipped THEN "skipped" ELSE @[n]]]
    BY <1>3 DEF TakeLayer
  <2>2. PICK active, results : run' = [run EXCEPT ![j].active = active, ![j].results = results]
    BY <2>1
  <2>3. run'[j].dag = run[j].dag
    BY <1>1, <2>2 DEF Memory
  <2> QED  BY <1>3, <2>3 DEF TakeLayer
<1>4. EndDag(j)
  BY <1>2, <1>3 DEF DagStep
<1>5. /\ run'[j].overall = Aggregate(j) /\ run'[j].aborted = run[j].aborted
      /\ run'[j].results = run[j].results /\ run[j].active = {}
      /\ run[j].aborted \/ Ready(j) = {}
  BY <1>1, <1>4 DEF EndDag, Memory
<1>6. Judged(run'[j])
  BY <1>5 DEF Judged, Aggregate
<1>7. Reached(run'[j])
  BY <1>5 DEF Reached, Ready
<1> QED  BY <1>6, <1>7

\* Nothing is left undone below a success.
LEMMA NothingWaits ==
  ASSUME NEW m \in Memory, Reached(m), ~m.aborted, \A n \in Node : m.results[n] \notin {"failed", "waiting"}
  PROVE  \A n \in Node : m.results[n] \in {"success", "skipped"}
<1> DEFINE S == {n \in Node : m.results[n] = "none"}
<1>1. \A n \in Node : m.results[n] \in {"none", "success", "skipped"}
  BY DEF Memory, Settled, Terminal
<1>2. \A n \in Node : Parents(n) \subseteq Node
  BY DagAssumption DEF Parents
<1>3. \A n \in S : Parents(n) \cap S # {}
  BY <1>1, <1>2 DEF Reached, Terminal
<1>4. S = {}
  BY <1>3, DagAssumption DEF Acyclic
<1> QED  BY <1>1, <1>4

\* What a run that is over has said of each node.
LEMMA LastWord ==
  ASSUME NEW rows, NEW m \in Memory, m.dag = "ended", m.active = {},
         \A n \in Node : Told(n, rows[n], m, <<>>)
  PROVE  \A n \in Node : rows[n] = IF m.results[n] = "none" THEN "pending" ELSE m.results[n]
<1>1. \A n \in Node : Said(m, n) # "silent"
  BY Words DEF Said, Memory
<1>2. \A n \in Node : rows[n] = Said(m, n)
  BY <1>1, NoneInTurn DEF Told
<1> QED  BY <1>2 DEF Said

\* What is on disk when the last UPDATE is sent.
LEMMA VerdictMatches ==
  ASSUME NEW rows, NEW m \in Memory, m.dag = "ended", m.active = {}, Judged(m), Reached(m),
         \A n \in Node : Told(n, rows[n], m, <<>>)
  PROVE  Matches(m.overall, rows)
<1>1. \A n \in Node : rows[n] = IF m.results[n] = "none" THEN "pending" ELSE m.results[n]
  BY LastWord
<1>2. CASE m.overall = "success"
  <2>1. ~m.aborted /\ \A n \in Node : m.results[n] \notin {"failed", "waiting"}
    BY <1>2 DEF Judged
  <2>2. \A n \in Node : m.results[n] \in {"success", "skipped"}
    BY <2>1, NothingWaits
  <2> QED  BY <1>1, <1>2, <2>2 DEF Matches
<1>3. CASE m.overall = "partial"
  BY <1>1, <1>3 DEF Judged, Matches
<1>4. CASE m.overall = "waiting"
  BY <1>1, <1>4 DEF Judged, Matches
<1> QED  BY <1>2, <1>3, <1>4 DEF Matches


\* A step of one job that leaves the rows alone.
LEMMA MatchMoves ==
  ASSUME MatchInv, NEW j \in Job,
         \A k \in Job \ {j} : run'[k] = run[k] /\ writes'[k] = writes[k],
         UNCHANGED <<row, req>>,
         exec' # "deleted" => exec # "deleted",
         exec' = exec \/ Matches(exec', row),
         Truthful(exec', row, run'[j], writes'[j])
  PROVE  MatchInv'
<1>1. \A k \in Job \ {j} : Truthful(exec', row, run[k], writes[k])
  BY DEF MatchInv, Truthful
<1>2. \A k \in Job : Truthful(exec', row', run'[k], writes'[k])
  BY <1>1
<1>3. (\A r \in Client : req'[r].pc \in {"idle", "reset"}) => Matches(exec', row')
  BY DEF MatchInv
<1> QED  BY <1>2, <1>3, NextMatchInv

\* Statuses that say nothing of the rows.
LEMMA NothingToMatch ==
  ASSUME NEW e, e \notin {"success", "partial", "waiting"}, NEW rows
  PROVE  Matches(e, rows)
BY DEF Matches

\* A step of the program counter alone.
LEMMA MatchGoes ==
  ASSUME IInv, MatchInv, NEW j \in Job, NEW pc \in {"start", "final", "thrown", "returned", "done"},
         run' = [run EXCEPT ![j].pc = pc], UNCHANGED <<row, writes, req>>,
         pc = "start" => run[j].pc = "mark", pc = "final" => run[j].pc = "dag",
         exec' # "deleted" => exec # "deleted",
         exec' = exec \/ Matches(exec', row)
  PROVE  MatchInv'
<1>1. run[j] \in Memory /\ run \in [Job -> Memory]
  BY DEF IInv, Types
<1>2. PICK x : x = [run[j] EXCEPT !.pc = pc]
  OBVIOUS
<1>3. /\ x.pc = pc /\ x.loaded = run[j].loaded /\ x.results = run[j].results
      /\ x.active = run[j].active /\ x.aborted = run[j].aborted
      /\ x.dag = run[j].dag /\ x.overall = run[j].overall
  BY <1>1, <1>2 DEF Memory
<1>4. run'[j] = x /\ \A k \in Job \ {j} : run'[k] = run[k]
  BY <1>1, <1>2
<1>5. Truthful(exec', row, x, writes[j])
  BY <1>3 DEF MatchInv, Truthful, Told, Said, Judged, Reached
<1> QED  BY <1>4, <1>5, MatchMoves

\* The steps of a job.
LEMMA MatchBody ==
  ASSUME IInv, OneInv, OneOperator, MatchInv, NEW j \in Job,
         (\E w \in Worker : Claim(j, w)) \/ BodyStep(j) \/ TimeOut(j) \/ Stalled(j)
  PROVE  MatchInv'
<1>1. /\ job \in [Job -> JobState] /\ run \in [Job -> Memory] /\ writes \in [Job -> Seq(Write)]
      /\ row \in [Node -> Statuses]
      /\ JobFits(job[j].state, run[j], writes[j]) /\ EndsClean(job[j].state, run[j], writes[j])
      /\ Truthful(exec, row, run[j], writes[j])
  BY DEF IInv, Types, JobInv, OneInv, MatchInv
<1>2. ASSUME NEW w \in Worker, Claim(j, w)
      PROVE  MatchInv'
  <2>1. /\ run'[j].pc = "load" /\ run'[j].dag = "off" /\ \A k \in Job \ {j} : run'[k] = run[k]
        /\ UNCHANGED <<exec, row, writes, req>>
    BY <1>1, <1>2 DEF Claim, Idle
  <2>2. Truthful(exec', row, run'[j], writes'[j])
    BY <2>1, SilentIsTruthful
  <2> QED  BY <2>1, <2>2, MatchMoves
<1>3. CASE LoadRows(j)
  <2>1. /\ run[j].pc = "load" /\ run'[j].pc = "mark" /\ run'[j].loaded = row /\ run'[j].dag = run[j].dag
        /\ \A k \in Job \ {j} : run'[k] = run[k]
        /\ UNCHANGED <<exec, row, writes, req>>
    BY <1>1, <1>3 DEF LoadRows, At, Memory
  <2>2. run[j].dag = "off"
    BY <1>1, <2>1 DEF JobFits
  <2>3. Truthful(exec', row, run'[j], writes'[j])
    BY <2>1, <2>2, SilentIsTruthful
  <2> QED  BY <2>1, <2>3, MatchMoves
<1>4. CASE StartDag(j)
  <2>1. /\ run[j].pc = "start" /\ run'[j].pc = "dag" /\ run'[j].dag = "on" /\ run'[j].active = run[j].active
        /\ run'[j].results = [n \in Node |-> IF run[j].loaded[n] \in Settled THEN run[j].loaded[n] ELSE "none"]
        /\ \A k \in Job \ {j} : run'[k] = run[k]
        /\ UNCHANGED <<exec, row, writes, req>>
    BY <1>1, <1>4 DEF StartDag, At, Hydrated, Memory
  <2>2. writes[j] = <<>> /\ run[j].active = {} /\ (exec # "deleted" => run[j].loaded = row)
    BY <1>1, <2>1 DEF JobFits, Truthful
  <2>3. ASSUME exec # "deleted", NEW n \in Node
        PROVE  Told(n, row[n], run'[j], <<>>)
    <3>1. run'[j].results[n] = IF row[n] \in Settled THEN row[n] ELSE "none"
      BY <2>1, <2>2, <2>3
    <3>2. Said(run'[j], n) = IF row[n] \in Settled THEN row[n] ELSE "silent"
      BY <2>1, <2>2, <3>1, Words DEF Said
    <3> QED  BY <3>2, NoneInTurn DEF Told
  <2>4. Truthful(exec', row, run'[j], writes'[j])
    BY <2>1, <2>2, <2>3 DEF Truthful
  <2> QED  BY <2>1, <2>4, MatchMoves
<1>5. CASE MarkRunning(j)
  <2>1. /\ run' = [run EXCEPT ![j].pc = "start"] /\ run[j].pc = "mark"
        /\ UNCHANGED <<row, writes, req>>
        /\ exec' = IF exec = "deleted" THEN exec ELSE "running"
    BY <1>5 DEF MarkRunning, At, Goto, SetExec
  <2>2. Matches(exec', row)
    BY <2>1, NothingToMatch
  <2> QED  BY <2>1, <2>2, MatchGoes
<1>6. CASE BodyThrows(j) \/ Drain(j) \/ Complete(j)
  <2>1. PICK pc \in {"thrown", "final", "done"} :
          /\ run' = [run EXCEPT ![j].pc = pc] /\ UNCHANGED <<exec, row, writes, req>>
          /\ pc = "final" => run[j].pc = "dag"
    BY <1>6 DEF BodyThrows, Drain, Drained, Complete, At, Goto
  <2> QED  BY <2>1, MatchGoes
<1>7. CASE FinalUpdate(j)
  <2>1. /\ run' = [run EXCEPT ![j].pc = "returned"] /\ run[j].pc = "final"
        /\ UNCHANGED <<row, writes, req>>
        /\ exec' = IF exec = "deleted" THEN exec ELSE run[j].overall
    BY <1>7 DEF FinalUpdate, At, Goto, SetExec
  <2>2. /\ run[j].dag = "ended" /\ run[j].active = {} /\ writes[j] = <<>>
        /\ Judged(run[j]) /\ Reached(run[j])
    BY <1>1, <2>1 DEF JobFits, EndsClean, Truthful
  <2>3. exec # "deleted" => \A n \in Node : Told(n, row[n], run[j], <<>>)
    BY <1>1, <2>1, <2>2 DEF Truthful
  <2>4. run[j] \in Memory
    BY <1>1
  <2>5. exec = "deleted" \/ Matches(run[j].overall, row)
    BY <2>2, <2>3, <2>4, VerdictMatches
  <2> QED  BY <2>1, <2>5, MatchGoes
<1>8. CASE OuterRescue(j)
  <2>1. /\ run' = [run EXCEPT ![j].pc = "returned"]
        /\ UNCHANGED <<row, writes, req>>
        /\ exec' = exec \/ (exec # "deleted" /\ exec' = "failed")
    BY <1>8 DEF OuterRescue, Goto, SetExec
  <2>2. exec' = exec \/ Matches(exec', row)
    BY <2>1, NothingToMatch
  <2> QED  BY <2>1, <2>2, MatchGoes
<1>9. ~TimeOut(j) /\ ~Stalled(j) /\ ~Rescue(j)
  BY <1>1 DEF OneOperator, TimeOut, Stalled, Rescue, At, EndsClean
<1> QED  BY <1>2, <1>3, <1>4, <1>5, <1>6, <1>7, <1>8, <1>9 DEF BodyStep

\* The steps of a run.
LEMMA MatchDag ==
  ASSUME IInv, MatchInv, NEW j \in Job, DagStep(j)
  PROVE  MatchInv'
<1>1. PICK x, S, u : Speaking(j, x, S, u)
  BY DagSpeaks
<1>2. /\ Learns(run[j], x, S, u) /\ writes \in [Job -> Seq(Write)]
      /\ run'[j] = x /\ writes'[j] = writes[j] \o u
      /\ \A k \in Job \ {j} : run'[k] = run[k] /\ writes'[k] = writes[k]
      /\ UNCHANGED <<exec, row, req>>
  BY <1>1 DEF Speaking, IInv, Types
<1>3. Truthful(exec, row, run[j], writes[j])
  BY DEF MatchInv
<1>4. x.pc = run[j].pc /\ run[j].dag = "on"
  BY <1>2 DEF Learns
<1>5. x.pc \notin {"mark", "start", "final"}
  BY <1>4, Standing DEF JobFits
<1>6. x.pc \in {"dag", "final"} /\ exec # "deleted" =>
        \A n \in Node : Told(n, row[n], x, writes[j] \o u)
  BY <1>2, <1>3, <1>4, ToldLearns DEF Truthful
<1>7. x.dag = "ended" => Judged(x) /\ Reached(x)
  BY <1>2, EndIsJudged
<1>8. Truthful(exec', row, run'[j], writes'[j])
  BY <1>2, <1>5, <1>6, <1>7 DEF Truthful
<1> QED  BY <1>2, <1>8, MatchMoves

\* An upsert is applied while its run is the one thing at work.
LEMMA MatchApply ==
  ASSUME InOrder, IInv, OneInv, MatchInv, NEW j \in Job, NEW i \in DOMAIN writes[j], ApplyWrite(j, i)
  PROVE  MatchInv'
<1>1. /\ run \in [Job -> Memory] /\ writes \in [Job -> Seq(Write)] /\ row \in [Node -> Statuses]
      /\ JobFits(job[j].state, run[j], writes[j])
      /\ \A k \in Job : EndsClean(job[k].state, run[k], writes[k])
  BY DEF IInv, Types, JobInv, OneInv
<1>2. /\ i = 1 /\ writes[j] # <<>>
      /\ row' = IF exec = "deleted" THEN row ELSE [row EXCEPT ![writes[j][1][1]] = writes[j][1][2]]
      /\ writes' = [writes EXCEPT ![j] = RemoveAt(writes[j], 1)]
      /\ UNCHANGED <<exec, run, req>>
  BY NoneInTurn DEF ApplyWrite
<1>3. run[j].pc = "dag" /\ Busy(j) /\ exec \in NotResumable
  BY <1>1, <1>2 DEF EndsClean, Busy, Working, OneInv
<1>4. \A k \in Job \ {j} : run[k].pc \notin {"mark", "start", "dag", "final"}
  BY <1>3 DEF OneInv, Busy, Working
<1>5. InTurn(run[j], writes[j]) /\ writes[j] \in Seq(Write)
  BY <1>1 DEF JobFits
<1>6. Truthful(exec, row, run[j], writes[j])
  BY DEF MatchInv
<1>7. exec # "deleted" => \A n \in Node : Told(n, row'[n], run[j], RemoveAt(writes[j], 1))
  <2>1. exec # "deleted" => \A n \in Node : Told(n, row[n], run[j], writes[j])
    BY <1>3, <1>6 DEF Truthful
  <2> QED  BY <1>1, <1>2, <1>5, <2>1, ToldApplied
<1>8. \A k \in Job : Truthful(exec', row', run'[k], writes'[k])
  <2>1. writes'[j] = RemoveAt(writes[j], 1)
    BY <1>1, <1>2
  <2>2. Truthful(exec', row', run'[j], writes'[j])
    BY <1>2, <1>3, <1>6, <1>7, <2>1 DEF Truthful
  <2>3. \A k \in Job \ {j} : Truthful(exec', row', run'[k], writes'[k])
    BY <1>2, <1>4 DEF Truthful, MatchInv
  <2> QED  BY <2>2, <2>3
<1>9. Matches(exec', row')
  BY <1>2, <1>3, NothingToMatch DEF NotResumable
<1> QED  BY <1>8, <1>9, NextMatchInv

\* A request changes a row only on its way to a new job.
LEMMA MatchRequest ==
  ASSUME IInv, OneInv, OneOperator, MatchInv, NEW r \in Client,
         \/ \E n \in Node : AskRespond(r, n) \/ \E kind \in Kinds : AskResumeOrSkip(r, kind, n)
         \/ HandlerStep(r) \/ Delete(r) \/ ApiCrash(r)
  PROVE  MatchInv'
<1>1. /\ req \in [Client -> Asked \cup {NoRequest}]
      /\ \A j \in Job : Truthful(exec, row, run[j], writes[j])
  BY DEF IInv, Types, MatchInv
<1>2. UNCHANGED <<run, writes>>
  BY DEF AskRespond, AskResumeOrSkip, HandlerStep, CheckNode, ResetNode, Requeue, Enqueue, Delete,
     ApiCrash
<1>3. ASSUME row' = row, exec' # "deleted" => exec # "deleted",
             (\A s \in Client : req'[s].pc \in {"idle", "reset"}) => Matches(exec', row)
      PROVE  MatchInv'
  <2>1. \A j \in Job : Truthful(exec', row', run'[j], writes'[j])
    BY <1>1, <1>2, <1>3 DEF Truthful
  <2> QED  BY <1>3, <2>1, NextMatchInv
<1>4. ASSUME NEW n \in Node, NEW kind \in Kinds, AskResumeOrSkip(r, kind, n)
      PROVE  MatchInv'
  <2>1. /\ row' = row /\ exec' = exec /\ req[r].pc = "idle" /\ \A s \in Client \ {r} : req'[s] = req[s]
    BY <1>1, <1>4 DEF AskResumeOrSkip, MayAsk
  <2>2. (\A s \in Client : req'[s].pc \in {"idle", "reset"}) => Matches(exec, row)
    BY <2>1 DEF MatchInv
  <2> QED  BY <1>3, <2>1, <2>2
<1>5. CASE ResetNode(r)
  <2>1. exec' = exec /\ req[r].pc = "reset" /\ (exec = "deleted" => row' = row)
    BY <1>5 DEF ResetNode
  <2>2. req[r] \in Asked /\ req[r].kind # "respond"
    BY <1>1, <2>1 DEF NoRequest, Asked, OneOperator
  <2>3. req'[r].pc = "requeue"
    BY <1>1, <1>5, <2>2 DEF ResetNode, ReqGoto, Asked
  <2>4. \A j \in Job : run[j].pc \notin {"mark", "start", "dag", "final"}
    BY <2>1 DEF OneInv, Underway, Busy, Working
  <2>5. \A j \in Job : Truthful(exec', row', run'[j], writes'[j])
    BY <1>1, <1>2, <2>4 DEF Truthful
  <2> QED  BY <2>3, <2>5, NextMatchInv
<1>6. CASE Requeue(r)
  <2>1. row' = row /\ req'[r].pc = "enqueue" /\ (exec' # "deleted" => exec # "deleted")
    BY <1>1, <1>6 DEF Requeue, SetExec, ReqGoto, NoRequest, Asked
  <2> QED  BY <1>3, <2>1
<1>7. CASE Enqueue(r)
  <2>1. row' = row /\ exec' = exec /\ exec \in {"queued", "deleted"}
    BY <1>7 DEF Enqueue, OneInv
  <2>2. Matches(exec', row)
    BY <2>1, NothingToMatch
  <2> QED  BY <1>3, <2>1, <2>2
<1>8. CASE Delete(r)
  <2>1. exec' = "deleted" /\ row' = [n \in Node |-> "none"]
    BY <1>8 DEF Delete
  <2>2. Matches(exec', row')
    BY <2>1, NothingToMatch
  <2>3. \A j \in Job : Truthful(exec', row', run'[j], writes'[j])
    BY <1>1, <1>2, <2>1 DEF Truthful
  <2> QED  BY <2>2, <2>3, NextMatchInv
<1>9. CASE ApiCrash(r)
  <2>1. row' = row /\ exec' = exec /\ req'[r].pc = "died"
    BY <1>1, <1>9 DEF ApiCrash, ReqGoto, NoRequest, Asked
  <2> QED  BY <1>3, <2>1
<1>10. ~CheckNode(r) /\ \A n \in Node : ~AskRespond(r, n)
  BY DEF OneInv, OneOperator, AskRespond, CheckNode
<1> QED  BY <1>4, <1>5, <1>6, <1>7, <1>8, <1>9, <1>10 DEF HandlerStep

\* Every step keeps the rows in agreement.
LEMMA MatchStep == OneOperator /\ InOrder /\ IInv /\ OneInv /\ MatchInv /\ [Next]_vars => MatchInv'
<1> SUFFICES ASSUME OneOperator, InOrder, IInv, OneInv, MatchInv, [Next]_vars PROVE MatchInv'
  OBVIOUS
<1>1. ASSUME NEW w \in Worker
      PROVE  ~WorkerStep(w) /\ ~Crash(w)
  BY DEF OneInv, OneOperator, WorkerStep, Boot, ReapExecution, MarkReapedRows, Crash
<1>2. CASE UNCHANGED vars
  BY <1>2, NextMatchInv DEF vars, MatchInv
<1> QED  BY <1>1, <1>2, MatchBody, MatchDag, MatchApply, MatchRequest DEF Next

\* At the start nothing has been said of any node.
LEMMA InitMatchInv == Init => MatchInv
<1> SUFFICES ASSUME Init PROVE MatchInv
  OBVIOUS
<1>1. \A j \in Job : Truthful(exec, row, run[j], writes[j])
  BY DEF Init, Idle, Truthful
<1> QED  BY <1>1, NothingToMatch DEF Init, MatchInv

\* At rest the status says what the rows say (StatusMatchesRows).
THEOREM StatusHolds == OneOperator /\ InOrder => (Spec => []StatusMatchesRows)
<1> SUFFICES ASSUME OneOperator, InOrder
             PROVE  Spec => []StatusMatchesRows
  OBVIOUS
<1>1. MatchInv => StatusMatchesRows
  BY DEF MatchInv, Matches, StatusMatchesRows, AtRest, InHandler, RowsAre, SomeRowIs
<1>2. IInv /\ OneInv /\ [Next]_vars => OneInv'
  BY OneStep
<1>3. IInv /\ OneInv /\ MatchInv /\ [Next]_vars => MatchInv'
  BY MatchStep
<1> QED  BY <1>1, <1>2, <1>3, InitOneInv, InitMatchInv, Invariance, PTL DEF Spec
-----------------------------------------------------------------------------
(***************************************************************************)
(* The page of an execution.                                               *)
(***************************************************************************)

\* The summary and the rows in the next state.
LEMMA NextSummaryInv ==
  ASSUME \A j \in Job : run'[j].pc # "thrown",
         exec' \in Finals /\ (\A r \in Client : req'[r].pc \in {"idle", "reset"}) => summary' = row'
  PROVE  SummaryInv'
BY DEF SummaryInv, Finals

\* A step that ends no run and changes nothing an execution at its end has said.
LEMMA SummaryKeeps ==
  ASSUME SummaryInv, LifeStep,
         \A j \in Job : run'[j].pc = run[j].pc \/ run'[j].pc \notin {"returned", "thrown"},
         exec' \in Finals /\ (\A r \in Client : req'[r].pc \in {"idle", "reset"})
           => exec' = exec /\ row' = row /\ \A r \in Client : req[r].pc \in {"idle", "reset"}
  PROVE  SummaryInv'
<1>1. \A j \in Job : ~Summarises(j)
  BY DEF Summarises, At
<1>2. summary' = summary
  BY <1>1 DEF LifeStep
<1>3. \A j \in Job : run'[j].pc # "thrown"
  BY DEF SummaryInv
<1> QED  BY <1>2, <1>3, NextSummaryInv DEF SummaryInv

\* The last UPDATE of a run, which has settled its upserts, says what is on disk.
LEMMA SummaryEnds ==
  ASSUME IInv, OneInv, MatchInv, SummaryInv, LifeStep, NEW j \in Job, FinalUpdate(j)
  PROVE  SummaryInv'
<1>1. /\ run \in [Job -> Memory] /\ row \in [Node -> Statuses]
      /\ JobFits(job[j].state, run[j], writes[j]) /\ EndsClean(job[j].state, run[j], writes[j])
      /\ Truthful(exec, row, run[j], writes[j])
  BY DEF IInv, Types, JobInv, OneInv, MatchInv
<1>2. /\ run' = [run EXCEPT ![j].pc = "returned"] /\ run[j].pc = "final" /\ row' = row
      /\ exec' = IF exec = "deleted" THEN exec ELSE run[j].overall
  BY DEF FinalUpdate, At, Goto, SetExec
<1>3. run'[j].pc = "returned" /\ \A k \in Job \ {j} : run'[k] = run[k]
  BY <1>1, <1>2 DEF Memory
<1>4. \A k \in Job : run'[k].pc # "thrown"
  BY <1>3 DEF SummaryInv
<1>5. ASSUME exec # "deleted"
      PROVE  summary' = row
  <2>1. \A k \in Job : Summarises(k) <=> k = j
    BY <1>2, <1>3, <1>5 DEF Summarises, At
  <2>2. summary' = Outcome(j)
    BY <2>1 DEF LifeStep
  <2>3. run[j].dag = "ended" /\ run[j].active = {} /\ writes[j] = <<>>
    BY <1>1, <1>2 DEF JobFits, EndsClean
  <2>4. \A n \in Node : Told(n, row[n], run[j], <<>>)
    BY <1>1, <1>2, <1>5, <2>3 DEF Truthful
  <2>5. \A n \in Node : row[n] = IF run[j].results[n] = "none" THEN "pending" ELSE run[j].results[n]
    BY <1>1, <2>3, <2>4, LastWord
  <2>6. row = [n \in Node |-> IF run[j].results[n] = "none" THEN "pending" ELSE run[j].results[n]]
    BY <1>1, <2>5
  <2> QED  BY <2>2, <2>6 DEF Outcome
<1>6. exec = "deleted" => exec' \notin Finals
  BY <1>2 DEF Finals
<1> QED  BY <1>2, <1>4, <1>5, <1>6, NextSummaryInv

\* The other steps of a job.
LEMMA SummaryBody ==
  ASSUME IInv, OneInv, OneOperator, SummaryInv, ~MayThrow, LifeStep, NEW j \in Job,
         (\E w \in Worker : Claim(j, w)) \/ BodyStep(j) \/ DagStep(j) \/ TimeOut(j) \/ Stalled(j),
         ~FinalUpdate(j)
  PROVE  SummaryInv'
<1>1. run \in [Job -> Memory] /\ EndsClean(job[j].state, run[j], writes[j])
  BY DEF IInv, Types, OneInv
<1>2. ~TimeOut(j) /\ ~Stalled(j) /\ ~Rescue(j) /\ ~BodyThrows(j) /\ ~OuterRescue(j)
  BY <1>1 DEF OneOperator, TimeOut, Stalled, Rescue, BodyThrows, OuterRescue, At, EndsClean, SummaryInv
<1>3. ASSUME \/ \E w \in Worker : Claim(j, w)
             \/ LoadRows(j) \/ StartDag(j) \/ MarkRunning(j) \/ Drain(j) \/ Complete(j)
      PROVE  /\ UNCHANGED <<row, req>> /\ exec' \in {exec, "running"}
             /\ run'[j].pc \in {"load", "mark", "dag", "start", "final", "done"}
             /\ \A k \in Job \ {j} : run'[k] = run[k]
  <2>1. CASE \E w \in Worker : Claim(j, w)
    <3>1. PICK w \in Worker : Claim(j, w)
      BY <2>1
    <3>2. PICK m : m = [Idle EXCEPT !.pc = "load", !.worker = w]
      OBVIOUS
    <3>3. m.pc = "load"
      BY <3>2 DEF Idle
    <3>4. run' = [run EXCEPT ![j] = m] /\ UNCHANGED <<row, req, exec>>
      BY <3>1, <3>2 DEF Claim
    <3> QED  BY <1>1, <3>3, <3>4
  <2>2. CASE LoadRows(j)
    BY <1>1, <2>2 DEF LoadRows, Memory
  <2>3. CASE StartDag(j)
    BY <1>1, <2>3 DEF StartDag, Memory
  <2>4. CASE MarkRunning(j)
    BY <1>1, <2>4 DEF MarkRunning, SetExec, Goto, Memory
  <2>5. CASE Drain(j) \/ Complete(j)
    BY <1>1, <2>5 DEF Drain, Complete, Goto, Memory
  <2> QED  BY <1>3, <2>1, <2>2, <2>3, <2>4, <2>5
<1>4. ASSUME DagStep(j)
      PROVE  /\ UNCHANGED <<exec, row, req>> /\ run'[j].pc = run[j].pc
             /\ \A k \in Job \ {j} : run'[k] = run[k]
  BY <1>1, <1>4, DagSpeaks DEF Speaking, Learns
<1>5. "running" \notin Finals
  BY DEF Finals
<1> QED  BY <1>2, <1>3, <1>4, <1>5, SummaryKeeps DEF BodyStep

\* A request changes a row only on its way to a new job, and no other step does.
LEMMA SummaryRest ==
  ASSUME IInv, OneInv, OneOperator, SummaryInv, LifeStep,
         \/ \E j \in Job : \E i \in DOMAIN writes[j] : ApplyWrite(j, i)
         \/ \E r \in Client :
              \/ \E n \in Node : AskRespond(r, n) \/ \E kind \in Kinds : AskResumeOrSkip(r, kind, n)
              \/ HandlerStep(r) \/ Delete(r) \/ ApiCrash(r)
  PROVE  SummaryInv'
<1>1. CASE \E j \in Job : \E i \in DOMAIN writes[j] : ApplyWrite(j, i)
  <2>1. PICK j \in Job : \E i \in DOMAIN writes[j] : ApplyWrite(j, i)
    BY <1>1
  <2>2. writes[j] # <<>> /\ UNCHANGED <<exec, run, req>>
    BY <2>1, NoneInTurn DEF ApplyWrite
  <2>3. exec \in NotResumable
    BY <2>2 DEF OneInv, EndsClean, Busy, Working
  <2>4. exec' \notin Finals
    BY <2>2, <2>3 DEF Finals, NotResumable
  <2> QED  BY <2>2, <2>4, SummaryKeeps
<1>2. ASSUME NEW r \in Client,
             \/ \E n \in Node : AskRespond(r, n) \/ \E kind \in Kinds : AskResumeOrSkip(r, kind, n)
             \/ HandlerStep(r) \/ Delete(r) \/ ApiCrash(r)
      PROVE  SummaryInv'
  <2>1. req \in [Client -> Asked \cup {NoRequest}] /\ run' = run
    BY <1>2 DEF IInv, Types, AskRespond, AskResumeOrSkip, HandlerStep, CheckNode, ResetNode, Requeue,
       Enqueue, Delete, ApiCrash
  <2>2. ASSUME NEW n \in Node, NEW kind \in Kinds, AskResumeOrSkip(r, kind, n)
        PROVE  SummaryInv'
    <3>1. row' = row /\ exec' = exec /\ req[r].pc = "idle" /\ \A s \in Client \ {r} : req'[s] = req[s]
      BY <2>1, <2>2 DEF AskResumeOrSkip, MayAsk
    <3> QED  BY <2>1, <3>1, SummaryKeeps
  <2>3. CASE ResetNode(r)
    <3>1. req[r] \in Asked /\ req[r].kind # "respond"
      BY <2>1, <2>3 DEF ResetNode, NoRequest, Asked, OneOperator
    <3>2. req'[r].pc = "requeue"
      BY <2>1, <2>3, <3>1 DEF ResetNode, ReqGoto, Asked
    <3> QED  BY <2>1, <3>2, SummaryKeeps
  <2>4. CASE Requeue(r)
    <3>1. req'[r].pc = "enqueue"
      BY <2>1, <2>4 DEF Requeue, ReqGoto, NoRequest, Asked
    <3> QED  BY <2>1, <3>1, SummaryKeeps
  <2>5. CASE Enqueue(r)
    <3>1. exec' \in {"queued", "deleted"}
      BY <2>5 DEF Enqueue, OneInv
    <3>2. exec' \notin Finals
      BY <3>1 DEF Finals
    <3> QED  BY <2>1, <3>2, SummaryKeeps
  <2>6. CASE Delete(r)
    <3>1. exec' \notin Finals
      BY <2>6 DEF Delete, Finals
    <3> QED  BY <2>1, <3>1, SummaryKeeps
  <2>7. CASE ApiCrash(r)
    <3>1. req'[r].pc = "died"
      BY <2>1, <2>7 DEF ApiCrash, ReqGoto, NoRequest, Asked
    <3> QED  BY <2>1, <3>1, SummaryKeeps
  <2>8. ~CheckNode(r) /\ \A n \in Node : ~AskRespond(r, n)
    BY DEF OneInv, OneOperator, AskRespond, CheckNode
  <2> QED  BY <1>2, <2>2, <2>3, <2>4, <2>5, <2>6, <2>7, <2>8 DEF HandlerStep
<1> QED  BY <1>1, <1>2

\* Nothing but the execution itself writes the summary.
LEMMA PageLeaves == PageNext => LifeStep \/ UNCHANGED <<vars, summary>>
BY DEF PageNext, Hear, Miss, Poll, Refresh, Ask, ReadExecution, ReadRows, Show, Fail

\* Every step of the execution or of its page keeps the summary in agreement.
LEMMA SummaryStep ==
  OneOperator /\ ~MayThrow /\ IInv /\ OneInv /\ MatchInv /\ SummaryInv /\ [PageNext]_allVars
    => SummaryInv'
<1> SUFFICES ASSUME OneOperator, ~MayThrow, IInv, OneInv, MatchInv, SummaryInv, [PageNext]_allVars
             PROVE  SummaryInv'
  OBVIOUS
<1>1. CASE UNCHANGED <<vars, summary>>
  BY <1>1, NextSummaryInv DEF vars, SummaryInv
<1>2. CASE LifeStep
  <2>1. ASSUME NEW w \in Worker
        PROVE  ~WorkerStep(w) /\ ~Crash(w)
    BY DEF OneInv, OneOperator, WorkerStep, Boot, ReapExecution, MarkReapedRows, Crash
  <2>2. Next
    BY <1>2 DEF LifeStep
  <2> QED  BY <1>2, <2>1, <2>2, SummaryBody, SummaryEnds, SummaryRest DEF Next
<1> QED  BY <1>1, <1>2, PageLeaves DEF allVars, pageVars

\* What is shown of a node of which summary and row agree.
LEMMA ShownIs ==
  ASSUME NEW n \in Node, page.summary[n] = page.rows[n]
  PROVE  Shown(n) = page.rows[n] \/ (page.rows[n] \notin Terminal /\ Shown(n) = live[n])
<1>1. \A s : Rank(s) \in Nat /\ Rank(s) <= 100 /\ (s \in Terminal => Rank(s) = 100)
  BY DEF Rank, Terminal
<1>2. Shown(n) = IF Rank(live[n]) > Rank(page.rows[n]) THEN live[n] ELSE page.rows[n]
  BY <1>1 DEF Shown
<1> QED  BY <1>1, <1>2

\* A page that has the final state of an execution at rest shows each node as its
\* row is, or, if it has not ended, as it last heard of it (ShownIsRow).
THEOREM ShownHolds == OneOperator /\ InOrder /\ ~MayThrow => (PageSpec => []ShownIsRow)
<1> SUFFICES ASSUME OneOperator, InOrder, ~MayThrow
             PROVE  PageSpec => []ShownIsRow
  OBVIOUS
<1>1. PageInit => IInv /\ OneInv /\ MatchInv /\ SummaryInv
  <2>1. PageInit => SummaryInv
    BY DEF PageInit, Init, Idle, SummaryInv, Finals
  <2> QED  BY <2>1, InitIInv, InitOneInv, InitMatchInv DEF PageInit
<1>2. [PageNext]_allVars => [Next]_vars
  BY PageLeaves DEF allVars, LifeStep
<1>3. IInv /\ OneInv /\ MatchInv /\ SummaryInv /\ [PageNext]_allVars
        => IInv' /\ OneInv' /\ MatchInv' /\ SummaryInv'
  BY <1>2, NextIInv, OneStep, MatchStep, SummaryStep
<1>4. SummaryInv => ShownIsRow
  BY ShownIs DEF SummaryInv, ShownIsRow, AtRest, InHandler, UpToDate
<1> QED  BY <1>1, <1>3, <1>4, PTL DEF PageSpec

\* What the execution leaves for the page has the type of what it says.
LEMMA LeavesTypes ==
  ASSUME Types, Types', PageTypes, LifeStep
  PROVE  PageTypes'
<1>1. \A j \in Job : Outcome(j) \in Rows
  BY Words DEF Types, Memory, Outcome, Rows
<1>2. summary' \in Rows
  BY <1>1 DEF LifeStep, PageTypes
<1>3. \A j \in Job : Issued(j) \in Seq(Write)
  <2> SUFFICES ASSUME NEW j \in Job PROVE Issued(j) \in Seq(Write)
    OBVIOUS
  <2>1. writes[j] \in Seq(Write) /\ writes'[j] \in Seq(Write)
    BY DEF Types
  <2> QED  BY <2>1 DEF Issued
<1>4. Events \in Seq(Write)
  BY <1>3, NoneInTurn DEF Events
<1>5. feed' \in Seq(Write)
  BY <1>4 DEF LifeStep, PageTypes
<1> QED  BY <1>2, <1>5 DEF LifeStep, PageTypes

\* A request of the page, in place of another.
LEMMA GetMoves ==
  ASSUME PageTypes, NEW g \in Gets, NEW x \in Awaited, get' = [get EXCEPT ![g] = x],
         UNCHANGED <<summary, live, feed>>, page' \in Shows
  PROVE  PageTypes'
BY DEF PageTypes

\* The page's own steps.
LEMMA PageMoves ==
  ASSUME Types, PageTypes, NEW g \in Gets,
         Poll(g) \/ Refresh(g) \/ ReadExecution(g) \/ ReadRows(g) \/ Show(g) \/ Fail(g)
  PROVE  PageTypes'
<1>1. get[g] \in Awaited /\ get \in [Gets -> Awaited] /\ page \in Shows
  BY DEF PageTypes
<1>2. NoGet \in Awaited
  BY Words DEF NoGet, Nothing, Awaited, Rows, States, Statuses
<1>3. UNCHANGED <<summary, live, feed>>
  BY DEF Poll, Refresh, Ask, ReadExecution, ReadRows, Show, Fail
<1>4. CASE Poll(g) \/ Refresh(g)
  <2>1. PICK x : x = [get[g] EXCEPT !.at = "execution"]
    OBVIOUS
  <2>2. x \in Awaited
    BY <1>1, <2>1 DEF Awaited
  <2>3. get' = [get EXCEPT ![g] = x] /\ page' = page
    BY <1>4, <2>1 DEF Poll, Refresh, Ask
  <2> QED  BY <1>1, <1>3, <2>2, <2>3, GetMoves
<1>5. CASE ReadExecution(g)
  <2>1. PICK x : x = IF exec = "deleted" THEN [NoGet EXCEPT !.at = "failed"]
                     ELSE [get[g] EXCEPT !.at = "rows", !.status = exec, !.summary = summary]
    OBVIOUS
  <2>2. exec # "deleted" => exec \in States
    BY DEF Types, States
  <2>3. summary \in Rows
    BY DEF PageTypes
  <2>4. x \in Awaited
    BY <1>1, <1>2, <2>1, <2>2, <2>3 DEF Awaited
  <2>5. get' = [get EXCEPT ![g] = x] /\ page' = page
    BY <1>5, <2>1 DEF ReadExecution
  <2> QED  BY <1>1, <1>3, <2>4, <2>5, GetMoves
<1>6. CASE ReadRows(g)
  <2>1. PICK x : x = [get[g] EXCEPT !.at = "answered", !.rows = row]
    OBVIOUS
  <2>2. x \in Awaited
    BY <1>1, <2>1 DEF Awaited, Types, Rows
  <2>3. get' = [get EXCEPT ![g] = x] /\ page' = page
    BY <1>1, <1>6, <2>1 DEF ReadRows
  <2> QED  BY <1>1, <1>3, <2>2, <2>3, GetMoves
<1>7. CASE Show(g)
  <2>1. Watch(get[g].status) \in BOOLEAN
    <3>1. page.polling \in BOOLEAN
      BY <1>1 DEF Shows
    <3>2. CASE get[g].status = page.status
      BY <3>1, <3>2 DEF Watch
    <3>3. CASE get[g].status # page.status
      <4>1. Watch(get[g].status) = (get[g].status \in Watched)
        BY <3>3, Zenon DEF Watch
      <4> QED  BY <4>1
    <3> QED  BY <3>2, <3>3
  <2>2. page' \in Shows
    BY <1>1, <1>7, <2>1 DEF Show, Shows, Awaited
  <2>3. get' = [get EXCEPT ![g] = NoGet]
    BY <1>7 DEF Show
  <2> QED  BY <1>2, <1>3, <2>2, <2>3, GetMoves
<1>8. CASE Fail(g)
  <2>1. page' \in Shows
    BY <1>1, <1>8 DEF Fail, Shows
  <2>2. get' = [get EXCEPT ![g] = NoGet]
    BY <1>8 DEF Fail
  <2> QED  BY <1>2, <1>3, <2>1, <2>2, GetMoves
<1> QED  BY <1>4, <1>5, <1>6, <1>7, <1>8

\* Every variable of the page keeps its type.
THEOREM PageTypesHold == PageSpec => []PageTypes
<1>1. PageInit => IInv /\ PageTypes
  <2> SUFFICES ASSUME PageInit PROVE PageTypes
    BY InitIInv DEF PageInit
  <2>1. Nothing \in Rows
    BY DEF Nothing, Rows, Statuses
  <2>2. NoGet \in Awaited /\ [NoGet EXCEPT !.at = "execution"] \in Awaited
    BY <2>1 DEF NoGet, Awaited, States
  <2>3. get \in [Gets -> Awaited]
    BY <2>2 DEF PageInit
  <2>4. page \in Shows
    BY <2>1 DEF PageInit, Shows, States
  <2> QED  BY <2>1, <2>3, <2>4, NoneInTurn DEF PageInit, PageTypes
<1>2. [PageNext]_allVars => [Next]_vars
  BY PageLeaves DEF allVars, LifeStep
<1>3. ASSUME IInv, IInv', PageTypes, [PageNext]_allVars
      PROVE  PageTypes'
  <2>1. CASE LifeStep
    BY <1>3, <2>1, LeavesTypes DEF IInv
  <2>2. CASE Hear
    <3>1. Head(feed) \in Write /\ Tail(feed) \in Seq(Write)
      BY <1>3, <2>2 DEF PageTypes, Hear
    <3>2. live' \in Rows
      BY <1>3, <2>2, <3>1 DEF PageTypes, Hear, Rows, Write
    <3> QED  BY <1>3, <2>2, <3>1, <3>2 DEF PageTypes, Hear
  <2>3. CASE Miss
    <3>1. Tail(feed) \in Seq(Write)
      BY <1>3, <2>3 DEF PageTypes, Miss
    <3> QED  BY <1>3, <2>3, <3>1 DEF PageTypes, Miss
  <2>4. CASE UNCHANGED allVars
    BY <1>3, <2>4 DEF PageTypes, allVars, pageVars
  <2> QED  BY <1>3, <2>1, <2>2, <2>3, <2>4, PageMoves DEF PageNext, IInv
<1>4. IInv /\ PageTypes /\ [PageNext]_allVars => IInv' /\ PageTypes'
  BY <1>2, <1>3, NextIInv
<1> QED  BY <1>1, <1>4, PTL DEF PageSpec
=============================================================================
