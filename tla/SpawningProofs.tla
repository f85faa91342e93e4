--------------------------- MODULE SpawningProofs ---------------------------
(***************************************************************************)
(* The limits on how executions come to be hold for every set of workflows, *)
(* of projects and of concurrent calls, every depth, fan-out and quota.     *)
(***************************************************************************)
EXTENDS Spawning, FiniteSetTheorems, TLAPS

-----------------------------------------------------------------------------
(***************************************************************************)
(* The inductive invariant, in named parts.                                *)
(***************************************************************************)
Kinds == {"execute", "trigger", "manual", "fire"}

RunType == [st : {"free", "queued", "running", "over"}, graph : Graphs \cup {None},
            batch : BOOLEAN, ancestors : SUBSET Graphs,
            fires : Nat, children : Nat, resumes : Nat]
CallType == [at : {"idle", "asked", "cleared", "inserted"}, kind : Kinds \cup {None},
             by : Nat, graph : Graphs \cup {None}, ancestors : SUBSET Graphs,
             new : Nat, abandoned : BOOLEAN]
OriginType == [depth : Nat, chain : SUBSET Graphs, parent : Graphs \cup {None}, cut : BOOLEAN]
TallyType == [created : Nat, lost : Nat, waived : Nat, peak : Nat]

\* Every variable keeps its type.
TypeOK ==
  /\ rows \in 0 .. MaxExecutions
  /\ exec \in [Executions -> RunType]
  /\ job \in [Executions -> (SUBSET Graphs) \cup {None}]
  /\ spawn \in [Slots -> CallType]
  /\ usage \in [Projects -> Nat] /\ bumps \in [Projects -> Nat]
  /\ origin \in [Executions -> OriginType]
  /\ tally \in [Projects -> TallyType]

\* The rows are the executions that have come, each with its workflow.
RowsHaveCome ==
  \A e \in Executions :
    /\ e <= rows => exec[e].graph \in Graphs /\ exec[e].st # "free"
    /\ e > rows => exec[e].st = "free" /\ job[e] = None

\* A call names its workflow; the caller and the new execution are rows.
CallsAreSound ==
  \A s \in Slots : spawn[s].at # "idle" =>
    /\ spawn[s].graph \in Graphs
    /\ spawn[s].kind \in Kinds
    /\ spawn[s].kind = "fire" => spawn[s].by \in 1 .. rows
    /\ spawn[s].at = "inserted" => spawn[s].new \in 1 .. rows

\* Only a fire has a caller.
CallersFire == \A s \in Slots : spawn[s].by # 0 => spawn[s].at # "idle" /\ spawn[s].kind = "fire"

\* Every child of a run was counted as a fire first.
InFlight(e) ==
  {s \in Slots : spawn[s].by = e /\ ~spawn[s].abandoned /\ spawn[s].at \in {"asked", "cleared"}}
FanOutInv ==
  \A e \in Executions : ~exec[e].batch =>
    /\ exec[e].fires <= MaxFires
    /\ exec[e].children + Cardinality(InFlight(e)) <= exec[e].fires

\* The calls in Pending(p): cleared, or inserted and not counted.
OnTheWay(p) == {s \in Slots : (spawn[s].at = "cleared" \/ Uncounted(s)) /\ Project(s) = p}
UncountedOf(p) == {s \in Slots : Uncounted(s) /\ Project(s) = p}

\* Every execution is counted, on its way to be, or lost; the check bounds what
\* is counted or on its way.
QuotaInv ==
  \A p \in Projects :
    /\ tally[p].created
         = usage[p] + bumps[p] + Cardinality(UncountedOf(p)) + tally[p].lost
    /\ usage[p] + bumps[p] + Cardinality(OnTheWay(p))
         <= (Limit(p) - 1) + tally[p].peak + tally[p].waived

\* What a run knows of the chain above it is that chain, unless something cut it.
Knows(e) == ~origin[e].cut /\ ~exec[e].batch /\ exec[e].resumes = 0

\* The graphs of a chain are finitely many, and each comes at most twice.
RowChain(e) ==
  /\ ~origin[e].cut /\ exec[e].resumes = 0 /\ job[e] # None => job[e] = origin[e].chain
  /\ Knows(e) /\ exec[e].st = "running" => exec[e].ancestors = origin[e].chain
  /\ IsFiniteSet(origin[e].chain)
  /\ ~origin[e].cut =>
       /\ exec[e].graph \in origin[e].chain => exec[e].graph = origin[e].parent
       /\ origin[e].depth <= 2 * MaxDepth - 1
       /\ origin[e].depth + (IF exec[e].graph \in origin[e].chain THEN 1 ELSE 0)
            <= 2 * Cardinality(origin[e].chain)

\* A call carries the chain of the execution it is about to insert.
CallChain(s) ==
  /\ spawn[s].at \in {"asked", "cleared"} /\ spawn[s].kind # "fire" => spawn[s].ancestors = {}
  /\ spawn[s].at \in {"asked", "cleared"} /\ spawn[s].kind = "fire" /\ Knows(spawn[s].by) =>
       /\ spawn[s].ancestors = origin[spawn[s].by].chain \cup {exec[spawn[s].by].graph}
       /\ spawn[s].graph \notin origin[spawn[s].by].chain
       /\ Cardinality(origin[spawn[s].by].chain) < MaxDepth
  /\ spawn[s].at = "inserted" /\ ~origin[spawn[s].new].cut
       => spawn[s].ancestors = origin[spawn[s].new].chain

ChainsInv == (\A e \in 1 .. rows : RowChain(e)) /\ (\A s \in Slots : CallChain(s))

IInv == TypeOK /\ RowsHaveCome /\ CallsAreSound /\ CallersFire
          /\ FanOutInv /\ QuotaInv /\ ChainsInv

-----------------------------------------------------------------------------
(***************************************************************************)
(* Type correctness.                                                       *)
(***************************************************************************)
\* The empty records have their types.
LEMMA EmptyRecords ==
  /\ NoRun \in RunType /\ NoRun.st = "free" /\ NoRun.batch = FALSE /\ NoRun.resumes = 0
  /\ NoRun.fires = 0 /\ NoRun.children = 0
  /\ Idle \in CallType /\ Idle.at = "idle" /\ Idle.by = 0 /\ Idle.abandoned = FALSE
  /\ Idle.ancestors = {}
BY DEF NoRun, Idle, RunType, CallType

\* A run that has counted a fire or a child is the same run.
LEMMA RunCounts ==
  ASSUME NEW m \in RunType, NEW x,
         x = [m EXCEPT !.fires = m.fires + 1] \/ x = [m EXCEPT !.children = m.children + 1]
  PROVE  x \in RunType /\ x.graph = m.graph /\ x.st = m.st
BY DEF RunType

\* A call that is abandoned is the same call.
LEMMA Abandoned ==
  ASSUME NEW c \in CallType, NEW x, x = [c EXCEPT !.abandoned = TRUE]
  PROVE  /\ x \in CallType /\ x.at = c.at /\ x.kind = c.kind /\ x.by = c.by /\ x.new = c.new
         /\ x.graph = c.graph /\ x.abandoned = TRUE
BY DEF CallType

\* A tally counts on.
LEMMA TallyCounts ==
  ASSUME NEW t \in TallyType, NEW x,
         x = [t EXCEPT !.created = t.created + 1] \/ x = [t EXCEPT !.lost = t.lost + 1]
  PROVE  x \in TallyType
BY DEF TallyType

\* A run that ends keeps its workflow and forgets its context.
LEMMA GoneIs ==
  ASSUME TypeOK, NEW e \in Executions, NEW st \in {"queued", "over"}
  PROVE  /\ Gone(e, st) \in RunType
         /\ Gone(e, st).st = st /\ Gone(e, st).fires = 0 /\ Gone(e, st).children = 0
         /\ Gone(e, st).graph = exec[e].graph /\ Gone(e, st).batch = exec[e].batch
         /\ Gone(e, st).resumes = exec[e].resumes
<1>1. PICK m \in RunType : m = exec[e]
  BY DEF TypeOK
<1>2. PICK x : x = [m EXCEPT !.st = st, !.ancestors = {}, !.fires = 0, !.children = 0]
  OBVIOUS
<1>3. x \in RunType
  BY <1>2 DEF RunType
<1>4. x.st = st /\ x.fires = 0 /\ x.children = 0
  BY <1>2 DEF RunType
<1>5. x.graph = m.graph /\ x.batch = m.batch /\ x.resumes = m.resumes
  BY <1>2 DEF RunType
<1>6. Gone(e, st) = x
  BY <1>1, <1>2 DEF Gone
<1> QED  BY <1>1, <1>3, <1>4, <1>5, <1>6

\* The types of one call's record, when it moves on.
LEMMA CallMoves ==
  ASSUME TypeOK, NEW s \in Slots, NEW at \in {"idle", "asked", "cleared", "inserted"},
         Goes(s, at) \/ Ends(s)
  PROVE  spawn' \in [Slots -> CallType]
<1>1. spawn \in [Slots -> CallType] /\ Idle \in CallType
  BY EmptyRecords DEF TypeOK
<1>2. PICK x : x = [spawn[s] EXCEPT !.at = at]
  OBVIOUS
<1>3. x \in CallType
  BY <1>1, <1>2 DEF CallType
<1>4. spawn' = [spawn EXCEPT ![s] = x] \/ spawn' = [spawn EXCEPT ![s] = Idle]
  BY <1>2 DEF Goes, Ends
<1> QED  BY <1>1, <1>3, <1>4

\* The projects of sound calls are projects.
LEMMA ProjectsAre ==
  ASSUME CallsAreSound, NEW s \in Slots, spawn[s].at # "idle"
  PROVE  Project(s) \in Projects
BY DEF CallsAreSound, Project, Projects

\* The number of calls on their way is one.
LEMMA PendingIsNat ==
  ASSUME TypeOK, NEW p \in Projects
  PROVE  Pending(p) \in Nat
<1>1. IsFiniteSet({s \in Slots : (spawn[s].at = "cleared" \/ Uncounted(s)) /\ Project(s) = p})
  BY BoundsArePositive, FS_Subset
<1>2. QED  BY <1>1, FS_CardinalityType DEF Pending, TypeOK

Sound == TypeOK /\ RowsHaveCome /\ CallsAreSound /\ CallersFire

\* Runs keep the types, the rows and the calls in order.
LEMMA RunIsSound ==
  ASSUME Sound, NEW e \in Executions, Run(e) PROVE Sound'
<1> USE DEF Sound
<1>1. CASE Claim(e)
  <2>0. PICK known \in SUBSET Graphs : known = IF exec[e].batch THEN {} ELSE job[e]
    BY <1>1 DEF Claim, TypeOK
  <2>1. exec' = [exec EXCEPT ![e].st = "running", ![e].ancestors = known]
    BY <1>1, <2>0, Zenon DEF Claim
  <2>2. exec[e] \in RunType
    BY DEF TypeOK
  <2>3. [exec[e] EXCEPT !.st = "running", !.ancestors = known] \in RunType
    BY <2>0, <2>2 DEF RunType
  <2>4. exec' = [exec EXCEPT ![e] = [exec[e] EXCEPT !.st = "running", !.ancestors = known]]
    BY <2>1 DEF TypeOK
  <2>5. exec' \in [Executions -> RunType]
    BY <2>3, <2>4 DEF TypeOK
  <2>6. TypeOK'
    BY <1>1, <2>5 DEF Claim, TypeOK
  <2>7. \A i \in Executions : exec'[i].graph = exec[i].graph
                              /\ (exec'[i].st = "free" <=> exec[i].st = "free")
    BY <1>1 DEF Claim, TypeOK, RunType
  <2>8. RowsHaveCome' /\ CallsAreSound' /\ CallersFire'
    BY <1>1, <2>7 DEF Claim, RowsHaveCome, CallsAreSound, CallersFire
  <2>9. QED  BY <2>6, <2>8
<1>2. CASE Finish(e)
  <2>1. exec' \in [Executions -> RunType] /\ job' \in [Executions -> (SUBSET Graphs) \cup {None}]
    BY <1>2, GoneIs DEF Finish, TypeOK
  <2>2. ASSUME NEW i \in Slots
        PROVE  /\ spawn'[i] \in CallType
               /\ spawn'[i].at = spawn[i].at /\ spawn'[i].kind = spawn[i].kind
               /\ spawn'[i].by = spawn[i].by /\ spawn'[i].graph = spawn[i].graph
               /\ spawn'[i].new = spawn[i].new
    <3>1. PICK c \in CallType : c = spawn[i]
      BY DEF TypeOK
    <3>2. PICK x : x = [c EXCEPT !.abandoned = TRUE]
      OBVIOUS
    <3>3. spawn'[i] = x \/ spawn'[i] = c
      BY <1>2, <3>1, <3>2 DEF Finish
    <3>4. /\ x \in CallType /\ x.at = c.at /\ x.kind = c.kind /\ x.by = c.by /\ x.new = c.new
          /\ x.graph = c.graph
      BY <3>2, Abandoned
    <3> QED  BY <3>1, <3>3, <3>4
  <2>3. spawn' = [i \in Slots |-> spawn'[i]]
    BY <1>2 DEF Finish
  <2>4. spawn' \in [Slots -> CallType]
    BY <2>2, <2>3
  <2>5. TypeOK'
    BY <1>2, <2>1, <2>4 DEF Finish, TypeOK
  <2>6. \A i \in Executions : exec'[i].graph = exec[i].graph
                              /\ (exec'[i].st = "free" <=> exec[i].st = "free")
    BY <1>2, GoneIs DEF Finish, TypeOK
  <2>7. RowsHaveCome'
    BY <1>2, <2>6 DEF Finish, RowsHaveCome, TypeOK
  <2>8. \A s \in Slots : /\ spawn'[s].at = spawn[s].at /\ spawn'[s].kind = spawn[s].kind
                         /\ spawn'[s].by = spawn[s].by /\ spawn'[s].graph = spawn[s].graph
                         /\ spawn'[s].new = spawn[s].new
    BY <2>2
  <2>9. CallsAreSound' /\ CallersFire'
    BY <1>2, <2>8 DEF Finish, CallsAreSound, CallersFire
  <2>10. QED  BY <2>5, <2>7, <2>9
<1>3. CASE WorkerDies(e)
  <2>1. exec' \in [Executions -> RunType]
    BY <1>3, GoneIs DEF WorkerDies, TypeOK
  <2>2. spawn' \in [Slots -> CallType]
    BY <1>3, EmptyRecords DEF WorkerDies, TypeOK
  <2>3. TypeOK'
    BY <1>3, <2>1, <2>2 DEF WorkerDies, TypeOK
  <2>4. \A i \in Executions : exec'[i].graph = exec[i].graph
                              /\ (exec'[i].st = "free" <=> exec[i].st = "free")
    BY <1>3, GoneIs DEF WorkerDies, TypeOK
  <2>5. RowsHaveCome'
    BY <1>3, <2>4 DEF WorkerDies, RowsHaveCome
  <2>6. CallsAreSound' /\ CallersFire'
    BY <1>3, EmptyRecords DEF WorkerDies, CallsAreSound, CallersFire
  <2>7. QED  BY <2>3, <2>5, <2>6
<1>4. CASE Resume(e)
  <2>1. exec' \in [Executions -> RunType]
    BY <1>4 DEF Resume, TypeOK, RunType
  <2>2. TypeOK'
    BY <1>4, <2>1 DEF Resume, TypeOK
  <2>3. \A i \in Executions : exec'[i].graph = exec[i].graph
                              /\ (exec'[i].st = "free" <=> exec[i].st = "free")
    BY <1>4 DEF Resume, TypeOK, RunType
  <2>4. RowsHaveCome' /\ CallsAreSound' /\ CallersFire'
    BY <1>4, <2>3 DEF Resume, RowsHaveCome, CallsAreSound, CallersFire, TypeOK
  <2>5. QED  BY <2>2, <2>4
<1>5. QED  BY <1>1, <1>2, <1>3, <1>4 DEF Run

\* A change of a few calls alone keeps the calls sound, if they are.
LEMMA CallIsSound ==
  ASSUME Sound, NEW s \in Slots, Call(s) PROVE Sound'
<1> USE DEF Sound
<1>0. rows \in Nat /\ MaxExecutions \in Nat
  BY BoundsArePositive DEF TypeOK
<1>1. ASSUME NEW kind \in {"execute", "trigger", "manual"}, NEW g \in Graphs, Ask(s, kind, g)
      PROVE  Sound'
  <2>1. spawn' \in [Slots -> CallType]
    BY <1>1, EmptyRecords DEF Ask, TypeOK, CallType, Kinds
  <2>2. \A o \in Slots \ {s} : spawn'[o] = spawn[o]
    BY <1>1 DEF Ask, TypeOK
  <2>3. spawn'[s].at = "asked" /\ spawn'[s].graph = g /\ spawn'[s].kind = kind /\ spawn'[s].by = 0
    BY <1>1, EmptyRecords DEF Ask, TypeOK, CallType
  <2>4. QED
    BY <1>1, <2>1, <2>2, <2>3
    DEF Ask, TypeOK, RowsHaveCome, CallsAreSound, CallersFire, Kinds
<1>2. ASSUME NEW e \in Executions, NEW g \in Graphs, Fire(s, e, g) PROVE Sound'
  <2>0. exec \in [Executions -> RunType] /\ exec[e] \in RunType
    BY DEF TypeOK
  <2>1. exec[e].st = "running" /\ e \in Nat \ {0}
    BY <1>2 DEF Fire, Executions
  <2>2. e \in 1 .. rows /\ exec[e].graph \in Graphs
    BY <1>0, <2>1 DEF RowsHaveCome
  <2>3. exec[e].ancestors \in SUBSET Graphs
    BY <2>0 DEF RunType
  <2>4. Handed(e) \in SUBSET Graphs /\ e \in 1 .. rows
    BY <2>2, <2>3 DEF Handed
  <2>5. PICK x : x = [exec[e] EXCEPT !.fires = exec[e].fires + 1]
    OBVIOUS
  <2>6. exec' = exec \/ exec' = [exec EXCEPT ![e] = x]
    BY <1>2, <2>5 DEF Fire
  <2>7. x \in RunType /\ x.graph = exec[e].graph /\ x.st = exec[e].st
    BY <2>0, <2>5, RunCounts
  <2>8. exec' \in [Executions -> RunType]
    BY <2>0, <2>6, <2>7
  <2>9. \A i \in Executions : exec'[i].graph = exec[i].graph /\ exec'[i].st = exec[i].st
    BY <2>0, <2>6, <2>7
  <2>10. CASE spawn' = spawn
    <3>1. UNCHANGED <<rows, job, spawn, usage, bumps, origin, tally>>
      BY <1>2, <2>10 DEF Fire
    <3>2. TypeOK'
      BY <2>8, <3>1 DEF TypeOK
    <3>3. RowsHaveCome' /\ CallsAreSound' /\ CallersFire'
      BY <2>9, <3>1 DEF RowsHaveCome, CallsAreSound, CallersFire
    <3> QED  BY <3>2, <3>3
  <2>11. CASE spawn' = [spawn EXCEPT ![s] = [Idle EXCEPT !.at = "asked", !.kind = "fire", !.by = e,
                                              !.graph = g, !.ancestors = Handed(e)]]
    <3>0. e \in Nat /\ g \in Graphs \cup {None} /\ "fire" \in Kinds \cup {None}
      BY <1>0, <2>4 DEF Kinds
    <3>1. spawn' \in [Slots -> CallType]
      BY <2>4, <2>11, <3>0, EmptyRecords DEF TypeOK, CallType
    <3>2. \A o \in Slots \ {s} : spawn'[o] = spawn[o]
      BY <2>11 DEF TypeOK
    <3>3. spawn'[s].at = "asked" /\ spawn'[s].graph = g /\ spawn'[s].kind = "fire" /\ spawn'[s].by = e
      BY <2>11, EmptyRecords DEF TypeOK, CallType
    <3>4. QED
      BY <1>2, <2>4, <2>8, <2>9, <3>1, <3>2, <3>3
      DEF Fire, TypeOK, RowsHaveCome, CallsAreSound, CallersFire, Kinds
  <2>12. QED  BY <1>2, <2>10, <2>11 DEF Fire
<1>3. ASSUME NEW at \in {"cleared", "inserted"}, Goes(s, at) \/ Ends(s),
             spawn[s].at # "idle", UNCHANGED <<rows, exec>>,
             at = "inserted" => spawn[s].at = "inserted",
             \A e \in Executions : e > rows => job'[e] = job[e]
      PROVE  RowsHaveCome' /\ CallsAreSound' /\ CallersFire'
  <2>1. \A o \in Slots \ {s} : spawn'[o] = spawn[o]
    BY <1>3 DEF Goes, Ends, TypeOK
  <2>2. \/ spawn'[s].at = "idle" /\ spawn'[s].by = 0
        \/ /\ spawn'[s].at = at /\ spawn'[s].kind = spawn[s].kind /\ spawn'[s].by = spawn[s].by
           /\ spawn'[s].graph = spawn[s].graph /\ spawn'[s].new = spawn[s].new
    BY <1>3, EmptyRecords DEF Goes, Ends, TypeOK, CallType
  <2>3. QED  BY <1>3, <2>1, <2>2 DEF RowsHaveCome, CallsAreSound, CallersFire
<1>4. CASE AssertQuota(s) \/ QuotaUnreadable(s)
  <2>1. Goes(s, "cleared") \/ Ends(s)
    BY <1>4 DEF AssertQuota, QuotaUnreadable, Clears
  <2>2. spawn' \in [Slots -> CallType]
    BY <2>1, CallMoves
  <2>3. Project(s) \in Projects /\ Pending(Project(s)) \in Nat
    BY <1>4, ProjectsAre, PendingIsNat DEF AssertQuota, QuotaUnreadable
  <2>4. tally' \in [Projects -> TallyType]
    BY <1>4, <2>3 DEF AssertQuota, QuotaUnreadable, Clears, TypeOK, TallyType
  <2>5. TypeOK'
    BY <1>4, <2>2, <2>4 DEF AssertQuota, QuotaUnreadable, TypeOK
  <2>6. QED  BY <1>3, <1>4, <2>1, <2>5 DEF AssertQuota, QuotaUnreadable
<1>5. ASSUME NEW batch \in BOOLEAN, Insert(s, batch) PROVE Sound'
  <2> DEFINE e == rows + 1
  <2>1. e \in Executions /\ e \in Nat /\ rows' = e /\ Project(s) \in Projects
    BY <1>0, <1>5, ProjectsAre DEF Insert, Executions
  <2>2. OriginOf(s) \in OriginType
    <3>1. CASE spawn[s].kind # "fire"
      BY <3>1 DEF OriginOf, OriginType
    <3>2. CASE spawn[s].kind = "fire"
      <4> DEFINE i == spawn[s].by
      <4>1. i \in Executions /\ exec[i].graph \in Graphs
        BY <1>0, <1>5, <3>2 DEF Insert, CallsAreSound, RowsHaveCome, Executions, TypeOK
      <4>2. PICK c \in BOOLEAN : c = (origin[i].cut \/ exec[i].batch \/ exec[i].resumes > 0)
        OBVIOUS
      <4>3. OriginOf(s) = [depth |-> origin[i].depth + 1, chain |-> origin[i].chain \cup {exec[i].graph},
                           parent |-> exec[i].graph, cut |-> c]
        BY <3>2, <4>2 DEF OriginOf
      <4>4. QED  BY <4>1, <4>3 DEF TypeOK, OriginType
    <3>3. QED  BY <3>1, <3>2
  <2>3. origin' \in [Executions -> OriginType]
    BY <1>5, <2>2 DEF Insert, TypeOK
  <2>4. spawn[s] \in CallType
    BY DEF TypeOK
  <2>5. [spawn[s] EXCEPT !.at = "inserted", !.new = e] \in CallType
    BY <2>1, <2>4 DEF CallType
  <2>6. spawn' = [spawn EXCEPT ![s] = [spawn[s] EXCEPT !.at = "inserted", !.new = e]]
    BY <1>5 DEF Insert, TypeOK
  <2>7. spawn' \in [Slots -> CallType]
    BY <2>5, <2>6 DEF TypeOK
  <2>8. bumps' \in [Projects -> Nat]
    BY <1>5, <2>1 DEF Insert, TypeOK
  <2>9. tally \in [Projects -> TallyType] /\ tally[Project(s)] \in TallyType
    BY <2>1 DEF TypeOK
  <2>10. PICK x : x = [tally[Project(s)] EXCEPT !.created = tally[Project(s)].created + 1]
    OBVIOUS
  <2>11. tally' = [tally EXCEPT ![Project(s)] = x] /\ x \in TallyType
    BY <1>5, <2>9, <2>10, TallyCounts DEF Insert
  <2>12. bumps' \in [Projects -> Nat] /\ tally' \in [Projects -> TallyType]
    BY <2>1, <2>8, <2>9, <2>11
  <2>13. spawn[s].graph \in Graphs
    BY <1>5 DEF Insert, CallsAreSound
  <2>14. [NoRun EXCEPT !.st = "queued", !.graph = spawn[s].graph, !.batch = batch] \in RunType
    BY <2>13, EmptyRecords DEF RunType
  <2>15. \A i \in Executions : [exec[i] EXCEPT !.children = @ + 1] \in RunType
    BY RunCounts DEF TypeOK
  <2>16. exec' \in [Executions -> RunType]
    BY <1>5, <2>14, <2>15 DEF Insert, TypeOK
  <2>17. TypeOK'
    BY <1>0, <1>5, <2>1, <2>3, <2>7, <2>12, <2>16 DEF Insert, TypeOK, Executions
  <2>18. /\ exec'[e].graph = spawn[s].graph /\ exec'[e].st = "queued"
         /\ \A i \in Executions \ {e} : exec'[i].graph = exec[i].graph /\ exec'[i].st = exec[i].st
    BY <1>5, <2>1, EmptyRecords DEF Insert, TypeOK, RunType
  <2>19. RowsHaveCome'
    BY <1>0, <1>5, <2>1, <2>13, <2>18 DEF Insert, RowsHaveCome, Executions
  <2>20. \A o \in Slots \ {s} : spawn'[o] = spawn[o]
    BY <1>5 DEF Insert, TypeOK
  <2>21. /\ spawn'[s].at = "inserted" /\ spawn'[s].new = e /\ spawn'[s].by = spawn[s].by
         /\ spawn'[s].kind = spawn[s].kind /\ spawn'[s].graph = spawn[s].graph
    BY <1>5 DEF Insert, TypeOK, CallType
  <2>22. 1 .. rows \subseteq 1 .. rows' /\ e \in 1 .. rows'
    BY <1>0, <2>1
  <2>23. spawn[s].at = "cleared"
    BY <1>5 DEF Insert
  <2>24. CallersFire'
    BY <2>20, <2>21, <2>23 DEF CallersFire
  <2>25. CallsAreSound'
    BY <2>20, <2>21, <2>22, <2>23 DEF CallsAreSound
  <2>26. CallsAreSound' /\ CallersFire'
    BY <2>24, <2>25
  <2>27. QED  BY <2>17, <2>19, <2>26
<1>6. CASE Enqueue(s)
  <2>1. Project(s) \in Projects /\ spawn[s].new \in 1 .. rows /\ spawn[s].ancestors \in SUBSET Graphs
    BY <1>6, ProjectsAre DEF Enqueue, CallsAreSound, TypeOK, CallType
  <2>2. spawn' \in [Slots -> CallType]
    BY <1>6, CallMoves DEF Enqueue
  <2>3. job' \in [Executions -> (SUBSET Graphs) \cup {None}]
    BY <1>6, <2>1 DEF Enqueue, TypeOK
  <2>4. bumps' \in [Projects -> Nat]
    BY <1>6, <2>1 DEF Enqueue, TypeOK
  <2>5. TypeOK'
    BY <1>6, <2>2, <2>3, <2>4 DEF Enqueue, TypeOK
  <2>6. \A e \in Executions : e > rows => job'[e] = job[e]
    BY <1>0, <1>6, <2>1 DEF Enqueue, TypeOK, Executions
  <2>7. QED  BY <1>3, <1>6, <2>5, <2>6 DEF Enqueue
<1>7. CASE Drop(s)
  <2>1. spawn' \in [Slots -> CallType]
    BY <1>7, CallMoves DEF Drop
  <2>2. Uncounted(s) => Project(s) \in Projects
    BY ProjectsAre DEF Uncounted
  <2>3. tally' \in [Projects -> TallyType]
    BY <1>7, <2>2 DEF Drop, TypeOK, TallyType
  <2>4. TypeOK'
    BY <1>7, <2>1, <2>3 DEF Drop, TypeOK
  <2>5. CASE spawn[s].at # "idle"
    BY <1>3, <1>7, <2>4, <2>5 DEF Drop
  <2>6. CASE spawn[s].at = "idle"
    <3>1. \A o \in Slots : spawn'[o] = IF o = s THEN Idle ELSE spawn[o]
      BY <1>7 DEF Drop, Ends, TypeOK
    <3>2. QED
      BY <1>7, <2>4, <3>1, EmptyRecords DEF Drop, RowsHaveCome, CallsAreSound, CallersFire
  <2>7. QED  BY <2>5, <2>6
<1>8. QED  BY <1>1, <1>2, <1>4, <1>5, <1>6, <1>7 DEF Call

\* The quota's counters move alone.
LEMMA IncrementIsSound ==
  ASSUME Sound, NEW p \in Projects, IncrementUsage(p) PROVE Sound'
<1>1. bumps' \in [Projects -> Nat] /\ usage' \in [Projects -> Nat]
  BY DEF Sound, IncrementUsage, TypeOK
<1>2. tally \in [Projects -> TallyType] /\ tally[p] \in TallyType
  BY DEF Sound, TypeOK
<1>3. PICK x : x = [tally[p] EXCEPT !.lost = tally[p].lost + 1]
  OBVIOUS
<1>4. tally' = tally \/ tally' = [tally EXCEPT ![p] = x]
  BY <1>3 DEF IncrementUsage
<1>5. x \in TallyType
  BY <1>2, <1>3, TallyCounts
<1>6. bumps' \in [Projects -> Nat] /\ usage' \in [Projects -> Nat] /\ tally' \in [Projects -> TallyType]
  BY <1>1, <1>2, <1>4, <1>5
<1>7. QED
  BY <1>6 DEF Sound, IncrementUsage, TypeOK, RowsHaveCome, CallsAreSound, CallersFire

-----------------------------------------------------------------------------
(***************************************************************************)
(* Counting calls.                                                         *)
(***************************************************************************)
\* The number of calls of some kind, when a call joins or leaves them.
LEMMA CallCounts ==
  ASSUME NEW S \in SUBSET Slots, NEW T \in SUBSET Slots, NEW s
  PROVE  /\ Cardinality(S) \in Nat /\ Cardinality(T) \in Nat
         /\ T \subseteq S => Cardinality(T) <= Cardinality(S)
         /\ T \subseteq S \cup {s} => Cardinality(T) <= Cardinality(S) + 1
         /\ s \in S /\ T \subseteq S \ {s} => Cardinality(T) <= Cardinality(S) - 1
         /\ s \notin S /\ T = S \cup {s} => Cardinality(T) = Cardinality(S) + 1
         /\ s \in S /\ T = S \ {s} => Cardinality(T) = Cardinality(S) - 1
<1>1. IsFiniteSet(S) /\ IsFiniteSet(T)
  BY BoundsArePositive, FS_Subset
<1>2. Cardinality(S) \in Nat /\ Cardinality(T) \in Nat
  BY <1>1, FS_CardinalityType
<1>3. T \subseteq S => Cardinality(T) <= Cardinality(S)
  BY <1>1, FS_Subset
<1>4. /\ IsFiniteSet(S \cup {s})
      /\ Cardinality(S \cup {s}) = IF s \in S THEN Cardinality(S) ELSE Cardinality(S) + 1
  BY <1>1, FS_AddElement
<1>5. /\ IsFiniteSet(S \ {s})
      /\ Cardinality(S \ {s}) = IF s \in S THEN Cardinality(S) - 1 ELSE Cardinality(S)
  BY <1>1, FS_RemoveElement
<1>6. T \subseteq S \cup {s} => Cardinality(T) <= Cardinality(S \cup {s})
  BY <1>4, FS_Subset
<1>7. T \subseteq S \ {s} => Cardinality(T) <= Cardinality(S \ {s})
  BY <1>5, FS_Subset
<1>8. s \notin S /\ T = S \cup {s} => Cardinality(T) = Cardinality(S) + 1
  BY <1>4
<1>9. s \in S /\ T = S \ {s} => Cardinality(T) = Cardinality(S) - 1
  BY <1>5
<1>10. T \subseteq S \cup {s} => Cardinality(T) <= Cardinality(S) + 1
  BY <1>2, <1>4, <1>6
<1>11. s \in S /\ T \subseteq S \ {s} => Cardinality(T) <= Cardinality(S) - 1
  BY <1>2, <1>5, <1>7
<1>12. QED  BY <1>2, <1>3, <1>8, <1>9, <1>10, <1>11

-----------------------------------------------------------------------------
(***************************************************************************)
(* The fan-out of a run.                                                   *)
(***************************************************************************)
\* The part of FanOutInv that speaks of one execution.
FanOutOf(e) ==
  ~exec[e].batch =>
    /\ exec[e].fires <= MaxFires
    /\ exec[e].children + Cardinality(InFlight(e)) <= exec[e].fires

\* A step that adds no fire in flight and changes neither count keeps the bound.
LEMMA FanOutSame ==
  ASSUME TypeOK, NEW e \in Executions, FanOutOf(e),
         exec'[e].batch = exec[e].batch, exec'[e].fires = exec[e].fires,
         exec'[e].children = exec[e].children, InFlight(e)' \subseteq InFlight(e)
  PROVE  FanOutOf(e)'
<1>1. InFlight(e) \in SUBSET Slots /\ InFlight(e)' \in SUBSET Slots
  BY DEF InFlight
<1>2. /\ Cardinality(InFlight(e)) \in Nat /\ Cardinality(InFlight(e)') \in Nat
      /\ Cardinality(InFlight(e)') <= Cardinality(InFlight(e))
  BY <1>1, CallCounts
<1>3. exec[e].fires \in Nat /\ exec[e].children \in Nat
  BY DEF TypeOK, RunType
<1>4. QED  BY <1>2, <1>3 DEF FanOutOf

\* A run that ends has no fire in flight that counts for it.
LEMMA FanOutRun ==
  ASSUME Sound, FanOutInv, NEW r \in Executions, Run(r) PROVE FanOutInv'
<1> SUFFICES ASSUME NEW e \in Executions PROVE FanOutOf(e)'
  BY DEF FanOutInv, FanOutOf
<1>0. TypeOK /\ FanOutOf(e) /\ exec \in [Executions -> RunType] /\ MaxFires \in Nat
  BY BoundsArePositive DEF Sound, TypeOK, FanOutInv, FanOutOf
<1>1. CASE Claim(r) \/ Resume(r)
  <2>1. /\ exec'[e].batch = exec[e].batch /\ exec'[e].fires = exec[e].fires
        /\ exec'[e].children = exec[e].children
    BY <1>0, <1>1 DEF Claim, Resume, RunType
  <2>2. InFlight(e)' = InFlight(e)
    BY <1>1 DEF InFlight, Claim, Resume
  <2>3. QED  BY <1>0, <2>1, <2>2, FanOutSame
<1>2. CASE (Finish(r) \/ WorkerDies(r)) /\ e # r
  <2>1. exec'[e] = exec[e]
    BY <1>0, <1>2 DEF Finish, WorkerDies
  <2>2. InFlight(e)' \subseteq InFlight(e)
    BY <1>2, EmptyRecords DEF InFlight, Finish, WorkerDies, Sound, TypeOK, CallType
  <2>3. QED  BY <1>0, <2>1, <2>2, FanOutSame
<1>3. CASE (Finish(r) \/ WorkerDies(r)) /\ e = r
  <2>1. exec'[e].fires = 0 /\ exec'[e].children = 0
    BY <1>0, <1>3, GoneIs DEF Finish, WorkerDies
  <2>2. InFlight(e)' = {}
    BY <1>3, EmptyRecords DEF InFlight, Finish, WorkerDies, Sound, TypeOK, CallType
  <2>3. QED  BY <1>0, <2>1, <2>2, FS_EmptySet DEF FanOutOf
<1>4. QED  BY <1>1, <1>2, <1>3 DEF Run

\* A fire is counted before it is in flight; its INSERT takes it out of flight.
LEMMA FanOutCall ==
  ASSUME Sound, FanOutInv, NEW s \in Slots, Call(s) PROVE FanOutInv'
<1> SUFFICES ASSUME NEW e \in Executions PROVE FanOutOf(e)'
  BY DEF FanOutInv, FanOutOf
<1>0. /\ TypeOK /\ FanOutOf(e) /\ exec \in [Executions -> RunType] /\ MaxFires \in Nat
      /\ e \in Nat \ {0} /\ exec[e].fires \in Nat /\ exec[e].children \in Nat
      /\ spawn \in [Slots -> CallType]
  <2>1. TypeOK /\ FanOutOf(e) /\ exec \in [Executions -> RunType] /\ spawn \in [Slots -> CallType]
    BY DEF Sound, TypeOK, FanOutInv, FanOutOf
  <2>2. exec[e] \in RunType
    BY <2>1
  <2> QED  BY <2>1, <2>2, BoundsArePositive DEF Executions, RunType
<1>1. ASSUME NEW kind \in {"execute", "trigger", "manual"}, NEW g \in Graphs, Ask(s, kind, g)
      PROVE  FanOutOf(e)'
  <2>1. \A o \in Slots : spawn'[o].by = 0 \/ spawn'[o] = spawn[o]
    BY <1>0, <1>1, EmptyRecords DEF Ask, CallType
  <2>2. InFlight(e)' \subseteq InFlight(e)
    BY <1>0, <2>1 DEF InFlight
  <2>3. QED  BY <1>0, <1>1, <2>2, FanOutSame DEF Ask
<1>2. ASSUME NEW r \in Executions, NEW g \in Graphs, Fire(s, r, g) PROVE FanOutOf(e)'
  <2>1. /\ InFlight(e) \in SUBSET Slots /\ InFlight(e)' \in SUBSET Slots
        /\ InFlight(e)' \subseteq InFlight(e) \cup {s}
    BY <1>0, <1>2 DEF InFlight, Fire
  <2>2. CASE e = r /\ ~exec[e].batch
    <3>1. /\ exec'[e].fires = exec[e].fires + 1 /\ exec'[e].children = exec[e].children
          /\ exec[e].fires < MaxFires
      BY <1>0, <1>2, <2>2 DEF Fire, WithinFanOut, RunType
    <3>2. /\ Cardinality(InFlight(e)) \in Nat /\ Cardinality(InFlight(e)') \in Nat
          /\ Cardinality(InFlight(e)') <= Cardinality(InFlight(e)) + 1
      BY <2>1, CallCounts
    <3>3. QED  BY <1>0, <2>2, <3>1, <3>2 DEF FanOutOf
  <2>3. CASE e = r /\ exec[e].batch
    BY <1>2, <2>3 DEF Fire, FanOutOf
  <2>4. CASE e # r
    <3>1. exec'[e] = exec[e]
      BY <1>0, <1>2, <2>4 DEF Fire
    <3>2. \A o \in Slots : spawn'[o].by = r \/ spawn'[o] = spawn[o]
      BY <1>0, <1>2, EmptyRecords DEF Fire, CallType
    <3>3. InFlight(e)' \subseteq InFlight(e)
      BY <2>4, <3>2 DEF InFlight
    <3>4. QED  BY <1>0, <3>1, <3>3, FanOutSame
  <2>5. QED  BY <2>2, <2>3, <2>4
<1>3. ASSUME UNCHANGED exec, Goes(s, "cleared") \/ Ends(s), spawn[s].at = "asked" \/ Ends(s)
      PROVE  FanOutOf(e)'
  <2>1. InFlight(e)' \subseteq InFlight(e)
    BY <1>0, <1>3, EmptyRecords DEF InFlight, Goes, Ends, CallType
  <2>2. QED  BY <1>0, <1>3, <2>1, FanOutSame
<1>4. CASE AssertQuota(s) \/ QuotaUnreadable(s) \/ Enqueue(s) \/ Drop(s)
  BY <1>3, <1>4 DEF AssertQuota, QuotaUnreadable, Clears, Enqueue, Drop
<1>5. ASSUME NEW batch \in BOOLEAN, Insert(s, batch) PROVE FanOutOf(e)'
  <2>1. /\ InFlight(e) \in SUBSET Slots /\ InFlight(e)' \in SUBSET Slots
        /\ InFlight(e)' \subseteq InFlight(e) \ {s}
    BY <1>0, <1>5 DEF InFlight, Insert, CallType
  <2>2. CASE e = rows + 1
    <3>1. exec'[e].fires = 0 /\ exec'[e].children = 0
      BY <1>0, <1>5, <2>2, EmptyRecords DEF Insert, RunType
    <3>2. InFlight(e) = {}
      BY <1>0, <2>2 DEF InFlight, Sound, CallsAreSound, CallersFire, TypeOK
    <3>3. InFlight(e)' = {}
      BY <2>1, <3>2
    <3>4. QED  BY <1>0, <3>1, <3>3, FS_EmptySet DEF FanOutOf
  <2>3. CASE e # rows + 1 /\ s \in InFlight(e)
    <3>1. /\ exec'[e].fires = exec[e].fires /\ exec'[e].children = exec[e].children + 1
          /\ exec'[e].batch = exec[e].batch
      BY <1>0, <1>5, <2>3 DEF Insert, InFlight, RunType
    <3>2. /\ Cardinality(InFlight(e)) \in Nat /\ Cardinality(InFlight(e)') \in Nat
          /\ Cardinality(InFlight(e)') <= Cardinality(InFlight(e)) - 1
      BY <2>1, <2>3, CallCounts
    <3>3. QED  BY <1>0, <3>1, <3>2 DEF FanOutOf
  <2>4. CASE e # rows + 1 /\ s \notin InFlight(e)
    <3>1. ~(e = spawn[s].by /\ ~spawn[s].abandoned)
      BY <1>5, <2>4 DEF Insert, InFlight
    <3>2. exec'[e] = exec[e]
      BY <1>5, <2>4, <3>1 DEF Insert
    <3>3. QED  BY <1>0, <2>1, <3>2, FanOutSame
  <2>5. QED  BY <2>2, <2>3, <2>4
<1>6. QED  BY <1>1, <1>2, <1>4, <1>5 DEF Call

-----------------------------------------------------------------------------
(***************************************************************************)
(* The slack of the quota.                                                 *)
(***************************************************************************)
\* The part of QuotaInv that speaks of one project.
QuotaOf(p) ==
  /\ tally[p].created
       = usage[p] + bumps[p] + Cardinality(UncountedOf(p)) + tally[p].lost
  /\ usage[p] + bumps[p] + Cardinality(OnTheWay(p))
       <= (Limit(p) - 1) + tally[p].peak + tally[p].waived

\* Everything that is counted is a number.
LEMMA QuotaNumbers ==
  ASSUME TypeOK, NEW p \in Projects
  PROVE  /\ Limit(p) \in Nat \ {0} /\ usage[p] \in Nat /\ bumps[p] \in Nat
         /\ tally[p].created \in Nat /\ tally[p].lost \in Nat
         /\ tally[p].waived \in Nat /\ tally[p].peak \in Nat
         /\ OnTheWay(p) \in SUBSET Slots /\ UncountedOf(p) \in SUBSET Slots
         /\ Cardinality(OnTheWay(p)) \in Nat /\ Cardinality(UncountedOf(p)) \in Nat
         /\ Pending(p) = bumps[p] + Cardinality(OnTheWay(p))
<1>1. OnTheWay(p) \in SUBSET Slots /\ UncountedOf(p) \in SUBSET Slots
  BY DEF OnTheWay, UncountedOf
<1>2. Limit(p) \in Nat \ {0}
  BY BoundsArePositive DEF Projects
<1>3. Pending(p) = bumps[p] + Cardinality(OnTheWay(p))
  BY DEF Pending, OnTheWay
<1>4. QED  BY <1>1, <1>2, <1>3, CallCounts DEF TypeOK, TallyType

\* A step that counts nothing keeps the account, if no call is cleared in it.
LEMMA QuotaSame ==
  ASSUME TypeOK, TypeOK', NEW p \in Projects, QuotaOf(p),
         usage'[p] = usage[p], bumps'[p] = bumps[p], tally'[p] = tally[p],
         UncountedOf(p)' = UncountedOf(p), OnTheWay(p)' \subseteq OnTheWay(p)
  PROVE  QuotaOf(p)'
<1>1. Cardinality(OnTheWay(p)') \in Nat /\ Cardinality(OnTheWay(p)') <= Cardinality(OnTheWay(p))
  BY QuotaNumbers, CallCounts
<1>2. Cardinality(UncountedOf(p)') = Cardinality(UncountedOf(p))
  OBVIOUS
<1>3. QED  BY <1>1, <1>2, QuotaNumbers DEF QuotaOf

\* A worker that dies takes fires along, and those were counted by then.
LEMMA QuotaRun ==
  ASSUME Sound, TypeOK', QuotaInv, NEW r \in Executions, Run(r) PROVE QuotaInv'
<1> SUFFICES ASSUME NEW p \in Projects PROVE QuotaOf(p)'
  BY DEF QuotaInv, QuotaOf
<1>0. TypeOK /\ QuotaOf(p) /\ spawn \in [Slots -> CallType] /\ CallersFire /\ r # 0
  BY DEF Sound, TypeOK, QuotaInv, QuotaOf, Executions
<1>1. /\ usage'[p] = usage[p] /\ bumps'[p] = bumps[p] /\ tally'[p] = tally[p]
  BY DEF Run, Claim, Finish, WorkerDies, Resume
<1>2. CASE Claim(r) \/ Resume(r)
  <2>1. OnTheWay(p)' = OnTheWay(p) /\ UncountedOf(p)' = UncountedOf(p)
    BY <1>2 DEF Claim, Resume, OnTheWay, UncountedOf, Uncounted, Project
  <2>2. QED  BY <1>0, <1>1, <2>1, QuotaSame
<1>3. CASE Finish(r)
  <2>1. \A s \in Slots : /\ spawn'[s].at = spawn[s].at /\ spawn'[s].kind = spawn[s].kind
                         /\ spawn'[s].graph = spawn[s].graph
    BY <1>0, <1>3 DEF Finish, CallType
  <2>2. OnTheWay(p)' = OnTheWay(p) /\ UncountedOf(p)' = UncountedOf(p)
    BY <2>1 DEF OnTheWay, UncountedOf, Uncounted, Project
  <2>3. QED  BY <1>0, <1>1, <2>2, QuotaSame
<1>4. CASE WorkerDies(r)
  <2>1. \A s \in Slots : spawn'[s] = IF spawn[s].by = r THEN Idle ELSE spawn[s]
    BY <1>4 DEF WorkerDies
  <2>2. \A s \in Slots : spawn[s].by = r => ~Uncounted(s)
    BY <1>0 DEF CallersFire, Uncounted, BumpsOnInsert
  <2>3. OnTheWay(p)' \subseteq OnTheWay(p) /\ UncountedOf(p)' = UncountedOf(p)
    BY <2>1, <2>2, EmptyRecords DEF OnTheWay, UncountedOf, Uncounted, Project
  <2>4. QED  BY <1>0, <1>1, <2>3, QuotaSame
<1>5. QED  BY <1>2, <1>3, <1>4 DEF Run

\* A call is cleared below the limit or waived, counted or lost once inserted.
LEMMA QuotaCall ==
  ASSUME Sound, TypeOK', QuotaInv, NEW s \in Slots, Call(s) PROVE QuotaInv'
<1> SUFFICES ASSUME NEW p \in Projects PROVE QuotaOf(p)'
  BY DEF QuotaInv, QuotaOf
<1>0. /\ TypeOK /\ QuotaOf(p) /\ spawn \in [Slots -> CallType] /\ CallersFire
      /\ tally \in [Projects -> TallyType]
  BY DEF Sound, TypeOK, QuotaInv, QuotaOf
<1>1. ASSUME \A o \in Slots \ {s} : spawn'[o] = spawn[o],
             spawn[s].at \notin {"cleared", "inserted"}, spawn'[s].at \notin {"cleared", "inserted"},
             UNCHANGED <<usage, bumps, tally>>
      PROVE  QuotaOf(p)'
  <2>1. OnTheWay(p)' = OnTheWay(p) /\ UncountedOf(p)' = UncountedOf(p)
    BY <1>1 DEF OnTheWay, UncountedOf, Uncounted, Project
  <2>2. QED  BY <1>0, <1>1, <2>1, QuotaSame
<1>2. ASSUME NEW kind \in {"execute", "trigger", "manual"}, NEW g \in Graphs, Ask(s, kind, g)
      PROVE  QuotaOf(p)'
  BY <1>0, <1>1, <1>2, EmptyRecords DEF Ask, CallType
<1>3. ASSUME NEW r \in Executions, NEW g \in Graphs, Fire(s, r, g) PROVE QuotaOf(p)'
  BY <1>0, <1>1, <1>3, EmptyRecords DEF Fire, CallType
<1>4. ASSUME Goes(s, "cleared"), spawn[s].at = "asked"
      PROVE  /\ UncountedOf(p)' = UncountedOf(p)
             /\ s \notin OnTheWay(p)
             /\ OnTheWay(p)' = IF Project(s) = p THEN OnTheWay(p) \cup {s} ELSE OnTheWay(p)
  <2>1. \A o \in Slots : o # s => spawn'[o] = spawn[o]
    BY <1>0, <1>4 DEF Goes
  <2>2. spawn'[s].at = "cleared" /\ spawn'[s].graph = spawn[s].graph /\ spawn'[s].kind = spawn[s].kind
    BY <1>0, <1>4 DEF Goes, CallType
  <2>3. QED  BY <1>4, <2>1, <2>2 DEF OnTheWay, UncountedOf, Uncounted, Project
<1>5. ASSUME NEW waived \in BOOLEAN, spawn[s].at = "asked", Clears(s, waived),
             waived \/ HasBudget(Project(s)), UNCHANGED <<usage, bumps>>
      PROVE  QuotaOf(p)'
  <2>1. /\ UncountedOf(p)' = UncountedOf(p)
        /\ s \notin OnTheWay(p)
        /\ OnTheWay(p)' = IF Project(s) = p THEN OnTheWay(p) \cup {s} ELSE OnTheWay(p)
    BY <1>4, <1>5 DEF Clears
  <2>2. CASE Project(s) # p
    <3>1. tally'[p] = tally[p]
      BY <1>0, <1>5, <2>2 DEF Clears
    <3>2. QED  BY <1>0, <1>5, <2>1, <2>2, <3>1, QuotaSame
  <2>3. CASE Project(s) = p
    <3>1. /\ tally'[p].created = tally[p].created /\ tally'[p].lost = tally[p].lost
          /\ tally'[p].waived = IF waived THEN tally[p].waived + 1 ELSE tally[p].waived
          /\ tally'[p].peak = IF Pending(p) + 1 > tally[p].peak THEN Pending(p) + 1 ELSE tally[p].peak
      BY <1>0, <1>5, <2>3 DEF Clears, TallyType
    <3>2. Cardinality(OnTheWay(p)') = Cardinality(OnTheWay(p)) + 1
      BY <1>0, <2>1, <2>3, QuotaNumbers, CallCounts
    <3>3. Cardinality(UncountedOf(p)') = Cardinality(UncountedOf(p))
      BY <2>1
    <3>4. waived \/ usage[p] < Limit(p)
      BY <1>5, <2>3 DEF HasBudget
    <3>5. QED
      BY <1>0, <1>5, <3>1, <3>2, <3>3, <3>4, QuotaNumbers DEF QuotaOf
  <2>4. QED  BY <2>2, <2>3
<1>6. CASE AssertQuota(s) \/ QuotaUnreadable(s)
  <2>1. CASE AssertQuota(s) /\ ~HasBudget(Project(s))
    <3>1. \A o \in Slots : spawn'[o] = IF o = s THEN Idle ELSE spawn[o]
      BY <1>0, <2>1 DEF AssertQuota, Ends
    <3>2. QED  BY <1>1, <2>1, <3>1, EmptyRecords DEF AssertQuota
  <2>2. CASE AssertQuota(s) /\ HasBudget(Project(s))
    BY <1>5, <2>2 DEF AssertQuota
  <2>3. CASE QuotaUnreadable(s)
    BY <1>5, <2>3 DEF QuotaUnreadable
  <2>4. QED  BY <1>6, <2>1, <2>2, <2>3
<1>7. ASSUME NEW batch \in BOOLEAN, Insert(s, batch) PROVE QuotaOf(p)'
  <2>1. \A o \in Slots : o # s => spawn'[o] = spawn[o]
    BY <1>0, <1>7 DEF Insert
  <2>2. /\ spawn'[s].at = "inserted" /\ spawn'[s].graph = spawn[s].graph
        /\ spawn'[s].kind = spawn[s].kind /\ spawn[s].at = "cleared"
    BY <1>0, <1>7 DEF Insert, CallType
  <2>3. CASE Project(s) # p
    <3>1. tally'[p] = tally[p] /\ bumps'[p] = bumps[p] /\ usage'[p] = usage[p]
      BY <1>0, <1>7, <2>3 DEF Insert, TypeOK
    <3>2. OnTheWay(p)' = OnTheWay(p) /\ UncountedOf(p)' = UncountedOf(p)
      BY <2>1, <2>2, <2>3 DEF OnTheWay, UncountedOf, Uncounted, Project
    <3>3. QED  BY <1>0, <3>1, <3>2, QuotaSame
  <2>4. CASE Project(s) = p
    <3>1. /\ tally'[p].created = tally[p].created + 1 /\ tally'[p].lost = tally[p].lost
          /\ tally'[p].waived = tally[p].waived /\ tally'[p].peak = tally[p].peak
          /\ usage'[p] = usage[p]
      BY <1>0, <1>7, <2>4 DEF Insert, TallyType
    <3>2. CASE spawn[s].kind \in BumpsOnInsert
      <4>1. bumps'[p] = bumps[p] + 1
        BY <1>0, <1>7, <2>4, <3>2 DEF Insert, TypeOK
      <4>2. /\ s \in OnTheWay(p) /\ OnTheWay(p)' = OnTheWay(p) \ {s}
            /\ UncountedOf(p)' = UncountedOf(p)
        BY <2>1, <2>2, <2>4, <3>2 DEF OnTheWay, UncountedOf, Uncounted, Project
      <4>3. /\ Cardinality(OnTheWay(p)') = Cardinality(OnTheWay(p)) - 1
            /\ Cardinality(UncountedOf(p)') = Cardinality(UncountedOf(p))
        BY <1>0, <4>2, QuotaNumbers, CallCounts
      <4>4. QED  BY <1>0, <3>1, <4>1, <4>3, QuotaNumbers DEF QuotaOf
    <3>3. CASE spawn[s].kind \notin BumpsOnInsert
      <4>1. bumps'[p] = bumps[p]
        BY <1>7, <3>3 DEF Insert
      <4>2. /\ OnTheWay(p)' = OnTheWay(p)
            /\ s \notin UncountedOf(p) /\ UncountedOf(p)' = UncountedOf(p) \cup {s}
        BY <2>1, <2>2, <2>4, <3>3 DEF OnTheWay, UncountedOf, Uncounted, Project
      <4>3. /\ Cardinality(OnTheWay(p)') = Cardinality(OnTheWay(p))
            /\ Cardinality(UncountedOf(p)') = Cardinality(UncountedOf(p)) + 1
        BY <1>0, <4>2, QuotaNumbers, CallCounts
      <4>4. QED  BY <1>0, <3>1, <4>1, <4>3, QuotaNumbers DEF QuotaOf
    <3>4. QED  BY <3>2, <3>3
  <2>5. QED  BY <2>3, <2>4
<1>8. ASSUME \A o \in Slots : spawn'[o] = IF o = s THEN Idle ELSE spawn[o], Uncounted(s), Project(s) = p
      PROVE  /\ Cardinality(OnTheWay(p)') = Cardinality(OnTheWay(p)) - 1
             /\ Cardinality(UncountedOf(p)') = Cardinality(UncountedOf(p)) - 1
  <2>1. /\ s \in OnTheWay(p) /\ OnTheWay(p)' = OnTheWay(p) \ {s}
        /\ s \in UncountedOf(p) /\ UncountedOf(p)' = UncountedOf(p) \ {s}
    BY <1>8, EmptyRecords DEF OnTheWay, UncountedOf, Uncounted, Project
  <2>2. QED  BY <1>0, <2>1, QuotaNumbers, CallCounts
<1>9. CASE Enqueue(s) \/ Drop(s)
  <2>1. \A o \in Slots : spawn'[o] = IF o = s THEN Idle ELSE spawn[o]
    BY <1>0, <1>9 DEF Enqueue, Drop, Ends
  <2>2. usage'[p] = usage[p]
    BY <1>9 DEF Enqueue, Drop
  <2>3. CASE ~Uncounted(s) \/ Project(s) # p
    <3>1. UncountedOf(p)' = UncountedOf(p) /\ OnTheWay(p)' \subseteq OnTheWay(p)
      BY <2>1, <2>3, EmptyRecords DEF OnTheWay, UncountedOf, Uncounted, Project
    <3>2. bumps'[p] = bumps[p]
      BY <1>0, <1>9, <2>3 DEF Enqueue, Drop, Uncounted, TypeOK
    <3>3. tally'[p] = tally[p]
      BY <1>0, <1>9, <2>3 DEF Enqueue, Drop
    <3>4. QED  BY <1>0, <2>2, <3>1, <3>2, <3>3, QuotaSame
  <2>4. CASE Uncounted(s) /\ Project(s) = p /\ Enqueue(s)
    <3>1. bumps'[p] = bumps[p] + 1 /\ tally'[p] = tally[p]
      BY <1>0, <2>4 DEF Enqueue, Uncounted, TypeOK
    <3>2. QED  BY <1>0, <1>8, <2>1, <2>2, <2>4, <3>1, QuotaNumbers DEF QuotaOf
  <2>5. CASE Uncounted(s) /\ Project(s) = p /\ Drop(s)
    <3>1. /\ bumps'[p] = bumps[p] /\ tally'[p].lost = tally[p].lost + 1
          /\ tally'[p].created = tally[p].created /\ tally'[p].waived = tally[p].waived
          /\ tally'[p].peak = tally[p].peak
      BY <1>0, <2>5 DEF Drop, TallyType
    <3>2. QED  BY <1>0, <1>8, <2>1, <2>2, <2>5, <3>1, QuotaNumbers DEF QuotaOf
  <2>6. QED  BY <1>9, <2>3, <2>4, <2>5
<1>10. QED  BY <1>2, <1>3, <1>6, <1>7, <1>9 DEF Call

\* An increment arrives, or is lost.
LEMMA QuotaIncrement ==
  ASSUME Sound, TypeOK', QuotaInv, NEW q \in Projects, IncrementUsage(q) PROVE QuotaInv'
<1> SUFFICES ASSUME NEW p \in Projects PROVE QuotaOf(p)'
  BY DEF QuotaInv, QuotaOf
<1>1. TypeOK /\ QuotaOf(p)
  BY DEF Sound, QuotaInv, QuotaOf
<1>2. OnTheWay(p)' = OnTheWay(p) /\ UncountedOf(p)' = UncountedOf(p)
  BY DEF IncrementUsage, OnTheWay, UncountedOf, Uncounted, Project
<1>3. CASE p # q
  <2>1. tally'[p] = tally[p] /\ bumps'[p] = bumps[p] /\ usage'[p] = usage[p]
    BY <1>1, <1>3 DEF IncrementUsage, TypeOK
  <2>2. QED  BY <1>1, <1>2, <2>1, QuotaSame
<1>4. CASE p = q
  <2>1. bumps'[p] = bumps[p] - 1
    BY <1>1, <1>4 DEF IncrementUsage, TypeOK
  <2>2. CASE usage' = [usage EXCEPT ![q] = @ + 1] /\ UNCHANGED tally
    <3>1. usage'[p] = usage[p] + 1 /\ tally'[p] = tally[p]
      BY <1>1, <1>4, <2>2 DEF TypeOK
    <3>2. QED  BY <1>1, <1>2, <2>1, <3>1, QuotaNumbers DEF QuotaOf
  <2>3. CASE tally' = [tally EXCEPT ![q].lost = @ + 1] /\ UNCHANGED usage
    <3>1. /\ tally'[p].lost = tally[p].lost + 1 /\ usage'[p] = usage[p]
          /\ tally'[p].created = tally[p].created /\ tally'[p].waived = tally[p].waived
          /\ tally'[p].peak = tally[p].peak
      BY <1>1, <1>4, <2>3 DEF TypeOK, TallyType
    <3>2. QED  BY <1>1, <1>2, <2>1, <3>1, QuotaNumbers DEF QuotaOf
  <2>4. QED  BY <2>2, <2>3 DEF IncrementUsage
<1>5. QED  BY <1>3, <1>4

-----------------------------------------------------------------------------
(***************************************************************************)
(* Chains of fires.                                                        *)
(***************************************************************************)
\* An execution whose past and context stay as they were keeps its chain.
LEMMA RowChainSame ==
  ASSUME NEW e, RowChain(e), origin'[e] = origin[e], job'[e] \in {job[e], None},
         exec'[e].graph = exec[e].graph, exec'[e].batch = exec[e].batch,
         exec'[e].resumes = exec[e].resumes,
         exec'[e].st = "running" => exec[e].st = "running" /\ exec'[e].ancestors = exec[e].ancestors
  PROVE  RowChain(e)'
BY DEF RowChain, Knows

\* A call that stays, or moves on to its check, keeps what it carries.
LEMMA CallChainSame ==
  ASSUME NEW s, CallChain(s), spawn'[s].ancestors = spawn[s].ancestors,
         spawn'[s].graph = spawn[s].graph, spawn'[s].kind = spawn[s].kind,
         spawn'[s].by = spawn[s].by, spawn'[s].new = spawn[s].new,
         spawn'[s].at \in {"asked", "cleared"} => spawn[s].at \in {"asked", "cleared"},
         spawn'[s].at = "inserted" => spawn[s].at = "inserted" /\ origin'[spawn[s].new] = origin[spawn[s].new],
         LET e == spawn[s].by IN
           spawn'[s].at \in {"asked", "cleared"} /\ spawn[s].kind = "fire" =>
             /\ origin'[e] = origin[e] /\ exec'[e].graph = exec[e].graph
             /\ exec'[e].batch = exec[e].batch
             /\ exec'[e].resumes = 0 => exec[e].resumes = 0
  PROVE  CallChain(s)'
BY DEF CallChain, Knows

\* A call that is over carries nothing.
LEMMA CallChainOver ==
  ASSUME NEW s, spawn'[s].at = "idle" PROVE CallChain(s)'
BY DEF CallChain

\* A run learns its chain from its job; a resume cuts it.
LEMMA ChainsRun ==
  ASSUME Sound, ChainsInv, NEW r \in Executions, Run(r) PROVE ChainsInv'
<1>0. /\ exec \in [Executions -> RunType] /\ spawn \in [Slots -> CallType]
      /\ job \in [Executions -> (SUBSET Graphs) \cup {None}]
      /\ 1 .. rows \subseteq Executions /\ rows' = rows /\ origin' = origin
  BY BoundsArePositive
  DEF Sound, TypeOK, Executions, Run, Claim, Finish, WorkerDies, Resume
<1>1. ASSUME NEW e \in 1 .. rows, e # r PROVE RowChain(e)'
  <2>1. exec'[e] = exec[e] /\ job'[e] = job[e] /\ RowChain(e)
    BY <1>0, <1>1 DEF Run, Claim, Finish, WorkerDies, Resume, ChainsInv
  <2>2. QED  BY <1>0, <2>1, RowChainSame
<1>2. ASSUME r \in 1 .. rows PROVE RowChain(r)'
  <2>0. RowChain(r)
    BY <1>2 DEF ChainsInv
  <2>1. CASE Claim(r)
    <3>1. /\ exec'[r].graph = exec[r].graph /\ exec'[r].batch = exec[r].batch
          /\ exec'[r].resumes = exec[r].resumes /\ job' = job /\ job[r] # None
          /\ ~exec[r].batch => exec'[r].ancestors = job[r]
      BY <1>0, <2>1 DEF Claim, RunType
    <3>2. QED  BY <1>0, <2>0, <3>1 DEF RowChain, Knows
  <2>2. CASE Finish(r) \/ WorkerDies(r)
    <3>1. /\ exec'[r].graph = exec[r].graph /\ exec'[r].batch = exec[r].batch
          /\ exec'[r].resumes = exec[r].resumes /\ exec'[r].st # "running"
          /\ job'[r] \in {job[r], None}
      BY <1>0, <2>2, GoneIs DEF Finish, WorkerDies, Sound
    <3>2. QED  BY <1>0, <2>0, <3>1, RowChainSame
  <2>3. CASE Resume(r)
    <3>1. /\ exec'[r].graph = exec[r].graph /\ exec'[r].resumes = exec[r].resumes + 1
          /\ exec[r].resumes \in Nat
      BY <1>0, <2>3 DEF Resume, RunType
    <3>2. exec'[r].resumes # 0
      BY <3>1
    <3>3. QED  BY <1>0, <2>0, <3>1, <3>2 DEF RowChain, Knows
  <2>4. QED  BY <2>1, <2>2, <2>3 DEF Run
<1>3. \A e \in Executions : /\ exec'[e].graph = exec[e].graph /\ exec'[e].batch = exec[e].batch
                            /\ exec'[e].resumes = 0 => exec[e].resumes = 0
  <2>1. CASE Claim(r)
    BY <1>0, <2>1 DEF Claim, RunType
  <2>2. CASE Finish(r) \/ WorkerDies(r)
    BY <1>0, <2>2, GoneIs DEF Finish, WorkerDies, Sound
  <2>3. CASE Resume(r)
    BY <1>0, <2>3 DEF Resume, RunType
  <2>4. QED  BY <2>1, <2>2, <2>3 DEF Run
<1>4. ASSUME NEW s \in Slots PROVE CallChain(s)'
  <2>1. CASE spawn'[s] = Idle
    BY <2>1, EmptyRecords, CallChainOver
  <2>2. CASE spawn'[s] # Idle
    <3>1. /\ spawn'[s].ancestors = spawn[s].ancestors /\ spawn'[s].at = spawn[s].at
          /\ spawn'[s].graph = spawn[s].graph /\ spawn'[s].kind = spawn[s].kind
          /\ spawn'[s].by = spawn[s].by /\ spawn'[s].new = spawn[s].new
      BY <1>0, <2>2 DEF Run, Claim, Finish, WorkerDies, Resume, CallType
    <3>2. spawn[s].at # "idle" /\ spawn[s].kind = "fire" => spawn[s].by \in Executions
      BY <1>0 DEF Sound, CallsAreSound
    <3>3. CallChain(s)
      BY DEF ChainsInv
    <3>4. QED  BY <1>0, <1>3, <3>1, <3>2, <3>3, CallChainSame
  <2>3. QED  BY <2>1, <2>2
<1>5. QED  BY <1>0, <1>1, <1>2, <1>4 DEF ChainsInv

\* The execution that a fire inserts continues the chain of its caller.
LEMMA ChainGrows ==
  ASSUME TypeOK, NEW i \in Executions, RowChain(i), Knows(i), exec[i].graph \in Graphs,
         NEW g, g \notin origin[i].chain, Cardinality(origin[i].chain) < MaxDepth,
         NEW c, c = origin[i].chain \cup {exec[i].graph}
  PROVE  /\ IsFiniteSet(c)
         /\ g \in c => g = exec[i].graph
         /\ origin[i].depth + 1 <= 2 * MaxDepth - 1
         /\ origin[i].depth + 1 + (IF g \in c THEN 1 ELSE 0) <= 2 * Cardinality(c)
<1>1. /\ IsFiniteSet(origin[i].chain)
      /\ origin[i].depth + (IF exec[i].graph \in origin[i].chain THEN 1 ELSE 0)
           <= 2 * Cardinality(origin[i].chain)
  BY DEF RowChain, Knows
<1>2. /\ Cardinality(origin[i].chain) \in Nat /\ origin[i].depth \in Nat /\ MaxDepth \in Nat
  BY <1>1, FS_CardinalityType, BoundsArePositive DEF TypeOK, OriginType
<1>3. /\ IsFiniteSet(c)
      /\ Cardinality(c) = IF exec[i].graph \in origin[i].chain THEN Cardinality(origin[i].chain)
                          ELSE Cardinality(origin[i].chain) + 1
  BY <1>1, FS_AddElement
<1>4. g \in c => g = exec[i].graph /\ exec[i].graph \notin origin[i].chain
  OBVIOUS
<1>5. QED  BY <1>1, <1>2, <1>3, <1>4

\* A fire hands on what its run knows, the INSERT writes it down, the job takes
\* it to the run of the new execution.
LEMMA ChainsCall ==
  ASSUME Sound, ChainsInv, NEW s \in Slots, Call(s) PROVE ChainsInv'
<1>0. /\ TypeOK /\ exec \in [Executions -> RunType] /\ spawn \in [Slots -> CallType]
      /\ job \in [Executions -> (SUBSET Graphs) \cup {None}] /\ rows \in Nat
      /\ 1 .. rows \subseteq Executions /\ rows + 1 \notin 1 .. rows
      /\ \A e \in 1 .. rows : RowChain(e)
      /\ \A o \in Slots : CallChain(o)
  BY BoundsArePositive DEF Sound, TypeOK, Executions, ChainsInv
<1>1. ASSUME NEW o \in Slots, spawn[o].at # "idle"
      PROVE  /\ spawn[o].kind = "fire" => spawn[o].by \in 1 .. rows
             /\ spawn[o].at = "inserted" => spawn[o].new \in 1 .. rows
  BY <1>1 DEF Sound, CallsAreSound
<1>2. ASSUME UNCHANGED <<rows, exec, job, origin>> PROVE \A e \in 1 .. rows' : RowChain(e)'
  BY <1>0, <1>2 DEF RowChain, Knows
<1>3. ASSUME NEW o \in Slots, spawn'[o] = spawn[o], rows \in Nat,
             \A e \in 1 .. rows : /\ origin'[e] = origin[e] /\ exec'[e].graph = exec[e].graph
                                  /\ exec'[e].batch = exec[e].batch
                                  /\ exec'[e].resumes = exec[e].resumes
      PROVE  CallChain(o)'
  <2>1. CASE spawn[o].at = "idle"
    BY <1>3, <2>1, CallChainOver
  <2>2. CASE spawn[o].at # "idle"
    BY <1>0, <1>1, <1>3, <2>2, CallChainSame
  <2>3. QED  BY <2>1, <2>2
<1>4. ASSUME NEW kind \in {"execute", "trigger", "manual"}, NEW g \in Graphs, Ask(s, kind, g)
      PROVE  ChainsInv'
  <2>1. CallChain(s)'
    <3>1. spawn'[s].at = "asked" /\ spawn'[s].kind = kind /\ spawn'[s].ancestors = {}
      BY <1>0, <1>4, EmptyRecords DEF Ask, CallType
    <3>2. QED  BY <3>1 DEF CallChain
  <2>2. \A o \in Slots \ {s} : spawn'[o] = spawn[o]
    BY <1>0, <1>4 DEF Ask
  <2>3. QED  BY <1>0, <1>2, <1>3, <1>4, <2>1, <2>2 DEF Ask, ChainsInv
<1>5. ASSUME NEW r \in Executions, NEW g \in Graphs, Fire(s, r, g) PROVE ChainsInv'
  <2>1. \A e \in Executions :
          /\ exec'[e].graph = exec[e].graph /\ exec'[e].batch = exec[e].batch
          /\ exec'[e].resumes = exec[e].resumes /\ exec'[e].st = exec[e].st
          /\ exec'[e].ancestors = exec[e].ancestors
    BY <1>0, <1>5 DEF Fire, RunType
  <2>2. \A e \in 1 .. rows : RowChain(e)'
    BY <1>0, <1>5, <2>1, RowChainSame DEF Fire
  <2>3. \A o \in Slots : spawn'[o] = spawn[o] => CallChain(o)'
    BY <1>0, <1>3, <1>5, <2>1 DEF Fire
  <2>4. CASE spawn' = spawn
    BY <1>5, <2>2, <2>3, <2>4 DEF Fire, ChainsInv
  <2>5. CASE spawn' # spawn
    <3>1. /\ spawn'[s].at = "asked" /\ spawn'[s].kind = "fire" /\ spawn'[s].by = r
          /\ spawn'[s].graph = g /\ spawn'[s].ancestors = Handed(r)
          /\ \A o \in Slots \ {s} : spawn'[o] = spawn[o]
      BY <1>0, <1>5, <2>5, EmptyRecords DEF Fire, CallType
    <3>2. r \in 1 .. rows
      BY <1>0, <1>5 DEF Fire, Sound, RowsHaveCome, Executions
    <3>3. Knows(r) => /\ Handed(r) = origin[r].chain \cup {exec[r].graph}
                      /\ g \notin origin[r].chain /\ Cardinality(origin[r].chain) < MaxDepth
      BY <1>0, <1>5, <3>2 DEF Fire, Handed, RowChain, Knows
    <3>4. Knows(r)' <=> Knows(r)
      BY <1>5, <2>1 DEF Knows, Fire
    <3>5. exec'[r].graph = exec[r].graph /\ origin' = origin
      BY <1>5, <2>1 DEF Fire
    <3>6. CallChain(s)'
      BY <3>1, <3>3, <3>4, <3>5 DEF CallChain
    <3>7. QED  BY <1>5, <2>2, <2>3, <3>1, <3>6 DEF Fire, ChainsInv
  <2>6. QED  BY <2>4, <2>5
<1>6. CASE AssertQuota(s) \/ QuotaUnreadable(s) \/ Drop(s)
  <2>1. UNCHANGED <<rows, exec, job, origin>>
    BY <1>6 DEF AssertQuota, QuotaUnreadable, Drop
  <2>2. \A o \in Slots \ {s} : spawn'[o] = spawn[o]
    BY <1>0, <1>6 DEF AssertQuota, QuotaUnreadable, Drop, Clears, Goes, Ends
  <2>3. \/ spawn'[s].at = "idle"
        \/ /\ spawn'[s].ancestors = spawn[s].ancestors /\ spawn'[s].at = "cleared"
           /\ spawn'[s].graph = spawn[s].graph /\ spawn'[s].kind = spawn[s].kind
           /\ spawn'[s].by = spawn[s].by /\ spawn'[s].new = spawn[s].new
           /\ spawn[s].at = "asked"
    BY <1>0, <1>6, EmptyRecords DEF AssertQuota, QuotaUnreadable, Drop, Clears, Goes, Ends, CallType
  <2>4. CallChain(s)'
    BY <1>0, <2>1, <2>3, CallChainSame, CallChainOver
  <2>5. QED  BY <1>0, <1>2, <1>3, <2>1, <2>2, <2>4 DEF ChainsInv
<1>7. ASSUME NEW batch \in BOOLEAN, Insert(s, batch) PROVE ChainsInv'
  <2>0. PICK e \in Executions, i \in Nat : e = rows + 1 /\ i = spawn[s].by
    BY <1>0, <1>7, BoundsArePositive DEF Insert, Executions, CallType
  <2>1. /\ rows' = e /\ spawn[s].at = "cleared" /\ job' = job
        /\ origin' = [origin EXCEPT ![e] = OriginOf(s)]
        /\ 1 .. rows' = (1 .. rows) \cup {e}
        /\ e \notin 1 .. rows
    BY <1>0, <1>7, <2>0, BoundsArePositive DEF Insert, Executions
  <2>2. \A j \in Executions \ {e} :
          /\ exec'[j].graph = exec[j].graph /\ exec'[j].batch = exec[j].batch
          /\ exec'[j].resumes = exec[j].resumes /\ exec'[j].st = exec[j].st
          /\ exec'[j].ancestors = exec[j].ancestors
          /\ origin'[j] = origin[j]
    BY <1>0, <1>7, <2>0, <2>1 DEF Insert, RunType, TypeOK
  <2>3. \A j \in 1 .. rows : RowChain(j)'
    BY <1>0, <2>1, <2>2, RowChainSame
  <2>4. \A o \in Slots \ {s} : spawn'[o] = spawn[o]
    BY <1>0, <1>7 DEF Insert
  <2>5. \A o \in Slots \ {s} : CallChain(o)'
    <3>1. \A j \in 1 .. rows : j \in Executions \ {e}
      BY <1>0, <2>1
    <3>2. QED  BY <1>0, <1>3, <2>2, <2>4, <3>1
  <2>6. /\ exec'[e].graph = spawn[s].graph /\ exec'[e].st = "queued"
        /\ origin'[e] = OriginOf(s) /\ job[e] = None
    <3>1. \E b \in BOOLEAN :
            exec'[e] = [NoRun EXCEPT !.st = "queued", !.graph = spawn[s].graph, !.batch = b]
      BY <1>7, <2>0 DEF Insert
    <3>2. exec'[e].graph = spawn[s].graph /\ exec'[e].st = "queued"
      BY <3>1 DEF NoRun
    <3>3. origin'[e] = OriginOf(s)
      BY <1>0, <2>1 DEF TypeOK
    <3>4. job[e] = None
      BY <1>0, <2>0 DEF Sound, RowsHaveCome, Executions
    <3>5. QED  BY <3>2, <3>3, <3>4
  <2>7. /\ spawn'[s].at = "inserted" /\ spawn'[s].new = e
        /\ spawn'[s].ancestors = spawn[s].ancestors
        /\ spawn'[s].graph = spawn[s].graph
    BY <1>0, <1>7, <2>0 DEF Insert, CallType
  <2>8. CASE spawn[s].kind # "fire"
    <3>1. OriginOf(s).chain = {} /\ OriginOf(s).depth = 0 /\ spawn[s].ancestors = {}
      BY <1>0, <2>1, <2>8 DEF OriginOf, CallChain
    <3>2. RowChain(e)'
      <4>1. /\ origin'[e].chain = {} /\ origin'[e].depth = 0 /\ job'[e] = None
            /\ exec'[e].st = "queued"
        BY <2>1, <2>6, <3>1
      <4>2. IsFiniteSet({}) /\ Cardinality({}) = 0
        BY FS_EmptySet
      <4>3. QED  BY <4>1, <4>2, BoundsArePositive DEF RowChain
    <3>3. CallChain(s)'
      BY <2>6, <2>7, <3>1 DEF CallChain
    <3>4. QED  BY <2>1, <2>3, <2>5, <3>2, <3>3 DEF ChainsInv
  <2>9. CASE spawn[s].kind = "fire"
    <3>1. i \in 1 .. rows /\ i \in Executions /\ exec[i].graph \in Graphs /\ RowChain(i) /\ CallChain(s)
      BY <1>0, <1>1, <2>0, <2>1, <2>9 DEF Sound, RowsHaveCome
    <3>2. /\ OriginOf(s).depth = origin[i].depth + 1 /\ OriginOf(s).parent = exec[i].graph
          /\ OriginOf(s).chain = origin[i].chain \cup {exec[i].graph}
          /\ ~OriginOf(s).cut => Knows(i)
      <4>1. exec[i].resumes \in Nat
        BY <1>0, <3>1 DEF RunType
      <4>2. /\ OriginOf(s).depth = origin[i].depth + 1 /\ OriginOf(s).parent = exec[i].graph
            /\ OriginOf(s).chain = origin[i].chain \cup {exec[i].graph}
        BY <2>0, <2>9 DEF OriginOf
      <4>3. OriginOf(s).cut = (origin[i].cut \/ exec[i].batch \/ exec[i].resumes > 0)
        BY <2>0, <2>9 DEF OriginOf
      <4>4. ~OriginOf(s).cut => /\ ~origin[i].cut /\ ~exec[i].batch /\ exec[i].resumes = 0
        <5>1. ~(exec[i].resumes > 0) => exec[i].resumes = 0
          BY <4>1
        <5>2. QED  BY <4>3, <5>1, Zenon
      <4>5. QED  BY <4>2, <4>4 DEF Knows
    <3>3. Knows(i) => /\ spawn[s].ancestors = OriginOf(s).chain
                      /\ spawn[s].graph \notin origin[i].chain
                      /\ Cardinality(origin[i].chain) < MaxDepth
      BY <2>0, <2>1, <2>9, <3>1, <3>2 DEF CallChain
    <3>4. IsFiniteSet(OriginOf(s).chain)
      BY <3>1, <3>2, FS_AddElement DEF RowChain
    <3>5. Knows(i) => /\ spawn[s].graph \in OriginOf(s).chain => spawn[s].graph = OriginOf(s).parent
                      /\ OriginOf(s).depth <= 2 * MaxDepth - 1
                      /\ OriginOf(s).depth + (IF spawn[s].graph \in OriginOf(s).chain THEN 1 ELSE 0)
                           <= 2 * Cardinality(OriginOf(s).chain)
      BY <1>0, <3>1, <3>2, <3>3, ChainGrows
    <3>6. RowChain(e)'
      BY <2>1, <2>6, <3>2, <3>4, <3>5 DEF RowChain
    <3>7. CallChain(s)'
      BY <2>6, <2>7, <3>2, <3>3 DEF CallChain
    <3>8. QED  BY <2>1, <2>3, <2>5, <3>6, <3>7 DEF ChainsInv
  <2>10. QED  BY <2>8, <2>9
<1>8. CASE Enqueue(s)
  <2>0. PICK n \in 1 .. rows : n = spawn[s].new
    BY <1>1, <1>8 DEF Enqueue
  <2>1. n \in Executions /\ CallChain(s) /\ spawn[s].at = "inserted"
    BY <1>0, <1>8, <2>0 DEF Enqueue
  <2>2. /\ job'[n] = spawn[s].ancestors
        /\ \A e \in Executions \ {n} : job'[e] = job[e]
        /\ UNCHANGED <<rows, exec, origin>>
    BY <1>0, <1>8, <2>0, <2>1 DEF Enqueue
  <2>3. RowChain(n)'
    <3>1. Knows(n)' <=> Knows(n)
      BY <2>2 DEF Knows
    <3>2. RowChain(n)
      BY <1>0, <2>0
    <3>3. QED  BY <2>0, <2>1, <2>2, <3>1, <3>2 DEF RowChain, CallChain
  <2>4. \A e \in (1 .. rows) \ {n} : RowChain(e)'
    BY <1>0, <2>2, RowChainSame
  <2>5. \A o \in Slots \ {s} : spawn'[o] = spawn[o]
    BY <1>0, <1>8 DEF Enqueue, Ends
  <2>6. CallChain(s)'
    BY <1>0, <1>8, EmptyRecords, CallChainOver DEF Enqueue, Ends
  <2>7. QED  BY <1>0, <1>3, <2>2, <2>3, <2>4, <2>5, <2>6 DEF ChainsInv
<1>9. QED  BY <1>4, <1>5, <1>6, <1>7, <1>8 DEF Call

-----------------------------------------------------------------------------
(***************************************************************************)
(* The theorems.                                                           *)
(***************************************************************************)
\* The inductive invariant of the calls that create executions.
THEOREM Invariance == Spec => []IInv
<1>1. Init => IInv
  <2> SUFFICES ASSUME Init PROVE IInv
    OBVIOUS
  <2>1. TypeOK
    BY EmptyRecords, BoundsArePositive DEF Init, TypeOK, OriginType, TallyType
  <2>2. RowsHaveCome /\ CallsAreSound /\ CallersFire
    BY EmptyRecords DEF Init, RowsHaveCome, CallsAreSound, CallersFire, Executions
  <2>3. FanOutInv
    <3> SUFFICES ASSUME NEW e \in Executions
                 PROVE  ~exec[e].batch => /\ exec[e].children + Cardinality(InFlight(e)) <= exec[e].fires
                                          /\ exec[e].fires <= MaxFires
      BY DEF FanOutInv
    <3>1. InFlight(e) = {}
      BY EmptyRecords DEF Init, InFlight
    <3>2. exec[e].children = 0 /\ exec[e].fires = 0 /\ Cardinality(InFlight(e)) = 0
      BY <3>1, EmptyRecords, FS_EmptySet DEF Init
    <3>3. QED  BY <3>2, BoundsArePositive
  <2>4. QuotaInv
    <3> SUFFICES ASSUME NEW p \in Projects PROVE QuotaOf(p)
      BY DEF QuotaInv, QuotaOf
    <3>1. OnTheWay(p) = {} /\ UncountedOf(p) = {}
      BY EmptyRecords DEF Init, OnTheWay, UncountedOf, Uncounted
    <3>2. QED  BY <2>1, <3>1, FS_EmptySet, QuotaNumbers DEF Init, QuotaOf
  <2>5. ChainsInv
    BY EmptyRecords DEF Init, ChainsInv, CallChain
  <2>6. QED  BY <2>1, <2>2, <2>3, <2>4, <2>5 DEF IInv
<1>2. IInv /\ [Next]_vars => IInv'
  <2> SUFFICES ASSUME IInv, [Next]_vars PROVE IInv'
    OBVIOUS
  <2>0. Sound /\ FanOutInv /\ QuotaInv /\ ChainsInv
    BY DEF IInv, Sound
  <2>1. ASSUME Sound', FanOutInv', QuotaInv', ChainsInv' PROVE IInv'
    BY <2>1 DEF IInv, Sound
  <2>2. ASSUME NEW e \in Executions, Run(e) PROVE IInv'
    <3>1. Sound'
      BY <2>0, <2>2, RunIsSound
    <3>2. QED  BY <2>0, <2>1, <2>2, <3>1, FanOutRun, QuotaRun, ChainsRun DEF Sound
  <2>3. ASSUME NEW s \in Slots, Call(s) PROVE IInv'
    <3>1. Sound'
      BY <2>0, <2>3, CallIsSound
    <3>2. QED  BY <2>0, <2>1, <2>3, <3>1, FanOutCall, QuotaCall, ChainsCall DEF Sound
  <2>4. ASSUME NEW p \in Projects, IncrementUsage(p) PROVE IInv'
    <3>1. Sound'
      BY <2>0, <2>4, IncrementIsSound
    <3>2. UNCHANGED <<rows, exec, job, spawn, origin>>
      BY <2>4 DEF IncrementUsage
    <3>3. FanOutInv'
      BY <2>0, <3>2 DEF FanOutInv, InFlight
    <3>4. ChainsInv'
      BY <2>0, <3>2 DEF ChainsInv, RowChain, CallChain, Knows
    <3>5. FanOutInv' /\ ChainsInv'
      BY <3>3, <3>4
    <3>6. QED  BY <2>0, <2>1, <2>4, <3>1, <3>5, QuotaIncrement DEF Sound
  <2>5. CASE UNCHANGED vars
    <3>1. Sound'
      BY <2>0, <2>5 DEF vars, Sound, TypeOK, RowsHaveCome, CallsAreSound, CallersFire
    <3>2. FanOutInv' /\ ChainsInv'
      BY <2>0, <2>5 DEF vars, FanOutInv, InFlight, ChainsInv, RowChain, CallChain, Knows
    <3>3. QuotaInv'
      BY <2>0, <2>5 DEF vars, QuotaInv, OnTheWay, UncountedOf, Uncounted, Project
    <3>4. QED  BY <2>1, <3>1, <3>2, <3>3
  <2>6. QED  BY <2>2, <2>3, <2>4, <2>5 DEF Next
<1>3. QED  BY <1>1, <1>2, PTL DEF Spec

\* A chain of fires ends: no graph comes again but right after itself, and the
\* chain is at most 2 * MaxDepth - 1 fires deep.
THEOREM ChainsDoEnd == Spec => []ChainsEnd
<1>1. IInv => ChainsEnd
  BY DEF IInv, ChainsInv, RowChain, ChainsEnd
<1>2. QED  BY <1>1, Invariance, PTL

\* One run inserts at most MaxFires children.
THEOREM FanOutBound == Spec => []FanOutHolds
<1>1. IInv => FanOutHolds
  <2> SUFFICES ASSUME IInv, NEW e \in 1 .. rows, ~exec[e].batch PROVE exec[e].children <= MaxFires
    BY DEF FanOutHolds
  <2>1. e \in Executions /\ TypeOK
    BY BoundsArePositive DEF IInv, TypeOK, Executions
  <2>2. InFlight(e) \in SUBSET Slots
    BY DEF InFlight
  <2>3. Cardinality(InFlight(e)) \in Nat
    BY <2>2, CallCounts
  <2>4. exec[e].children \in Nat /\ exec[e].fires \in Nat /\ MaxFires \in Nat
    BY <2>1, BoundsArePositive DEF TypeOK, RunType
  <2>5. QED  BY <2>1, <2>3, <2>4 DEF IInv, FanOutInv
<1>2. QED  BY <1>1, Invariance, PTL

\* The daily quota is overrun by no more than the calls between their check and
\* their count, the increments that failed and the calls that were waived.
THEOREM QuotaSlackBound == Spec => []QuotaSlack
<1>1. IInv => QuotaSlack
  <2> SUFFICES ASSUME IInv, NEW p \in Projects
               PROVE  tally[p].created
                        <= (Limit(p) - 1) + tally[p].peak + tally[p].lost + tally[p].waived
    BY DEF QuotaSlack
  <2>1. UncountedOf(p) \subseteq OnTheWay(p)
    BY DEF UncountedOf, OnTheWay
  <2>2. Cardinality(UncountedOf(p)) <= Cardinality(OnTheWay(p))
    BY <2>1, QuotaNumbers, CallCounts DEF IInv
  <2>3. QED  BY <2>2, QuotaNumbers DEF IInv, QuotaInv
<1>2. QED  BY <1>1, Invariance, PTL
=============================================================================
