--------------------------- MODULE AgentCallsProofs ---------------------------
(***************************************************************************)
(* The budget, the quota and the policy of model calls hold for every number *)
(* of nodes, retries, links, shots, turns and tools, and for every cost.     *)
(***************************************************************************)
EXTENDS AgentCalls, TLAPS

-----------------------------------------------------------------------------
(***************************************************************************)
(* The inductive invariant, in named parts.                                *)
(***************************************************************************)
AllKinds == {"agent", "route", "extract", "tools"}
Before == {"off", "policy", "loading", "quota"}
Places == Before \cup {"asking", "turn", "ok", "threw"}
Attempt == [at : Places, round : Nat, inTool : BOOLEAN, tools : Int, useful : BOOLEAN,
            guard : Int, toolGuard : Int, own : Nat, dropped : BOOLEAN,
            late : Nat, unmetered : Int, broke : BOOLEAN]

\* Every variable keeps its type.
TypeOK ==
  /\ kind \in [Node -> Kinds]
  /\ call \in [Calls -> Attempt]
  /\ tokens \in Nat /\ usage \in Nat
  /\ due \in [Calls -> Nat]
  /\ policy \in 0 .. MaxEdits /\ replaced \in [0 .. MaxEdits -> Nat]
  /\ cache \in [guard : Int, until : Nat]
  /\ now \in Nat

\* What a tool that has answered is worth to the loop: one call more.
Credit(r) == IF r.useful THEN 1 ELSE 0

\* How many calls an attempt r of a plugin k may have begun over the budget,
\* by where it stands: each of the tools left, and a further turn, may add one.
LateFits(k, r) ==
  /\ r.inTool => k = "tools" /\ r.tools \in 1 .. MaxTools /\ r.at \in Before \cup {"asking"}
  /\ r.at = "turn" => k = "tools" /\ r.tools >= 0
  /\ k \in {"agent", "extract"} => r.late <= 1 /\ (r.at \in Before => r.late = 0)
  /\ k = "route" => /\ r.round <= Links /\ r.late <= Links
                    /\ r.at \in Before => r.late < r.round
                    /\ r.at = "asking" => r.late <= r.round
  /\ k = "tools" =>
       /\ r.late <= MaxTools
       /\ r.at \in Before /\ ~r.inTool => r.late = 0
       /\ r.at = "turn" \/ (r.inTool /\ r.at \in Before) => r.late + r.tools + Credit(r) <= MaxTools
       /\ r.inTool /\ r.at = "asking" => r.late + r.tools + Credit(r) <= MaxTools + 1

\* What an attempt has spent and not counted: the sum its loop carries.
SpentFits(k, r) ==
  /\ r.own <= r.unmetered
  /\ k # "tools" => r.own = 0
  /\ r.at \notin {"ok", "threw"} /\ ~r.broke => r.unmetered = r.own
  /\ r.at = "ok" \/ (r.at = "threw" /\ k # "tools") => r.unmetered = 0 \/ r.broke

\* A call that is late, or broke the budget, is over it, and so are all after it.
CallInv ==
  \A c \in Calls :
    /\ LateFits(KindOf(c), call[c]) /\ SpentFits(KindOf(c), call[c])
    /\ call[c].late > 0 \/ call[c].broke => tokens > MaxTokens

\* A version that a process has read, and has had since t.
ReadSince(guard, t) ==
  guard = Default \/ (guard \in 0 .. policy /\ (guard = policy \/ replaced[guard] >= t))

PolicyInv ==
  /\ cache.until <= now + TTL
  /\ cache.until > 0 => ReadSince(cache.guard, cache.until - TTL)
  /\ \A c \in Calls : call[c].at = "loading" => ReadSince(InForce(call[c]), now)

IInv == TypeOK /\ CallInv /\ PolicyInv

-----------------------------------------------------------------------------
(***************************************************************************)
(* How an exchange ends.                                                   *)
(***************************************************************************)

\* An attempt that is over keeps its history.
LEMMA OverIs ==
  ASSUME NEW r \in Attempt, NEW at \in Places
  PROVE  /\ Over(r, at) \in Attempt /\ Over(r, at).at = at /\ ~Over(r, at).inTool
         /\ Over(r, at).round = 1 /\ Over(r, at).own = 0 /\ Over(r, at).late = r.late
         /\ Over(r, at).unmetered = r.unmetered /\ Over(r, at).broke = r.broke
<1>1. Off \in Attempt /\ Off.round = 1 /\ Off.own = 0 /\ ~Off.inTool
  BY DEF Off, Attempt, Places, Before
<1> QED  BY <1>1 DEF Over, Attempt

\* A tool that has answered leaves the attempt in its turn.
LEMMA ToolDoneIs ==
  ASSUME NEW r \in Attempt, NEW ok \in BOOLEAN
  PROVE  /\ ToolDone(r, ok) \in Attempt /\ ToolDone(r, ok).at = "turn" /\ ~ToolDone(r, ok).inTool
         /\ ToolDone(r, ok).tools = r.tools - 1 /\ ToolDone(r, ok).own = r.own
         /\ ToolDone(r, ok).late = r.late /\ ToolDone(r, ok).unmetered = r.unmetered
         /\ ToolDone(r, ok).broke = r.broke
         /\ ~ok => Credit(ToolDone(r, ok)) = Credit(r)
         /\ Credit(ToolDone(r, ok)) \in {0, 1}
<1>1. PICK useful \in BOOLEAN : useful = (r.useful \/ ok)
  BY DEF Attempt
<1>2. r.tools - 1 \in Int /\ "turn" \in Places
  BY DEF Attempt, Places
<1>3. PICK no \in BOOLEAN : no = FALSE
  OBVIOUS
<1> DEFINE d == [r EXCEPT !.at = "turn", !.tools = r.tools - 1, !.useful = useful,
                          !.inTool = no, !.toolGuard = 0]
<1>4. ToolDone(r, ok) = d
  BY <1>1, <1>3 DEF ToolDone
<1>5. d \in Attempt
  <2>1. ASSUME NEW a \in Attempt, NEW at \in Places, NEW n \in Int, NEW u \in BOOLEAN
        PROVE  [a EXCEPT !.at = at, !.tools = n, !.useful = u] \in Attempt
    BY DEF Attempt
  <2>2. ASSUME NEW a \in Attempt, NEW b \in BOOLEAN, NEW z \in Int
        PROVE  [a EXCEPT !.inTool = b, !.toolGuard = z] \in Attempt
    BY DEF Attempt
  <2>3. PICK a : a = [r EXCEPT !.at = "turn", !.tools = r.tools - 1, !.useful = useful]
    OBVIOUS
  <2>4. d = [a EXCEPT !.inTool = no, !.toolGuard = 0]
    BY <2>3
  <2>5. 0 \in Int
    OBVIOUS
  <2> HIDE DEF d
  <2>6. a \in Attempt
    BY <1>2, <2>1, <2>3, Zenon
  <2> QED  BY <2>2, <2>4, <2>5, <2>6, Zenon
<1>6. /\ d.at = "turn" /\ ~d.inTool /\ d.tools = r.tools - 1 /\ d.own = r.own
      /\ d.late = r.late /\ d.unmetered = r.unmetered /\ d.broke = r.broke /\ d.useful = useful
  BY <1>3 DEF Attempt
<1>7. ~ok => useful = r.useful
  BY <1>1 DEF Attempt
<1> HIDE DEF d
<1> QED  BY <1>4, <1>5, <1>6, <1>7 DEF Credit

\* A tool that has answered, well or not, leaves room for the calls to come.
LEMMA ToolDoneFits ==
  ASSUME NEW r \in Attempt, NEW ok \in BOOLEAN, r.tools \in 1 .. MaxTools,
         r.late + r.tools + Credit(r) <= MaxTools \/ (r.late = 0 /\ ok)
           \/ (~ok /\ r.late + r.tools + Credit(r) <= MaxTools + 1),
         r.late <= MaxTools, SpentFits("tools", r), r.at \notin {"ok", "threw"}
  PROVE  LateFits("tools", ToolDone(r, ok)) /\ SpentFits("tools", ToolDone(r, ok))
<1> DEFINE d == ToolDone(r, ok)
<1>1. /\ d \in Attempt /\ d.at = "turn" /\ ~d.inTool /\ d.tools = r.tools - 1 /\ d.own = r.own
      /\ d.late = r.late /\ d.unmetered = r.unmetered /\ d.broke = r.broke
      /\ ~ok => Credit(d) = Credit(r)
      /\ Credit(d) \in {0, 1}
  BY ToolDoneIs
<1>2. /\ r.late \in Nat /\ r.tools \in Int /\ MaxTools \in Nat /\ Credit(r) \in {0, 1}
  BY CallAssumption DEF Attempt, Credit
<1> HIDE DEF d
<1>3. d.late + d.tools + Credit(d) <= MaxTools
  BY <1>1, <1>2
<1>4. LateFits("tools", d)
  BY <1>1, <1>2, <1>3 DEF LateFits, Before
<1>5. SpentFits("tools", d)
  BY <1>1 DEF SpentFits
<1> QED  BY <1>4, <1>5 DEF d

\* Whatever is thrown at an attempt, it keeps within its bounds.
LEMMA ThrewFits ==
  ASSUME NEW k \in AllKinds, NEW r \in Attempt, NEW code,
         r.at \in {"policy", "loading", "quota", "asking"}, LateFits(k, r), SpentFits(k, r)
  PROVE  /\ Threw(k, r, code) \in Attempt
         /\ LateFits(k, Threw(k, r, code)) /\ SpentFits(k, Threw(k, r, code))
         /\ Threw(k, r, code).late = r.late /\ Threw(k, r, code).broke = r.broke
         /\ Threw(k, r, code).at \notin {"loading", "quota"}
<1>1. CASE r.inTool
  <2>1. /\ k = "tools" /\ r.tools \in 1 .. MaxTools /\ r.late <= MaxTools
        /\ r.late + r.tools + Credit(r) <= MaxTools \/ r.late + r.tools + Credit(r) <= MaxTools + 1
    BY <1>1 DEF LateFits, Before
  <2>2. Threw(k, r, code) = ToolDone(r, FALSE)
    BY <1>1 DEF Threw
  <2>3. LateFits("tools", ToolDone(r, FALSE)) /\ SpentFits("tools", ToolDone(r, FALSE))
    BY <2>1, ToolDoneFits
  <2>4. /\ ToolDone(r, FALSE) \in Attempt /\ ToolDone(r, FALSE).at = "turn"
        /\ ToolDone(r, FALSE).late = r.late /\ ToolDone(r, FALSE).broke = r.broke
    <3>1. FALSE \in BOOLEAN
      OBVIOUS
    <3> QED  BY <3>1, ToolDoneIs, Zenon
  <2>5. PICK d : d = ToolDone(r, FALSE)
    OBVIOUS
  <2> QED  BY <2>1, <2>2, <2>3, <2>4, <2>5
<1>2. CASE ~r.inTool /\ k = "route" /\ code \notin {"blocked", "quota"} /\ r.round < Links
  <2> DEFINE n == [r EXCEPT !.round = r.round + 1, !.at = "policy"]
  <2>1. Threw(k, r, code) = n
    BY <1>2 DEF Threw
  <2>2. /\ n \in Attempt /\ n.round = r.round + 1 /\ n.at = "policy" /\ n.inTool = r.inTool
        /\ n.late = r.late /\ n.broke = r.broke /\ n.own = r.own /\ n.unmetered = r.unmetered
    <3>1. r.round + 1 \in Nat /\ "policy" \in Places
      BY DEF Attempt, Places, Before
    <3> QED  BY <3>1 DEF Attempt
  <2>3. r.late \in Nat /\ r.round \in Nat /\ Links \in Nat
    BY CallAssumption DEF Attempt
  <2> HIDE DEF n
  <2>4. LateFits(k, n)
    BY <1>2, <2>2, <2>3 DEF LateFits, Before
  <2>5. SpentFits(k, n)
    BY <1>2, <2>2 DEF SpentFits
  <2> QED  BY <2>1, <2>2, <2>4, <2>5
<1>3. CASE ~r.inTool /\ ~(k = "route" /\ code \notin {"blocked", "quota"} /\ r.round < Links)
  <2> DEFINE o == Over(r, "threw")
  <2>1. Threw(k, r, code) = o
    BY <1>3 DEF Threw
  <2>2. /\ o \in Attempt /\ o.at = "threw" /\ ~o.inTool /\ o.round = 1 /\ o.own = 0
        /\ o.late = r.late /\ o.unmetered = r.unmetered /\ o.broke = r.broke
    BY OverIs DEF Places
  <2>3. r.late \in Nat /\ r.own \in Nat /\ r.unmetered \in Int /\ Links \in Nat \ {0}
    BY CallAssumption DEF Attempt
  <2> HIDE DEF o
  <2>4. LateFits(k, o)
    BY <2>2, <2>3 DEF LateFits, Before
  <2>5. SpentFits(k, o)
    BY <2>2, <2>3 DEF SpentFits
  <2> QED  BY <2>1, <2>2, <2>4, <2>5
<1> QED  BY <1>1, <1>2, <1>3

\* An answer within the budget that has been paid for.
LEMMA ScreenedFits ==
  ASSUME NEW k \in AllKinds, NEW r \in Attempt, r.at = "asking", r.late = 0,
         LateFits(k, r), SpentFits(k, r), k = "tools" => r.inTool, NEW x \in Screened(k, r)
  PROVE  /\ x \in Attempt /\ LateFits(k, x) /\ SpentFits(k, x)
         /\ x.late = 0 /\ x.broke = r.broke /\ x.at \notin {"loading", "quota"}
<1>1. CASE x = Threw(k, r, "blocked")
  BY <1>1, ThrewFits
<1>2. CASE x = ToolDone(r, TRUE) /\ r.inTool
  <2>1. k = "tools" /\ r.tools \in 1 .. MaxTools /\ r.late <= MaxTools
    BY <1>2 DEF LateFits
  <2>2. LateFits("tools", ToolDone(r, TRUE)) /\ SpentFits("tools", ToolDone(r, TRUE))
    BY <2>1, ToolDoneFits
  <2> QED  BY <1>2, <2>1, <2>2, ToolDoneIs
<1>3. CASE x = Over(r, "ok") /\ ~r.inTool
  <2>1. /\ x \in Attempt /\ x.at = "ok" /\ ~x.inTool /\ x.round = 1 /\ x.own = 0
        /\ x.late = 0 /\ x.unmetered = r.unmetered /\ x.broke = r.broke
    BY <1>3, OverIs DEF Places
  <2>2. Links \in Nat \ {0} /\ MaxTools \in Nat \ {0}
    BY CallAssumption
  <2>3. LateFits(k, x)
    BY <2>1, <2>2 DEF LateFits, Before
  <2>4. SpentFits(k, x)
    BY <1>3, <2>1 DEF SpentFits, Attempt
  <2> QED  BY <2>1, <2>3, <2>4
<1>4. CASE k = "extract" /\ ~r.inTool /\ x = [r EXCEPT !.round = r.round + 1, !.at = "policy"]
  <2>1. /\ x \in Attempt /\ x.at = "policy" /\ x.inTool = r.inTool /\ x.own = r.own
        /\ x.late = r.late /\ x.unmetered = r.unmetered /\ x.broke = r.broke
    <3>1. r.round + 1 \in Nat /\ "policy" \in Places
      BY DEF Attempt, Places, Before
    <3> QED  BY <1>4, <3>1 DEF Attempt
  <2>2. LateFits(k, x)
    BY <1>4, <2>1 DEF LateFits, Before
  <2>3. SpentFits(k, x)
    BY <1>4, <2>1 DEF SpentFits
  <2> QED  BY <2>1, <2>2, <2>3
<1> QED  BY <1>1, <1>2, <1>3, <1>4 DEF Screened, Passed

\* The last answer of a loop, which has paid for all of them.
LEMMA LoopEnds ==
  ASSUME NEW r \in Attempt, ~r.inTool, r.late <= MaxTools,
         r.unmetered >= 0, r.unmetered = 0 \/ r.broke, NEW x \in Screened("tools", r)
  PROVE  /\ x \in Attempt /\ LateFits("tools", x) /\ SpentFits("tools", x)
         /\ x.late = r.late /\ x.broke = r.broke /\ x.at \notin {"loading", "quota"}
<1>1. PICK at \in {"ok", "threw"} : x = Over(r, at)
  BY DEF Screened, Passed, Threw
<1>2. /\ x \in Attempt /\ x.at = at /\ ~x.inTool /\ x.own = 0
      /\ x.late = r.late /\ x.unmetered = r.unmetered /\ x.broke = r.broke
  BY <1>1, OverIs DEF Places
<1>3. LateFits("tools", x)
  BY <1>2 DEF LateFits, Before
<1>4. SpentFits("tools", x)
  BY <1>2 DEF SpentFits
<1> QED  BY <1>1, <1>2, <1>3, <1>4

-----------------------------------------------------------------------------
(***************************************************************************)
(* Steps of one attempt.                                                   *)
(***************************************************************************)

\* What PolicyIsRecent says of a step.
Recent ==
  \A c \in Calls :
    call[c].at # "quota" /\ call'[c].at = "quota" =>
      \/ InForce(call'[c]) \in {policy, Default}
      \/ replaced[InForce(call'[c])] >= now - TTL

\* An attempt that keeps within its bounds and takes up a recent policy keeps IInv.
LEMMA Attempts ==
  ASSUME IInv, NEW c \in Calls, NEW x \in Attempt,
         call' = [call EXCEPT ![c] = x], UNCHANGED <<kind, policy, replaced, now>>,
         tokens' \in Nat, tokens <= tokens', usage' \in Nat, due' \in [Calls -> Nat],
         LateFits(KindOf(c), x), SpentFits(KindOf(c), x),
         x.late > 0 \/ x.broke => tokens' > MaxTokens,
         x.at = "loading" => ReadSince(InForce(x), now),
         x.at = "quota" /\ call[c].at # "quota" => ReadSince(InForce(x), now - TTL),
         cache' \in [guard : Int, until : Nat], cache'.until <= now + TTL,
         cache'.until > 0 => ReadSince(cache'.guard, cache'.until - TTL)
  PROVE  IInv' /\ Recent
<1>1. TypeOK /\ CallInv /\ PolicyInv
  BY DEF IInv
<1>2. /\ call' \in [Calls -> Attempt] /\ call'[c] = x
      /\ \A d \in Calls \ {c} : call'[d] = call[d]
  BY <1>1 DEF TypeOK
<1>3. TypeOK'
  BY <1>1, <1>2 DEF TypeOK, Calls
<1>4. \A d \in Calls : KindOf(d)' = KindOf(d)
  BY DEF KindOf
<1>5. ASSUME NEW d \in Calls
      PROVE  /\ LateFits(KindOf(d), call'[d]) /\ SpentFits(KindOf(d), call'[d])
             /\ call'[d].late > 0 \/ call'[d].broke => tokens' > MaxTokens
  <2>1. CASE d = c
    BY <1>2, <2>1
  <2>2. CASE d # c
    <3>1. tokens \in Nat /\ MaxTokens \in Nat
      BY <1>1, CallAssumption DEF TypeOK
    <3> QED  BY <1>1, <1>2, <2>2, <3>1 DEF CallInv
  <2> QED  BY <2>1, <2>2
<1>6. CallInv'
  BY <1>4, <1>5 DEF CallInv, Calls, LateFits, SpentFits, Credit
<1>7. PolicyInv'
  <2>1. \A d \in Calls : call'[d].at = "loading" => ReadSince(InForce(call'[d]), now)
    BY <1>1, <1>2 DEF PolicyInv
  <2> QED  BY <1>1, <2>1 DEF PolicyInv, ReadSince, Calls, InForce
<1>8. Recent
  BY <1>2 DEF Recent, ReadSince
<1> QED  BY <1>3, <1>6, <1>7, <1>8 DEF IInv

\* The same, where it takes up none.
LEMMA Moves ==
  ASSUME IInv, NEW c \in Calls, NEW x \in Attempt,
         call' = [call EXCEPT ![c] = x], UNCHANGED <<kind, policy, replaced, cache, now>>,
         tokens' \in Nat, tokens <= tokens', usage' \in Nat, due' \in [Calls -> Nat],
         LateFits(KindOf(c), x), SpentFits(KindOf(c), x),
         x.late > 0 \/ x.broke => tokens' > MaxTokens,
         \/ x.at \notin {"loading", "quota"}
         \/ x.at = call[c].at /\ InForce(x) = InForce(call[c])
  PROVE  IInv' /\ Recent
<1>1. /\ x.at = "loading" => ReadSince(InForce(x), now)
      /\ ~(x.at = "quota" /\ call[c].at # "quota")
  BY DEF IInv, PolicyInv
<1>2. /\ cache' \in [guard : Int, until : Nat] /\ cache'.until <= now + TTL
      /\ cache'.until > 0 => ReadSince(cache'.guard, cache'.until - TTL)
  BY DEF IInv, PolicyInv, TypeOK
<1>3. UNCHANGED <<kind, policy, replaced, now>>
  OBVIOUS
<1> QED  BY <1>1, <1>2, <1>3, Attempts

\* A call of its own attempt is of a known plugin and within its bounds.
LEMMA Standing ==
  ASSUME IInv, NEW c \in Calls
  PROVE  /\ call[c] \in Attempt /\ KindOf(c) \in AllKinds /\ tokens \in Nat /\ MaxTokens \in Nat
         /\ usage \in Nat /\ due \in [Calls -> Nat] /\ due[c] \in Nat
         /\ LateFits(KindOf(c), call[c]) /\ SpentFits(KindOf(c), call[c])
         /\ call[c].late > 0 \/ call[c].broke => tokens > MaxTokens
         /\ Exhausted => tokens > MaxTokens
<1>1. TypeOK /\ CallInv
  BY DEF IInv
<1>2. c[1] \in Node
  BY DEF Calls
<1>3. KindOf(c) \in AllKinds
  BY <1>1, <1>2, CallAssumption DEF TypeOK, KindOf, AllKinds
<1> QED  BY <1>1, <1>3, CallAssumption DEF TypeOK, CallInv, Exhausted

\* A place is one field of an attempt.
LEMMA AtIs ==
  ASSUME NEW r \in Attempt, NEW at \in Places
  PROVE  LET x == [r EXCEPT !.at = at] IN
         /\ x \in Attempt /\ x.at = at /\ x.inTool = r.inTool /\ x.tools = r.tools
         /\ x.round = r.round /\ x.useful = r.useful /\ x.guard = r.guard
         /\ x.toolGuard = r.toolGuard /\ x.own = r.own /\ x.late = r.late
         /\ x.unmetered = r.unmetered /\ x.broke = r.broke
BY DEF Attempt

\* The same, where it neither spends nor counts.
LEMMA MovesOn ==
  ASSUME IInv, NEW c \in Calls, NEW x \in Attempt,
         call' = [call EXCEPT ![c] = x],
         UNCHANGED <<kind, tokens, usage, due, policy, replaced, cache, now>>,
         LateFits(KindOf(c), x), SpentFits(KindOf(c), x),
         x.late = call[c].late \/ Exhausted, x.broke = call[c].broke,
         x.at \notin {"loading", "quota"}
  PROVE  IInv' /\ Recent
<1>1. /\ tokens' \in Nat /\ tokens <= tokens' /\ usage' \in Nat /\ due' \in [Calls -> Nat]
      /\ x.late > 0 \/ x.broke => tokens' > MaxTokens
  BY Standing
<1>2. UNCHANGED <<kind, policy, replaced, cache, now>>
  OBVIOUS
<1> QED  BY <1>1, <1>2, Moves

\* An attempt begins where it has neither asked nor spent.
LEMMA BeginKeeps ==
  ASSUME IInv, NEW c \in Calls, Begin(c)
  PROVE  IInv' /\ Recent
<1> DEFINE x == [call[c] EXCEPT !.at = "policy"]
<1>1. /\ x \in Attempt /\ x.at = "policy" /\ x.inTool = call[c].inTool /\ x.tools = call[c].tools
      /\ x.round = call[c].round /\ x.useful = call[c].useful /\ x.own = call[c].own
      /\ x.late = call[c].late /\ x.unmetered = call[c].unmetered /\ x.broke = call[c].broke
  <2>1. call[c] \in Attempt /\ "policy" \in Places
    BY Standing DEF Places, Before
  <2> QED  BY <2>1, AtIs
<1>2. /\ call[c].at = "off" /\ call' = [call EXCEPT ![c] = x]
      /\ UNCHANGED <<kind, tokens, usage, due, policy, replaced, cache, now>>
  BY DEF Begin
<1> HIDE DEF x
<1>3. LateFits(KindOf(c), x)
  BY <1>1, <1>2, Standing DEF LateFits, Before, Credit
<1>4. SpentFits(KindOf(c), x)
  BY <1>1, <1>2, Standing DEF SpentFits
<1> QED  BY <1>1, <1>2, <1>3, <1>4, MovesOn

\* An attempt that is no longer waited for goes on as it was.
LEMMA NodeTimesOutKeeps ==
  ASSUME IInv, NEW c \in Calls, NodeTimesOut(c)
  PROVE  IInv' /\ Recent
<1>1. PICK yes \in BOOLEAN : yes = TRUE
  OBVIOUS
<1> DEFINE r == call[c]
           x == [r EXCEPT !.dropped = yes]
<1>2. /\ x \in Attempt /\ x.at = r.at /\ x.inTool = r.inTool /\ x.tools = r.tools
      /\ x.round = r.round /\ x.useful = r.useful /\ x.guard = r.guard
      /\ x.toolGuard = r.toolGuard /\ x.own = r.own
      /\ x.late = r.late /\ x.unmetered = r.unmetered /\ x.broke = r.broke
  BY Standing DEF Attempt
<1>3. /\ call' = [call EXCEPT ![c] = x]
      /\ UNCHANGED <<kind, tokens, usage, due, policy, replaced, cache, now>>
  BY <1>1 DEF NodeTimesOut
<1> HIDE DEF x
<1>4. LateFits(KindOf(c), x) /\ SpentFits(KindOf(c), x) /\ InForce(x) = InForce(r)
  BY <1>2, Standing DEF LateFits, SpentFits, Credit, InForce
<1>5. /\ tokens' \in Nat /\ tokens <= tokens' /\ usage' \in Nat /\ due' \in [Calls -> Nat]
      /\ x.late > 0 \/ x.broke => tokens' > MaxTokens
  BY <1>2, <1>3, Standing
<1>6. UNCHANGED <<kind, policy, replaced, cache, now>>
  BY <1>3
<1> QED  BY <1>2, <1>3, <1>4, <1>5, <1>6, Moves

\* A call of a provider begins, late or not.
LEMMA AsksFits ==
  ASSUME NEW k \in AllKinds, NEW r \in Attempt, SpentFits(k, r), LateFits(k, r),
         \/ r.at = "quota"
         \/ k = "tools" /\ r.at = "turn" /\ r.useful /\ ~r.inTool
  PROVE  /\ Asks(r) \in Attempt /\ LateFits(k, Asks(r)) /\ SpentFits(k, Asks(r))
         /\ Asks(r).at = "asking" /\ Asks(r).broke = r.broke
         /\ Asks(r).late = r.late \/ Exhausted
<1>1. PICK late \in Nat : late = IF Exhausted THEN r.late + 1 ELSE r.late
  BY DEF Attempt
<1> DEFINE x == [r EXCEPT !.at = "asking", !.late = late]
<1>2. Asks(r) = x
  BY <1>1 DEF Asks
<1>3. "asking" \in Places
  BY DEF Places
<1>4. /\ x \in Attempt /\ x.at = "asking" /\ x.inTool = r.inTool /\ x.tools = r.tools
      /\ x.round = r.round /\ x.useful = r.useful /\ x.own = r.own
      /\ x.late = late /\ x.unmetered = r.unmetered /\ x.broke = r.broke
  BY <1>3 DEF Attempt
<1> HIDE DEF x
<1>5. /\ late \in r.late .. r.late + 1 /\ r.late \in Nat /\ r.tools \in Int /\ r.round \in Nat
      /\ MaxTools \in Nat \ {0} /\ Links \in Nat \ {0} /\ Credit(x) = Credit(r)
      /\ r.useful => Credit(r) = 1
      /\ Credit(r) \in {0, 1}
  BY <1>1, <1>4, CallAssumption DEF Attempt, Credit
<1>6. LateFits(k, x)
  <2>1. k \in {"agent", "extract"} => x.late <= 1
    BY <1>4, <1>5 DEF LateFits, Before
  <2>2. k = "route" => x.round <= Links /\ x.late <= Links /\ x.late <= x.round
    BY <1>4, <1>5 DEF LateFits, Before
  <2>3. k = "tools" => x.late <= MaxTools
    BY <1>4, <1>5 DEF LateFits, Before
  <2>4. k = "tools" /\ x.inTool => x.late + x.tools + Credit(x) <= MaxTools + 1
    BY <1>4, <1>5 DEF LateFits, Before
  <2>5. x.inTool => k = "tools" /\ x.tools \in 1 .. MaxTools
    BY <1>4 DEF LateFits
  <2> QED  BY <1>4, <2>1, <2>2, <2>3, <2>4, <2>5 DEF LateFits, Before
<1>7. SpentFits(k, x)
  BY <1>4 DEF SpentFits
<1> QED  BY <1>1, <1>2, <1>4, <1>6, <1>7

\* The quota refuses the call, or it begins.
LEMMA AssertQuotaKeeps ==
  ASSUME IInv, NEW c \in Calls, AssertQuota(c)
  PROVE  IInv' /\ Recent
<1> DEFINE k == KindOf(c)
           r == call[c]
<1>1. /\ r.at = "quota" /\ UNCHANGED <<kind, tokens, usage, due, policy, replaced, cache, now>>
      /\ \/ call' = [call EXCEPT ![c] = Threw(k, r, "quota")]
         \/ call' = [call EXCEPT ![c] = Asks(r)]
  BY DEF AssertQuota
<1>2. /\ r \in Attempt /\ k \in AllKinds /\ LateFits(k, r) /\ SpentFits(k, r)
      /\ r.late > 0 \/ r.broke => tokens > MaxTokens
      /\ Exhausted => tokens > MaxTokens
      /\ tokens \in Nat /\ usage \in Nat /\ due \in [Calls -> Nat]
  BY Standing
<1>3. CASE call' = [call EXCEPT ![c] = Threw(k, r, "quota")]
  <2> DEFINE x == Threw(k, r, "quota")
  <2>1. /\ x \in Attempt /\ LateFits(k, x) /\ SpentFits(k, x) /\ x.late = r.late
        /\ x.broke = r.broke /\ x.at \notin {"loading", "quota"}
    BY <1>1, <1>2, ThrewFits
  <2> HIDE DEF x
  <2>2. call' = [call EXCEPT ![c] = x]
    BY <1>3 DEF x
  <2> QED  BY <1>1, <1>2, <2>1, <2>2, MovesOn
<1>4. CASE call' = [call EXCEPT ![c] = Asks(r)]
  <2> DEFINE x == Asks(r)
  <2>1. /\ x \in Attempt /\ LateFits(k, x) /\ SpentFits(k, x) /\ x.at = "asking"
        /\ x.broke = r.broke /\ (x.late = r.late \/ Exhausted)
    BY <1>1, <1>2, AsksFits
  <2> HIDE DEF x
  <2>2. call' = [call EXCEPT ![c] = x]
    BY <1>4 DEF x
  <2> QED  BY <1>1, <1>2, <2>1, <2>2, MovesOn
<1> QED  BY <1>1, <1>3, <1>4

\* A provider that fails is thrown at the attempt, or its tool.
LEMMA ProviderFailsKeeps ==
  ASSUME IInv, NEW c \in Calls, ProviderFails(c)
  PROVE  IInv' /\ Recent
<1> DEFINE x == Threw(KindOf(c), call[c], "provider")
<1>1. /\ call[c].at = "asking" /\ call' = [call EXCEPT ![c] = x]
      /\ UNCHANGED <<kind, tokens, usage, due, policy, replaced, cache, now>>
  BY DEF ProviderFails
<1>2. /\ x \in Attempt /\ LateFits(KindOf(c), x) /\ SpentFits(KindOf(c), x) /\ x.late = call[c].late
      /\ x.broke = call[c].broke /\ x.at \notin {"loading", "quota"}
  BY <1>1, Standing, ThrewFits
<1> HIDE DEF x
<1> QED  BY <1>1, <1>2, MovesOn

\* A tool begins an exchange of its own, or answers at once.
LEMMA RunToolKeeps ==
  ASSUME IInv, NEW c \in Calls, RunTool(c)
  PROVE  IInv' /\ Recent
<1> DEFINE r == call[c]
<1>1. /\ r.at = "turn" /\ r.tools > 0
      /\ UNCHANGED <<kind, tokens, usage, due, policy, replaced, cache, now>>
      /\ \/ call' = [call EXCEPT ![c] = [r EXCEPT !.inTool = TRUE, !.at = "policy"]]
         \/ \E ok \in BOOLEAN : call' = [call EXCEPT ![c] = ToolDone(r, ok)]
  BY DEF RunTool
<1>2. /\ r \in Attempt /\ LateFits(KindOf(c), r) /\ SpentFits(KindOf(c), r)
      /\ r.late > 0 \/ r.broke => tokens > MaxTokens
      /\ tokens \in Nat /\ usage \in Nat /\ due \in [Calls -> Nat]
  BY Standing
<1>3. /\ KindOf(c) = "tools" /\ r.tools \in 1 .. MaxTools /\ r.late <= MaxTools
      /\ r.late + r.tools + Credit(r) <= MaxTools
  <2>1. r.late \in Nat /\ r.tools \in Int /\ MaxTools \in Nat /\ Credit(r) \in {0, 1}
    BY <1>2, CallAssumption DEF Attempt, Credit
  <2> QED  BY <1>1, <1>2, <2>1 DEF LateFits
<1>4. CASE call' = [call EXCEPT ![c] = [r EXCEPT !.inTool = TRUE, !.at = "policy"]]
  <2>1. PICK yes \in BOOLEAN, at \in Places : yes = TRUE /\ at = "policy"
    BY DEF Places, Before
  <2> DEFINE x == [r EXCEPT !.inTool = yes, !.at = at]
  <2>2. /\ x \in Attempt /\ x.inTool = yes /\ x.at = at /\ x.tools = r.tools /\ x.round = r.round
        /\ x.useful = r.useful /\ x.own = r.own /\ x.late = r.late
        /\ x.unmetered = r.unmetered /\ x.broke = r.broke
    BY <1>2 DEF Attempt
  <2>3. call' = [call EXCEPT ![c] = x]
    BY <1>4, <2>1
  <2> HIDE DEF x
  <2>4. LateFits("tools", x)
    BY <1>3, <2>1, <2>2 DEF LateFits, Before, Credit
  <2>5. SpentFits("tools", x)
    BY <1>1, <1>2, <1>3, <2>1, <2>2 DEF SpentFits
  <2> QED  BY <1>1, <1>2, <1>3, <2>1, <2>2, <2>3, <2>4, <2>5, MovesOn
<1>5. ASSUME NEW ok \in BOOLEAN, call' = [call EXCEPT ![c] = ToolDone(r, ok)]
      PROVE  IInv' /\ Recent
  <2> DEFINE x == ToolDone(r, ok)
  <2>1. LateFits("tools", x) /\ SpentFits("tools", x)
    BY <1>1, <1>2, <1>3, ToolDoneFits
  <2>2. x \in Attempt /\ x.at = "turn" /\ x.late = r.late /\ x.broke = r.broke
    BY <1>2, ToolDoneIs
  <2> HIDE DEF x
  <2>3. call' = [call EXCEPT ![c] = x]
    BY <1>5 DEF x
  <2> QED  BY <1>1, <1>2, <1>3, <2>1, <2>2, <2>3, MovesOn
<1> QED  BY <1>1, <1>4, <1>5

-----------------------------------------------------------------------------
(***************************************************************************)
(* An answer, and the turns of a loop.                                     *)
(***************************************************************************)

\* The answer that breaks the budget is not counted, and ends the attempt or its tool.
LEMMA BreakKeeps ==
  ASSUME IInv, NEW c \in Calls, NEW cost \in Costs, call[c].at = "asking",
         tokens' = tokens + cost, tokens + cost > MaxTokens,
         UNCHANGED <<kind, usage, due, policy, replaced, cache, now>>,
         call' = [call EXCEPT ![c] =
            Threw(KindOf(c), [call[c] EXCEPT !.unmetered = call[c].unmetered + cost, !.broke = TRUE],
                  "budget")]
  PROVE  IInv' /\ Recent
<1> DEFINE k == KindOf(c)
           r == call[c]
<1>1. /\ r \in Attempt /\ k \in AllKinds /\ LateFits(k, r) /\ SpentFits(k, r)
      /\ tokens \in Nat /\ usage \in Nat /\ due \in [Calls -> Nat] /\ cost \in Nat
  BY Standing, CallAssumption
<1>2. PICK yes \in BOOLEAN : yes = TRUE
  OBVIOUS
<1> DEFINE b == [r EXCEPT !.unmetered = r.unmetered + cost, !.broke = yes]
<1>3. r.unmetered + cost \in Int /\ r.unmetered + cost >= r.unmetered /\ r.own \in Nat
      /\ r.unmetered \in Int
  BY <1>1 DEF Attempt
<1>4. /\ b \in Attempt /\ b.at = r.at /\ b.inTool = r.inTool /\ b.tools = r.tools
      /\ b.round = r.round /\ b.useful = r.useful /\ b.own = r.own /\ b.late = r.late
      /\ b.unmetered = r.unmetered + cost /\ b.broke = yes
  BY <1>1, <1>3 DEF Attempt
<1> DEFINE x == Threw(k, b, "budget")
<1>5. call' = [call EXCEPT ![c] = x]
  BY <1>2
<1> HIDE DEF b
<1>6. LateFits(k, b)
  BY <1>1, <1>4 DEF LateFits, Credit
<1>7. SpentFits(k, b)
  BY <1>1, <1>2, <1>3, <1>4 DEF SpentFits
<1>8. /\ x \in Attempt /\ LateFits(k, x) /\ SpentFits(k, x)
      /\ x.at \notin {"loading", "quota"}
  BY <1>1, <1>4, <1>6, <1>7, ThrewFits
<1> HIDE DEF x
<1>9. /\ tokens' \in Nat /\ tokens <= tokens' /\ usage' \in Nat /\ due' \in [Calls -> Nat]
      /\ tokens' > MaxTokens /\ UNCHANGED <<kind, policy, replaced, cache, now>>
  BY <1>1
<1> QED  BY <1>5, <1>8, <1>9, Moves

\* One within the budget is paid for, or summed up by the loop.
LEMMA WithinKeeps ==
  ASSUME IInv, NEW c \in Calls, NEW cost \in Costs, call[c].at = "asking",
         tokens' = tokens + cost, ~(tokens + cost > MaxTokens),
         UNCHANGED <<kind, usage, policy, replaced, cache, now>>,
         LET r == [call[c] EXCEPT !.unmetered = call[c].unmetered + cost] IN
         IF KindOf(c) = "tools" /\ ~r.inTool THEN Turn(c, r, cost) ELSE Pays(c, r, cost)
  PROVE  IInv' /\ Recent
<1> DEFINE k == KindOf(c)
           r == call[c]
           p == [r EXCEPT !.unmetered = r.unmetered + cost]
<1>1. /\ r \in Attempt /\ k \in AllKinds /\ LateFits(k, r) /\ SpentFits(k, r)
      /\ tokens \in Nat /\ MaxTokens \in Nat /\ usage \in Nat /\ due \in [Calls -> Nat]
      /\ r.late > 0 \/ r.broke => tokens > MaxTokens
      /\ cost \in Nat
  BY Standing, CallAssumption
<1>2. r.late = 0 /\ ~r.broke
  BY <1>1 DEF Attempt
<1>3. r.own \in Nat /\ r.unmetered \in Int /\ r.unmetered = r.own /\ MaxTools \in Nat \ {0}
  BY <1>1, <1>2, CallAssumption DEF Attempt, SpentFits
<1>4. /\ p \in Attempt /\ p.at = "asking" /\ p.inTool = r.inTool /\ p.tools = r.tools
      /\ p.round = r.round /\ p.useful = r.useful /\ p.own = r.own /\ p.late = r.late
      /\ p.unmetered = r.unmetered + cost /\ p.broke = r.broke
  <2>1. r.unmetered + cost \in Int
    BY <1>1, <1>3
  <2> QED  BY <1>1, <2>1 DEF Attempt
<1>5. IF k = "tools" /\ ~p.inTool THEN Turn(c, p, cost) ELSE Pays(c, p, cost)
  OBVIOUS
<1> HIDE DEF p
<1>6. /\ tokens' \in Nat /\ tokens <= tokens'
      /\ usage' \in Nat /\ UNCHANGED <<kind, policy, replaced, cache, now>>
  BY <1>1
<1>7. CASE ~(k = "tools" /\ ~p.inTool)
  <2>1. PICK x \in Screened(k, [p EXCEPT !.unmetered = p.unmetered - cost]) :
          call' = [call EXCEPT ![c] = x]
    BY <1>5, <1>7 DEF Pays
  <2>2. due' = [due EXCEPT ![c] = due[c] + cost]
    BY <1>5, <1>7 DEF Pays
  <2> DEFINE q == [p EXCEPT !.unmetered = p.unmetered - cost]
  <2>3. /\ q \in Attempt /\ q.at = "asking" /\ q.inTool = r.inTool /\ q.tools = r.tools
        /\ q.round = r.round /\ q.useful = r.useful /\ q.own = r.own /\ q.late = r.late
        /\ q.unmetered = r.unmetered /\ q.broke = r.broke
    <3>1. p.unmetered - cost = r.unmetered
      BY <1>1, <1>3, <1>4
    <3> QED  BY <1>3, <1>4, <3>1 DEF Attempt
  <2> HIDE DEF q
  <2>4. LateFits(k, q) /\ SpentFits(k, q)
    BY <1>1, <2>3 DEF LateFits, SpentFits, Credit
  <2>5. x \in Screened(k, q)
    BY <2>1 DEF q
  <2>6. /\ x \in Attempt /\ LateFits(k, x) /\ SpentFits(k, x)
        /\ x.late = 0 /\ x.broke = r.broke /\ x.at \notin {"loading", "quota"}
    BY <1>1, <1>2, <1>4, <1>7, <2>3, <2>4, <2>5, ScreenedFits
  <2>7. /\ tokens' \in Nat /\ tokens <= tokens' /\ usage' \in Nat /\ due' \in [Calls -> Nat]
        /\ ~(x.late > 0 \/ x.broke)
        /\ UNCHANGED <<kind, policy, replaced, cache, now>>
    BY <1>1, <1>2, <1>6, <2>2, <2>6
  <2> QED  BY <2>1, <2>6, <2>7, Moves
<1>8. CASE k = "tools" /\ ~p.inTool
  <2> DEFINE m == [p EXCEPT !.own = p.own + cost]
  <2>1. /\ m \in Attempt /\ m.at = "asking" /\ ~m.inTool /\ m.own = r.own + cost /\ m.late = r.late
        /\ m.unmetered = r.own + cost /\ ~m.broke
    <3>1. p.own + cost \in Nat
      BY <1>1, <1>3, <1>4
    <3> QED  BY <1>2, <1>3, <1>4, <1>8, <3>1 DEF Attempt
  <2>2. Turn(c, p, cost)
    BY <1>5, <1>8
  <2>3. CASE Pays(c, m, m.own)
    <3> DEFINE q == [m EXCEPT !.unmetered = m.unmetered - m.own]
    <3> HIDE DEF m
    <3>1. PICK x \in Screened(k, q) : call' = [call EXCEPT ![c] = x]
      BY <2>3 DEF Pays
    <3>2. due' = [due EXCEPT ![c] = due[c] + m.own]
      BY <2>3 DEF Pays
    <3>3. m.unmetered - m.own = 0
      BY <1>1, <1>3, <2>1
    <3>4. q \in Attempt /\ ~q.inTool /\ q.late = r.late /\ q.unmetered = 0 /\ ~q.broke
      BY <2>1, <3>3 DEF Attempt
    <3> HIDE DEF q
    <3>5. /\ x \in Attempt /\ LateFits("tools", x) /\ SpentFits("tools", x)
          /\ x.late = q.late /\ x.broke = q.broke /\ x.at \notin {"loading", "quota"}
      BY <1>2, <1>3, <1>8, <3>1, <3>4, LoopEnds
    <3>6. /\ tokens' \in Nat /\ tokens <= tokens' /\ usage' \in Nat /\ due' \in [Calls -> Nat]
          /\ ~(x.late > 0 \/ x.broke)
          /\ UNCHANGED <<kind, policy, replaced, cache, now>>
      BY <1>1, <1>2, <1>3, <1>6, <2>1, <3>2, <3>4, <3>5
    <3> QED  BY <1>8, <3>1, <3>5, <3>6, Moves
  <2>4. ASSUME NEW n \in 1 .. MaxTools, UNCHANGED due,
               call' = [call EXCEPT ![c] = [m EXCEPT !.at = "turn", !.tools = n, !.useful = FALSE]]
        PROVE  IInv' /\ Recent
    <3>1. PICK no \in BOOLEAN, at \in Places : no = FALSE /\ at = "turn"
      BY DEF Places
    <3> DEFINE x == [m EXCEPT !.at = at, !.tools = n, !.useful = no]
    <3> HIDE DEF m
    <3>2. call' = [call EXCEPT ![c] = x]
      BY <2>4, <3>1
    <3>3. /\ x \in Attempt /\ x.at = at /\ x.tools = n /\ x.useful = no /\ x.inTool = m.inTool
          /\ x.own = m.own /\ x.late = m.late /\ x.unmetered = m.unmetered /\ x.broke = m.broke
      <4>1. n \in Int
        BY <1>3
      <4> QED  BY <2>1, <4>1 DEF Attempt
    <3> HIDE DEF x
    <3>4. LateFits("tools", x)
      BY <1>2, <1>3, <2>1, <3>1, <3>3 DEF LateFits, Before, Credit
    <3>5. SpentFits("tools", x)
      BY <1>1, <1>3, <2>1, <3>1, <3>3 DEF SpentFits
    <3>6. /\ tokens' \in Nat /\ tokens <= tokens' /\ usage' \in Nat /\ due' \in [Calls -> Nat]
          /\ ~(x.late > 0 \/ x.broke) /\ x.at \notin {"loading", "quota"}
          /\ UNCHANGED <<kind, policy, replaced, cache, now>>
      BY <1>1, <1>2, <1>6, <2>1, <2>4, <3>1, <3>3
    <3> QED  BY <1>8, <3>2, <3>3, <3>4, <3>5, <3>6, Moves
  <2> HIDE DEF m
  <2> QED  BY <2>2, <2>3, <2>4 DEF Turn, m
<1> QED  BY <1>7, <1>8

\* So every answer keeps the invariant.
LEMMA AnswerKeeps ==
  ASSUME IInv, NEW c \in Calls, Answer(c)
  PROVE  IInv' /\ Recent
<1>1. PICK cost \in Costs :
        LET r == [call[c] EXCEPT !.unmetered = @ + cost] IN
        /\ Charge(cost)
        /\ IF tokens + cost > MaxTokens
           THEN /\ call' = [call EXCEPT ![c] = Threw(KindOf(c), [r EXCEPT !.broke = TRUE], "budget")]
                /\ UNCHANGED due
           ELSE IF KindOf(c) = "tools" /\ ~r.inTool THEN Turn(c, r, cost)
           ELSE Pays(c, r, cost)
  BY DEF Answer
<1>2. call[c].at = "asking" /\ UNCHANGED <<kind, usage, policy, replaced, cache, now>>
  BY DEF Answer
<1>3. tokens' = tokens + cost
  BY <1>1 DEF Charge
<1>4. CASE tokens + cost > MaxTokens
  BY <1>1, <1>2, <1>3, <1>4, BreakKeeps
<1>5. CASE ~(tokens + cost > MaxTokens)
  BY <1>1, <1>2, <1>3, <1>5, WithinKeeps
<1> QED  BY <1>4, <1>5

\* The loop goes on with a call, or pays for what it has summed up.
LEMMA NextTurnKeeps ==
  ASSUME IInv, NEW c \in Calls, NextTurn(c)
  PROVE  IInv' /\ Recent
<1> DEFINE k == KindOf(c)
           r == call[c]
<1>1. /\ r.at = "turn" /\ r.tools = 0 /\ UNCHANGED <<kind, tokens, usage, policy, replaced, cache, now>>
      /\ \/ Pays(c, r, r.own)
         \/ r.useful /\ call' = [call EXCEPT ![c] = Asks([r EXCEPT !.round = @ + 1])] /\ UNCHANGED due
  BY DEF NextTurn, GoesOn
<1>2. /\ r \in Attempt /\ k \in AllKinds /\ LateFits(k, r) /\ SpentFits(k, r)
      /\ tokens \in Nat /\ usage \in Nat /\ due \in [Calls -> Nat]
      /\ r.late > 0 \/ r.broke => tokens > MaxTokens
  BY Standing
<1>3. k = "tools" /\ ~r.inTool /\ r.late <= MaxTools
  BY <1>1, <1>2 DEF LateFits, Before
<1>4. r.own \in Nat /\ r.unmetered \in Int /\ r.own <= r.unmetered /\ (r.unmetered = r.own \/ r.broke)
      /\ r.round \in Nat
  BY <1>1, <1>2 DEF SpentFits, Attempt
<1>5. CASE Pays(c, r, r.own)
  <2> DEFINE q == [r EXCEPT !.unmetered = r.unmetered - r.own]
  <2>1. PICK x \in Screened(k, q) : call' = [call EXCEPT ![c] = x]
    BY <1>5 DEF Pays
  <2>2. due' = [due EXCEPT ![c] = due[c] + r.own]
    BY <1>5 DEF Pays
  <2>3. r.unmetered - r.own \in Int /\ r.unmetered - r.own >= 0 /\ (r.unmetered - r.own = 0 \/ r.broke)
    BY <1>4
  <2>4. /\ q \in Attempt /\ ~q.inTool /\ q.late = r.late /\ q.broke = r.broke
        /\ q.unmetered = r.unmetered - r.own
    BY <1>2, <1>3, <2>3 DEF Attempt
  <2> HIDE DEF q
  <2>5. /\ x \in Attempt /\ LateFits("tools", x) /\ SpentFits("tools", x)
        /\ x.late = q.late /\ x.broke = q.broke /\ x.at \notin {"loading", "quota"}
    BY <1>3, <2>1, <2>3, <2>4, LoopEnds
  <2>6. /\ tokens' \in Nat /\ tokens <= tokens' /\ usage' \in Nat /\ due' \in [Calls -> Nat]
        /\ x.late > 0 \/ x.broke => tokens' > MaxTokens
        /\ UNCHANGED <<kind, policy, replaced, cache, now>>
    BY <1>1, <1>2, <1>4, <2>2, <2>4, <2>5
  <2> QED  BY <1>3, <2>1, <2>5, <2>6, Moves
<1>6. CASE r.useful /\ call' = [call EXCEPT ![c] = Asks([r EXCEPT !.round = @ + 1])] /\ UNCHANGED due
  <2> DEFINE q == [r EXCEPT !.round = r.round + 1]
             x == Asks(q)
  <2>1. r.round + 1 \in Nat
    BY <1>4
  <2>2. /\ q \in Attempt /\ q.at = r.at /\ q.inTool = r.inTool /\ q.tools = r.tools
        /\ q.useful = r.useful /\ q.own = r.own /\ q.late = r.late
        /\ q.unmetered = r.unmetered /\ q.broke = r.broke
    BY <1>2, <2>1 DEF Attempt
  <2>3. call' = [call EXCEPT ![c] = x]
    BY <1>6
  <2> HIDE DEF q
  <2>4. LateFits(k, q) /\ SpentFits(k, q)
    BY <1>2, <1>3, <2>2 DEF LateFits, SpentFits, Credit
  <2>5. /\ x \in Attempt /\ LateFits(k, x) /\ SpentFits(k, x) /\ x.at = "asking"
        /\ x.broke = q.broke /\ (x.late = q.late \/ Exhausted)
    <3>1. \/ q.at = "quota"
          \/ k = "tools" /\ q.at = "turn" /\ q.useful /\ ~q.inTool
      BY <1>1, <1>3, <1>6, <2>2
    <3>2. q \in Attempt
      BY <2>2
    <3> HIDE DEF k, x
    <3>3. /\ Asks(q) \in Attempt /\ LateFits(k, Asks(q)) /\ SpentFits(k, Asks(q))
          /\ Asks(q).at = "asking" /\ Asks(q).broke = q.broke
          /\ Asks(q).late = q.late \/ Exhausted
      BY <1>2, <2>4, <3>1, <3>2, AsksFits
    <3> QED  BY <3>3, Zenon DEF x
  <2> HIDE DEF x
  <2> QED  BY <1>1, <1>6, <2>2, <2>3, <2>5, MovesOn
<1> QED  BY <1>1, <1>5, <1>6

-----------------------------------------------------------------------------
(***************************************************************************)
(* The policy.                                                             *)
(***************************************************************************)

\* An attempt that puts a policy in force has it in force.
LEMMA PutsIs ==
  ASSUME NEW r \in Attempt, NEW guard \in Int, NEW at \in Places
  PROVE  LET x == [Puts(r, guard) EXCEPT !.at = at] IN
         /\ x \in Attempt /\ x.at = at /\ InForce(x) = guard /\ x.inTool = r.inTool
         /\ x.tools = r.tools /\ x.round = r.round /\ x.useful = r.useful /\ x.own = r.own
         /\ x.late = r.late /\ x.unmetered = r.unmetered /\ x.broke = r.broke
<1>1. CASE r.inTool
  <2>1. [Puts(r, guard) EXCEPT !.at = at] = [r EXCEPT !.toolGuard = guard, !.at = at]
    BY <1>1 DEF Puts, Attempt
  <2> QED  BY <1>1, <2>1 DEF Attempt, InForce
<1>2. CASE ~r.inTool
  <2>1. [Puts(r, guard) EXCEPT !.at = at] = [r EXCEPT !.guard = guard, !.at = at]
    BY <1>2 DEF Puts, Attempt
  <2> QED  BY <1>2, <2>1 DEF Attempt, InForce
<1> QED  BY <1>1, <1>2

\* Whatever an attempt waits for before it asks, it keeps within its bounds.
LEMMA WaitsFits ==
  ASSUME NEW k \in AllKinds, NEW r \in Attempt, NEW x \in Attempt,
         LateFits(k, r), SpentFits(k, r), r.at \in Before, x.at \in Before,
         x.inTool = r.inTool, x.tools = r.tools, x.round = r.round, x.useful = r.useful,
         x.own = r.own, x.late = r.late, x.unmetered = r.unmetered, x.broke = r.broke
  PROVE  LateFits(k, x) /\ SpentFits(k, x)
BY DEF LateFits, SpentFits, Credit, Before

\* An attempt that takes up a policy of the last TTL keeps the invariant.
LEMMA TakesKeeps ==
  ASSUME IInv, NEW c \in Calls, NEW guard \in Int,
         call[c].at \in {"policy", "loading"}, Takes(c, guard), ReadSince(guard, now - TTL),
         UNCHANGED <<kind, tokens, usage, due, policy, replaced, now>>,
         cache' \in [guard : Int, until : Nat], cache'.until <= now + TTL,
         cache'.until > 0 => ReadSince(cache'.guard, cache'.until - TTL)
  PROVE  IInv' /\ Recent
<1> DEFINE k == KindOf(c)
           r == call[c]
<1>1. /\ r \in Attempt /\ k \in AllKinds /\ LateFits(k, r) /\ SpentFits(k, r)
      /\ r.late > 0 \/ r.broke => tokens > MaxTokens
      /\ tokens \in Nat /\ usage \in Nat /\ due \in [Calls -> Nat]
  BY Standing
<1>2. /\ tokens' \in Nat /\ tokens <= tokens' /\ usage' \in Nat /\ due' \in [Calls -> Nat]
      /\ r.late > 0 \/ r.broke => tokens' > MaxTokens
      /\ UNCHANGED <<kind, policy, replaced, now>>
  BY <1>1
<1>3. CASE call' = [call EXCEPT ![c] = [Puts(r, guard) EXCEPT !.at = "quota"]]
  <2> DEFINE x == [Puts(r, guard) EXCEPT !.at = "quota"]
  <2>1. /\ x \in Attempt /\ x.at = "quota" /\ InForce(x) = guard /\ x.inTool = r.inTool
        /\ x.tools = r.tools /\ x.round = r.round /\ x.useful = r.useful /\ x.own = r.own
        /\ x.late = r.late /\ x.unmetered = r.unmetered /\ x.broke = r.broke
    <3>1. "quota" \in Places
      BY DEF Places, Before
    <3> QED  BY <1>1, <3>1, PutsIs
  <2>2. call' = [call EXCEPT ![c] = x]
    BY <1>3
  <2> HIDE DEF x
  <2>3. r.at \in Before /\ x.at \in Before
    BY <2>1 DEF Before
  <2>4. LateFits(k, x) /\ SpentFits(k, x)
    BY <1>1, <2>1, <2>3, WaitsFits
  <2>5. /\ x.late > 0 \/ x.broke => tokens' > MaxTokens
        /\ x.at = "loading" => ReadSince(InForce(x), now)
        /\ x.at = "quota" /\ r.at # "quota" => ReadSince(InForce(x), now - TTL)
    BY <1>2, <2>1
  <2> QED  BY <1>2, <2>1, <2>2, <2>4, <2>5, Attempts
<1>4. CASE call' = [call EXCEPT ![c] = Threw(k, r, "blocked")]
  <2> DEFINE x == Threw(k, r, "blocked")
  <2>1. /\ x \in Attempt /\ LateFits(k, x) /\ SpentFits(k, x) /\ x.late = r.late
        /\ x.broke = r.broke /\ x.at \notin {"loading", "quota"}
    BY <1>1, ThrewFits
  <2>2. call' = [call EXCEPT ![c] = x]
    BY <1>4
  <2> HIDE DEF x
  <2>3. /\ x.late > 0 \/ x.broke => tokens' > MaxTokens
        /\ x.at = "loading" => ReadSince(InForce(x), now)
        /\ x.at = "quota" /\ r.at # "quota" => ReadSince(InForce(x), now - TTL)
    BY <1>2, <2>1
  <2> QED  BY <1>2, <2>1, <2>2, <2>3, Attempts
<1> QED  BY <1>3, <1>4 DEF Takes

\* What has been read since t has been read since any earlier time.
LEMMA ReadEarlier ==
  ASSUME IInv, NEW guard, NEW t \in Int, NEW s \in Int, s <= t,
         ReadSince(guard, t)
  PROVE  ReadSince(guard, s)
<1>1. \A v \in 0 .. policy : replaced[v] \in Nat
  <2>1. policy \in 0 .. MaxEdits /\ MaxEdits \in Nat /\ replaced \in [0 .. MaxEdits -> Nat]
    BY CallAssumption DEF IInv, TypeOK
  <2> QED  BY <2>1
<1> QED  BY <1>1 DEF ReadSince

\* A hit of the cache.
LEMMA HitPolicyKeeps ==
  ASSUME IInv, NEW c \in Calls, HitPolicy(c)
  PROVE  IInv' /\ Recent
<1>1. /\ call[c].at = "policy" /\ cache.until > now /\ Takes(c, cache.guard)
      /\ UNCHANGED <<kind, tokens, usage, due, policy, replaced, cache, now>>
  BY DEF HitPolicy, Fresh
<1>2. /\ cache \in [guard : Int, until : Nat] /\ cache.until <= now + TTL
      /\ cache.until > 0 => ReadSince(cache.guard, cache.until - TTL)
      /\ now \in Nat /\ TTL \in Nat
  BY CallAssumption DEF IInv, TypeOK, PolicyInv
<1>3. /\ cache.guard \in Int /\ cache.until > 0
      /\ cache.until - TTL \in Int /\ now - TTL \in Int /\ now - TTL <= cache.until - TTL
  BY <1>1, <1>2
<1>4. ReadSince(cache.guard, now - TTL)
  BY <1>2, <1>3, ReadEarlier
<1> QED  BY <1>1, <1>2, <1>3, <1>4, TakesKeeps

\* A read of the row, or one that failed.
LEMMA ReadPolicyKeeps ==
  ASSUME IInv, NEW c \in Calls, ReadPolicy(c)
  PROVE  IInv' /\ Recent
<1> DEFINE k == KindOf(c)
           r == call[c]
<1>1. PICK guard \in {policy, Default} :
        call' = [call EXCEPT ![c] = [Puts(r, guard) EXCEPT !.at = "loading"]]
  BY DEF ReadPolicy
<1>2. /\ r.at = "policy"
      /\ UNCHANGED <<kind, tokens, usage, due, policy, replaced, cache, now>>
  BY DEF ReadPolicy
<1>3. /\ r \in Attempt /\ k \in AllKinds /\ LateFits(k, r) /\ SpentFits(k, r)
      /\ r.late > 0 \/ r.broke => tokens > MaxTokens
      /\ tokens \in Nat /\ usage \in Nat /\ due \in [Calls -> Nat]
  BY Standing
<1>4. guard \in Int /\ ReadSince(guard, now)
  BY DEF IInv, TypeOK, ReadSince, Default
<1> DEFINE x == [Puts(r, guard) EXCEPT !.at = "loading"]
<1>5. /\ x \in Attempt /\ x.at = "loading" /\ InForce(x) = guard /\ x.inTool = r.inTool
      /\ x.tools = r.tools /\ x.round = r.round /\ x.useful = r.useful /\ x.own = r.own
      /\ x.late = r.late /\ x.unmetered = r.unmetered /\ x.broke = r.broke
  <2>1. "loading" \in Places
    BY DEF Places, Before
  <2> QED  BY <1>3, <1>4, <2>1, PutsIs
<1>6. call' = [call EXCEPT ![c] = x]
  BY <1>1
<1> HIDE DEF x
<1>7. r.at \in Before /\ x.at \in Before
  BY <1>2, <1>5 DEF Before
<1>8. LateFits(k, x) /\ SpentFits(k, x)
  BY <1>3, <1>5, <1>7, WaitsFits
<1>9. /\ tokens' \in Nat /\ tokens <= tokens' /\ usage' \in Nat /\ due' \in [Calls -> Nat]
      /\ x.late > 0 \/ x.broke => tokens' > MaxTokens
      /\ x.at = "loading" => ReadSince(InForce(x), now)
      /\ ~(x.at = "quota" /\ r.at # "quota")
      /\ UNCHANGED <<kind, policy, replaced, now>>
  BY <1>2, <1>3, <1>4, <1>5
<1>10. /\ cache' \in [guard : Int, until : Nat] /\ cache'.until <= now + TTL
       /\ cache'.until > 0 => ReadSince(cache'.guard, cache'.until - TTL)
  BY <1>2 DEF IInv, PolicyInv, TypeOK
<1> QED  BY <1>5, <1>6, <1>8, <1>9, <1>10, Attempts

\* What was read is taken up and cached.
LEMMA KeepPolicyKeeps ==
  ASSUME IInv, NEW c \in Calls, KeepPolicy(c)
  PROVE  IInv' /\ Recent
<1> DEFINE guard == InForce(call[c])
<1>1. /\ call[c].at = "loading" /\ Takes(c, guard)
      /\ cache' = [guard |-> guard, until |-> now + TTL]
      /\ UNCHANGED <<kind, tokens, usage, due, policy, replaced, now>>
  BY DEF KeepPolicy
<1>2. guard \in Int /\ ReadSince(guard, now) /\ now \in Nat /\ TTL \in Nat
  BY <1>1, Standing, CallAssumption DEF IInv, TypeOK, PolicyInv, InForce, Attempt
<1>3. ReadSince(guard, now - TTL)
  BY <1>2, ReadEarlier
<1>4. /\ cache' \in [guard : Int, until : Nat] /\ cache'.until <= now + TTL
      /\ cache'.until > 0 => ReadSince(cache'.guard, cache'.until - TTL)
  <2> HIDE DEF guard
  <2>1. now + TTL \in Nat /\ (now + TTL) - TTL = now
    BY <1>2
  <2> QED  BY <1>1, <1>2, <2>1
<1> HIDE DEF guard
<1> QED  BY <1>1, <1>2, <1>3, <1>4, TakesKeeps

-----------------------------------------------------------------------------
(***************************************************************************)
(* Steps of no attempt.                                                    *)
(***************************************************************************)

\* A step that leaves the attempts alone takes up no policy.
LEMMA StillRecent ==
  ASSUME IInv, UNCHANGED call
  PROVE  Recent
BY DEF Recent

\* The bounds on the attempts do not look at the quota, the policy or the time.
LEMMA CallInvStays ==
  ASSUME CallInv, UNCHANGED <<kind, call, tokens>>
  PROVE  CallInv'
BY DEF CallInv, KindOf, Calls, LateFits, SpentFits, Credit

\* An increment that arrives changes the usage only.
LEMMA ApplyUsageKeeps ==
  ASSUME IInv, NEW c \in Calls, ApplyUsage(c)
  PROVE  IInv' /\ Recent
<1>1. /\ usage' = usage + due[c] /\ due' = [due EXCEPT ![c] = 0]
      /\ UNCHANGED <<kind, call, tokens, policy, replaced, cache, now>>
  BY DEF ApplyUsage
<1>2. TypeOK'
  BY <1>1 DEF IInv, TypeOK, Calls
<1>3. PolicyInv'
  BY <1>1 DEF IInv, PolicyInv, ReadSince, InForce, Calls
<1> QED  BY <1>1, <1>2, <1>3, CallInvStays, StillRecent DEF IInv

\* The version that is replaced was the one in force until now.
LEMMA EditPolicyKeeps ==
  ASSUME IInv, EditPolicy
  PROVE  IInv' /\ Recent
<1>1. /\ policy < MaxEdits /\ policy' = policy + 1 /\ replaced' = [replaced EXCEPT ![policy] = now]
      /\ UNCHANGED <<kind, call, tokens, usage, due, cache, now>>
  BY DEF EditPolicy
<1>2. /\ policy \in 0 .. MaxEdits /\ MaxEdits \in Nat /\ replaced \in [0 .. MaxEdits -> Nat]
      /\ now \in Nat /\ TTL \in Nat /\ cache.until \in Nat /\ cache.until <= now + TTL
  BY CallAssumption DEF IInv, TypeOK, PolicyInv
<1>3. TypeOK'
  BY <1>1, <1>2 DEF IInv, TypeOK, Calls
<1> DEFINE Since(guard, t) ==
      guard = Default \/ (guard \in 0 .. policy' /\ (guard = policy' \/ replaced'[guard] >= t))
<1>4. \A guard, t \in Int : t <= now /\ ReadSince(guard, t) => Since(guard, t)
  BY <1>1, <1>2 DEF ReadSince
<1>5. PolicyInv'
  <2>1. /\ cache.until - TTL \in Int /\ cache.until - TTL <= now /\ cache.guard \in Int /\ now \in Int
        /\ \A c \in Calls : InForce(call[c]) \in Int
    <3>1. cache.guard \in Int /\ cache.until \in Nat
      BY DEF IInv, TypeOK
    <3>2. \A a \in Attempt : InForce(a) \in Int
      BY DEF InForce, Attempt
    <3>3. \A c \in Calls : call[c] \in Attempt
      BY DEF IInv, TypeOK
    <3>4. \A c \in Calls : InForce(call[c]) \in Int
      BY <3>2, <3>3
    <3> QED  BY <1>2, <3>1, <3>4
  <2>2. cache.until > 0 => ReadSince(cache.guard, cache.until - TTL)
    BY DEF IInv, PolicyInv
  <2>3. \A c \in Calls : call[c].at = "loading" => ReadSince(InForce(call[c]), now)
    BY DEF IInv, PolicyInv
  <2>4. cache.until > 0 => Since(cache.guard, cache.until - TTL)
    BY <1>4, <2>1, <2>2
  <2>5. \A c \in Calls : call[c].at = "loading" => Since(InForce(call[c]), now)
    BY <1>2, <1>4, <2>1, <2>3
  <2> QED  BY <1>1, <2>4, <2>5 DEF IInv, PolicyInv, ReadSince, InForce, Calls
<1> QED  BY <1>1, <1>3, <1>5, CallInvStays, StillRecent DEF IInv

\* An emptied cache holds no version.
LEMMA EvictPolicyKeeps ==
  ASSUME IInv, EvictPolicy
  PROVE  IInv' /\ Recent
<1>1. /\ cache' = [guard |-> 0, until |-> 0]
      /\ UNCHANGED <<kind, call, tokens, usage, due, policy, replaced, now>>
  BY DEF EvictPolicy
<1>2. TypeOK'
  BY <1>1 DEF IInv, TypeOK, Calls
<1>3. cache'.until = 0 /\ now \in Nat /\ TTL \in Nat
  BY <1>1, CallAssumption DEF IInv, TypeOK
<1>4. PolicyInv'
  BY <1>1, <1>3 DEF IInv, PolicyInv, ReadSince, InForce, Calls
<1> QED  BY <1>1, <1>2, <1>4, CallInvStays, StillRecent DEF IInv

\* Time passes while no attempt is loading the policy.
LEMMA TickKeeps ==
  ASSUME IInv, Tick
  PROVE  IInv' /\ Recent
<1>1. /\ \A c \in Calls : call[c].at # "loading"
      /\ now' = now + 1
      /\ UNCHANGED <<kind, call, tokens, usage, due, policy, replaced, cache>>
  BY DEF Tick
<1>2. now \in Nat /\ TTL \in Nat /\ cache.until \in Nat
  BY CallAssumption DEF IInv, TypeOK
<1>3. TypeOK'
  BY <1>1, <1>2 DEF IInv, TypeOK, Calls
<1>4. PolicyInv'
  BY <1>1, <1>2 DEF IInv, PolicyInv, ReadSince, Calls
<1> QED  BY <1>1, <1>3, <1>4, CallInvStays, StillRecent DEF IInv

-----------------------------------------------------------------------------
(***************************************************************************)
(* The theorems.                                                           *)
(***************************************************************************)

\* The initial states satisfy the invariant.
LEMMA InitIInv ==
  ASSUME Init
  PROVE  IInv
<1>1. /\ Off \in Attempt /\ Off.at = "off" /\ ~Off.inTool /\ Off.round = 1 /\ Off.own = 0
      /\ Off.late = 0 /\ Off.unmetered = 0 /\ ~Off.broke
  BY DEF Off, Attempt, Places, Before
<1>2. \A c \in Calls : call[c] = Off
  BY DEF Init
<1>3. TypeOK
  <2>1. MaxTime + 1 \in Nat /\ MaxEdits \in Nat
    BY CallAssumption
  <2> QED  BY <1>1, <2>1 DEF Init, TypeOK
<1>4. CallInv
  BY <1>1, <1>2, CallAssumption DEF CallInv, LateFits, SpentFits, Before
<1>5. PolicyInv
  <2>1. now = 0 /\ cache.until = 0 /\ TTL \in Nat
    BY CallAssumption DEF Init
  <2> QED  BY <1>1, <1>2, <2>1 DEF PolicyInv
<1> QED  BY <1>3, <1>4, <1>5 DEF IInv

\* Every step keeps the invariant, and takes up only a recent policy.
LEMMA NextIInv ==
  ASSUME IInv, [Next]_vars
  PROVE  IInv' /\ Recent
<1>1. ASSUME NEW c \in Calls, Begin(c)
      PROVE  IInv' /\ Recent
  BY <1>1, BeginKeeps
<1>2. ASSUME NEW c \in Calls, NodeTimesOut(c)
      PROVE  IInv' /\ Recent
  BY <1>2, NodeTimesOutKeeps
<1>3. ASSUME NEW c \in Calls, PolicyStep(c)
      PROVE  IInv' /\ Recent
  BY <1>3, HitPolicyKeeps, ReadPolicyKeeps, KeepPolicyKeeps DEF PolicyStep
<1>4. ASSUME NEW c \in Calls, ModelStep(c)
      PROVE  IInv' /\ Recent
  BY <1>4, AssertQuotaKeeps, AnswerKeeps, ProviderFailsKeeps, ApplyUsageKeeps, RunToolKeeps,
     NextTurnKeeps DEF ModelStep
<1>5. CASE EditPolicy
  BY <1>5, EditPolicyKeeps
<1>6. CASE EvictPolicy
  BY <1>6, EvictPolicyKeeps
<1>7. CASE Tick
  BY <1>7, TickKeeps
<1>8. CASE UNCHANGED vars
  <2>1. UNCHANGED <<kind, call, tokens, usage, due, policy, replaced, cache, now>>
    BY <1>8 DEF vars
  <2>2. TypeOK'
    BY <2>1 DEF IInv, TypeOK, Calls
  <2>3. PolicyInv'
    BY <2>1 DEF IInv, PolicyInv, ReadSince, InForce, Calls
  <2> QED  BY <2>1, <2>2, <2>3, CallInvStays, StillRecent DEF IInv
<1> QED  BY <1>1, <1>2, <1>3, <1>4, <1>5, <1>6, <1>7, <1>8 DEF Next

\* The inductive invariant holds of every behaviour.
THEOREM Invariance == Spec => []IInv
<1>1. Init => IInv
  BY InitIInv
<1>2. IInv /\ [Next]_vars => IInv'
  BY NextIInv
<1> QED  BY <1>1, <1>2, PTL DEF Spec

\* Over the budget an attempt begins no more calls than its plugin's loops allow,
\* for every number of retries, links and tools (LateCallsAreFew).
THEOREM LateCallsHold == Spec => []LateCallsAreFew
<1>1. ASSUME IInv, NEW c \in Calls
      PROVE  call[c].late <= MostLate(KindOf(c))
  <2>1. KindOf(c) \in AllKinds /\ LateFits(KindOf(c), call[c])
    BY <1>1, Standing
  <2> QED  BY <2>1 DEF LateFits, MostLate, AllKinds
<1>2. IInv => LateCallsAreFew
  BY <1>1 DEF LateCallsAreFew
<1> QED  BY <1>2, Invariance, PTL

\* What an attempt has spent is counted once (CountedOnce).
THEOREM CountHolds == Spec => []CountedOnce
<1>1. ASSUME IInv, NEW c \in Calls
      PROVE  /\ call[c].unmetered >= 0
             /\ Ended(c) /\ ~Excused(c) => call[c].unmetered = 0
  <2>1. call[c] \in Attempt /\ SpentFits(KindOf(c), call[c])
    BY <1>1, Standing
  <2>2. call[c].own \in Nat /\ call[c].unmetered \in Int
    BY <2>1 DEF Attempt
  <2> QED  BY <2>1, <2>2 DEF SpentFits, Ended, Excused
<1>2. IInv => CountedOnce
  BY <1>1 DEF CountedOnce
<1> QED  BY <1>2, Invariance, PTL

\* No input passes under a policy that was replaced more than a TTL ago
\* (PolicyIsRecent).
THEOREM PolicyHolds == Spec => PolicyIsRecent
<1> DEFINE Step ==
      \A c \in Calls :
        call[c].at # "quota" /\ call'[c].at = "quota" =>
          LET guard == InForce(call'[c])
          IN guard \in {policy, Default} \/ replaced[guard] >= now - TTL
<1>1. IInv /\ [Next]_vars => Step
  BY NextIInv DEF Recent
<1>2. IInv /\ [Next]_vars => [Step]_vars
  BY <1>1
<1>3. PolicyIsRecent <=> [][Step]_vars
  BY PTL DEF PolicyIsRecent
<1> HIDE DEF Step
<1> QED  BY <1>2, <1>3, Invariance, PTL DEF Spec
=============================================================================
