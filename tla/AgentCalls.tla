----------------------------- MODULE AgentCalls ------------------------------
(***************************************************************************)
(* The model calls of one run: the nodes whose plugin is agent, model.route, *)
(* agent.extract (agent.classify is one with a single shot) or agent.tools,  *)
(* under the retry loop of the executor.  They share the token counter on    *)
(* the run's ctx (engine/limits.js), the monthly quota of the project        *)
(* (auth/quotas.js) and the cache of guardrail policies of the worker        *)
(* process (guardrails/apply.js).                                            *)
(*                                                                           *)
(* A call is one attempt of one node.  The text itself is left out, whether  *)
(* a strict policy blocks it is open.  The prompt cache is left out too: it  *)
(* serves calls without a text hook, and the executor always passes one.     *)
(***************************************************************************)
EXTENDS Integers, FiniteSets

CONSTANTS
    Node,        \* the nodes, or the items of a batch node, of the run
    Kinds,       \* the plugins they may have
    MaxRetries,  \* node.retry, clamped
    Links,       \* the length of the chain of a fallback route
    MaxShots,    \* one-shots of agent.extract, its maxRetries + 1
    MaxTurns,    \* maxIterations of agent.tools
    MaxTools,    \* bound: tools a model asks for in one turn
    Costs,       \* tokens an answer may report, 0 when it reports none
    MaxTokens,   \* the budget of the run
    QuotaLimit,  \* tokens_per_month of the project
    TTL,         \* CACHE_TTL_MS of the policies, in ticks
    MaxEdits,    \* bound: edits of the policy
    MaxTime      \* bound: ticks

ASSUME CallAssumption ==
    /\ Kinds \subseteq {"agent", "route", "extract", "tools"}
    /\ MaxRetries \in Nat /\ Links \in Nat \ {0} /\ MaxShots \in Nat \ {0}
    /\ MaxTurns \in Nat \ {0} /\ MaxTools \in Nat \ {0}
    /\ Costs \subseteq Nat /\ MaxTokens \in Nat \ {0} /\ QuotaLimit \in Nat
    /\ TTL \in Nat \ {0} /\ MaxEdits \in Nat /\ MaxTime \in Nat

VARIABLES
    kind,      \* the plugin of each node
    call,      \* each attempt of each node
    tokens,    \* ctx._tokens
    usage,     \* quota_usage of this month
    due,       \* increments of usage each call has sent and not seen applied
    policy,    \* guardrail_policies: how often it has been edited
    replaced,  \* history: when each of its versions was replaced
    cache,     \* the worker's copy of it
    now

vars == <<kind, call, tokens, usage, due, policy, replaced, cache, now>>

Calls == Node \X (1 .. MaxRetries + 1)

\* round is the link, the shot or the turn; tools what is left of the turn's
\* tool calls, useful whether one of them succeeded; guard and toolGuard the
\* policies in force; own the usage a loop has summed up.  The rest is history:
\* late counts the provider calls begun over the budget, unmetered is what has
\* been spent and not counted, broke says that the attempt broke the budget.
Off == [at |-> "off", round |-> 1, inTool |-> FALSE, tools |-> 0, useful |-> FALSE,
        guard |-> 0, toolGuard |-> 0, own |-> 0, dropped |-> FALSE,
        late |-> 0, unmetered |-> 0, broke |-> FALSE]

Init ==
    /\ kind \in [Node -> Kinds]
    /\ call = [c \in Calls |-> Off]
    /\ tokens = 0 /\ usage = 0
    /\ due = [c \in Calls |-> 0]
    /\ policy \in 0 .. MaxEdits /\ replaced = [v \in 0 .. MaxEdits |-> MaxTime + 1]
    /\ cache = [guard |-> 0, until |-> 0]
    /\ now = 0

KindOf(c) == kind[c[1]]
Exhausted == \E c \in Calls : call[c].broke
Ended(c) == call[c].at \in {"ok", "threw"}

-----------------------------------------------------------------------------
(***************************************************************************)
(* The retry loop of the executor.  It tries again whatever was thrown.  An  *)
(* attempt that timed out is dropped, and goes on.                           *)
(***************************************************************************)
GivenUp(c) == call[c].at = "threw" \/ call[c].dropped

Begin(c) ==
    /\ call[c].at = "off"
    /\ c[2] > 1 => GivenUp(<<c[1], c[2] - 1>>)
    /\ call' = [call EXCEPT ![c].at = "policy"]
    /\ UNCHANGED <<kind, tokens, usage, due, policy, replaced, cache, now>>

NodeTimesOut(c) ==
    /\ call[c].at # "off" /\ ~Ended(c) /\ ~call[c].dropped
    /\ call' = [call EXCEPT ![c].dropped = TRUE]
    /\ UNCHANGED <<kind, tokens, usage, due, policy, replaced, cache, now>>

-----------------------------------------------------------------------------
(***************************************************************************)
(* How one exchange with a model ends.  Each operator gives the next states  *)
(* of the attempt r of a node with plugin k.                                 *)
(***************************************************************************)
\* An attempt that is over keeps its history only.
Over(r, at) == [Off EXCEPT !.at = at, !.dropped = r.dropped, !.late = r.late,
                           !.unmetered = r.unmetered, !.broke = r.broke]

ToolDone(r, ok) == [r EXCEPT !.at = "turn", !.tools = @ - 1, !.useful = @ \/ ok,
                             !.inTool = FALSE, !.toolGuard = 0]

\* A tool that throws is an answer to the model; a route goes on to its next
\* link unless a guardrail or the quota refused; anything else is thrown on.
Threw(k, r, code) ==
    IF r.inTool THEN ToolDone(r, FALSE)
    ELSE IF k = "route" /\ code \notin {"blocked", "quota"} /\ r.round < Links
    THEN [r EXCEPT !.round = @ + 1, !.at = "policy"]
    ELSE Over(r, "threw")

\* A version of the policy that is odd blocks what it flags; Default is what a
\* failed load falls back to, with every detector off.
Default == -1
Strict(guard) == guard # Default /\ guard % 2 = 1

\* The answer that passes the guardrail: extract may find that it does not
\* match its schema and have it put right, but returns the last one anyhow.
Passed(k, r) ==
    IF r.inTool THEN {ToolDone(r, TRUE)}
    ELSE {Over(r, "ok")}
           \cup (IF k = "extract" /\ r.round < MaxShots
                 THEN {[r EXCEPT !.round = @ + 1, !.at = "policy"]} ELSE {})

\* The policy of the attempt, or of the tool it is calling.
InForce(r) == IF r.inTool THEN r.toolGuard ELSE r.guard
Puts(r, guard) == IF r.inTool THEN [r EXCEPT !.toolGuard = guard] ELSE [r EXCEPT !.guard = guard]

Screened(k, r) ==
    Passed(k, r)
      \cup (IF Strict(InForce(r)) THEN {Threw(k, r, "blocked")} ELSE {})

\* A call of the provider begins.
Asks(r) == [r EXCEPT !.at = "asking", !.late = IF Exhausted THEN @ + 1 ELSE @]

-----------------------------------------------------------------------------
(***************************************************************************)
(* The policy: loadProjectPolicy and the guardrails on the input.            *)
(***************************************************************************)
\* The input passes the guardrail, or a strict policy blocks it.
Takes(c, guard) ==
    \/ call' = [call EXCEPT ![c] = [Puts(@, guard) EXCEPT !.at = "quota"]]
    \/ Strict(guard) /\ call' = [call EXCEPT ![c] = Threw(KindOf(c), @, "blocked")]

MutAnyHit == cache.until > 0
Fresh == cache.until > now

HitPolicy(c) ==
    /\ call[c].at = "policy" /\ Fresh
    /\ Takes(c, cache.guard)
    /\ UNCHANGED <<kind, tokens, usage, due, policy, replaced, cache, now>>

\* The row is read, or cannot be ...
ReadPolicy(c) ==
    /\ call[c].at = "policy" /\ ~Fresh
    /\ \E guard \in {policy, Default} :
         call' = [call EXCEPT ![c] = [Puts(@, guard) EXCEPT !.at = "loading"]]
    /\ UNCHANGED <<kind, tokens, usage, due, policy, replaced, cache, now>>

\* ... and what came back is cached, whatever has happened to it meanwhile.
KeepPolicy(c) ==
    /\ call[c].at = "loading"
    /\ Takes(c, InForce(call[c]))
    /\ cache' = [guard |-> InForce(call[c]), until |-> now + TTL]
    /\ UNCHANGED <<kind, tokens, usage, due, policy, replaced, now>>

\* PUT /guardrails/policy: the row, then the Map of the process that served
\* the request.  That is the worker's own only where one process runs both; in
\* production the second step never happens.
EditPolicy ==
    /\ policy < MaxEdits
    /\ policy' = policy + 1
    /\ replaced' = [replaced EXCEPT ![policy] = now]
    /\ UNCHANGED <<kind, call, tokens, usage, due, cache, now>>

EvictPolicy ==
    /\ policy > 0
    /\ cache' = [guard |-> 0, until |-> 0]
    /\ UNCHANGED <<kind, call, tokens, usage, due, policy, replaced, now>>

\* Time passes.  Queries are short beside a TTL: none takes a whole tick.
Tick ==
    /\ now < MaxTime /\ \A c \in Calls : call[c].at # "loading"
    /\ now' = now + 1
    /\ UNCHANGED <<kind, call, tokens, usage, due, policy, replaced, cache>>

-----------------------------------------------------------------------------
(***************************************************************************)
(* Quota, provider, budget.                                                  *)
(***************************************************************************)
AssertQuota(c) ==
    /\ call[c].at = "quota"
    /\ call' = [call EXCEPT ![c] = IF usage >= QuotaLimit THEN Threw(KindOf(c), @, "quota")
                                   ELSE Asks(@)]
    /\ UNCHANGED <<kind, tokens, usage, due, policy, replaced, cache, now>>

\* incrementUsage is sent, not awaited; then comes the guardrail on the output.
Pays(c, r, amount) ==
    /\ due' = [due EXCEPT ![c] = @ + amount]
    /\ \E s \in Screened(KindOf(c), [r EXCEPT !.unmetered = @ - amount]) :
         call' = [call EXCEPT ![c] = s]

\* The model of agent.tools asks for tools, or not.
MutCountsEachTurn(c, r, cost) ==
    LET summed == [r EXCEPT !.own = @ + cost]
    IN \/ Pays(c, summed, summed.own)
       \/ /\ \E n \in 1 .. MaxTools :
               call' = [call EXCEPT ![c] = [summed EXCEPT !.at = "turn", !.tools = n, !.useful = FALSE,
                                                          !.unmetered = @ - cost]]
          /\ due' = [due EXCEPT ![c] = @ + cost]

Turn(c, r, cost) ==
    LET summed == [r EXCEPT !.own = @ + cost]
    IN \/ Pays(c, summed, summed.own)
       \/ /\ \E n \in 1 .. MaxTools :
               call' = [call EXCEPT ![c] = [summed EXCEPT !.at = "turn", !.tools = n, !.useful = FALSE]]
          /\ UNCHANGED due

\* chargeTokens adds before it compares.
Charge(cost) == tokens' = tokens + cost

Answer(c) ==
    /\ call[c].at = "asking"
    /\ \E cost \in Costs :
         LET r == [call[c] EXCEPT !.unmetered = @ + cost]
         IN /\ Charge(cost)
            /\ IF tokens + cost > MaxTokens
               THEN /\ call' = [call EXCEPT ![c] = Threw(KindOf(c), [r EXCEPT !.broke = TRUE], "budget")]
                    /\ UNCHANGED due
               ELSE IF KindOf(c) = "tools" /\ ~r.inTool THEN Turn(c, r, cost)
               ELSE Pays(c, r, cost)
    /\ UNCHANGED <<kind, usage, policy, replaced, cache, now>>

ProviderFails(c) ==
    /\ call[c].at = "asking"
    /\ call' = [call EXCEPT ![c] = Threw(KindOf(c), @, "provider")]
    /\ UNCHANGED <<kind, tokens, usage, due, policy, replaced, cache, now>>

ApplyUsage(c) ==
    /\ due[c] > 0
    /\ usage' = usage + due[c] /\ due' = [due EXCEPT ![c] = 0]
    /\ UNCHANGED <<kind, call, tokens, policy, replaced, cache, now>>

-----------------------------------------------------------------------------
(***************************************************************************)
(* The loop of agent.tools.                                                  *)
(***************************************************************************)
\* The next tool of the turn: an agent, or another plugin, which may fail.
RunTool(c) ==
    /\ call[c].at = "turn" /\ call[c].tools > 0
    /\ \/ call' = [call EXCEPT ![c].inTool = TRUE, ![c].at = "policy"]
       \/ \E ok \in BOOLEAN : call' = [call EXCEPT ![c] = ToolDone(@, ok)]
    /\ UNCHANGED <<kind, tokens, usage, due, policy, replaced, cache, now>>

\* All tools have answered.  If all of them failed, or the turns are used up,
\* the loop stops.
MutGoesOn(r) == r.useful \/ r.round < MaxTurns
GoesOn(r) == r.useful

NextTurn(c) ==
    LET r == call[c]
    IN /\ r.at = "turn" /\ r.tools = 0
       /\ IF ~GoesOn(r) THEN Pays(c, r, r.own)
          ELSE IF r.round = MaxTurns THEN Pays(c, r, r.own)
          ELSE call' = [call EXCEPT ![c] = Asks([r EXCEPT !.round = @ + 1])] /\ UNCHANGED due
    /\ UNCHANGED <<kind, tokens, usage, policy, replaced, cache, now>>

-----------------------------------------------------------------------------
PolicyStep(c) == HitPolicy(c) \/ ReadPolicy(c) \/ KeepPolicy(c)

ModelStep(c) ==
    AssertQuota(c) \/ Answer(c) \/ ProviderFails(c) \/ ApplyUsage(c) \/ RunTool(c) \/ NextTurn(c)

Next ==
    \/ \E c \in Calls : Begin(c) \/ NodeTimesOut(c) \/ PolicyStep(c) \/ ModelStep(c)
    \/ EditPolicy \/ EvictPolicy \/ Tick

Spec == Init /\ [][Next]_vars
-----------------------------------------------------------------------------
(***************************************************************************)
(* Properties.                                                             *)
(***************************************************************************)
\* Once the budget is exceeded an attempt begins one call of a provider at the
\* most, a route one per link and agent.tools as many as there are tools in a
\* turn: although the retry loop, the route and the tools all swallow the error
\* (limits.js:64, "runaway LLM loops should fail loud"), they come to an end.
MostLate(k) == CASE k = "route" -> Links [] k = "tools" -> MaxTools [] OTHER -> 1

LateCallsAreFew == \A c \in Calls : call[c].late <= MostLate(KindOf(c))

\* What an attempt has spent is counted against the quota once, whatever became
\* of its text and whether or not it was waited for.  Two cases are excused: the
\* answer that broke the budget, and the turns of an agent.tools that threw
\* later on (agent.js:309, agent.tools.js:261).
Excused(c) == call[c].broke \/ (KindOf(c) = "tools" /\ call[c].at = "threw")

CountedOnce ==
    \A c \in Calls :
        /\ call[c].unmetered >= 0
        /\ Ended(c) /\ ~Excused(c) => call[c].unmetered = 0

\* No input passes under a policy that was replaced more than a TTL ago, unless
\* the policy could not be read (apply.js:6, "policy edits propagate without a
\* worker restart").
PolicyIsRecent ==
    [][\A c \in Calls :
         call[c].at # "quota" /\ call'[c].at = "quota" =>
           LET guard == InForce(call'[c])
           IN guard \in {policy, Default} \/ replaced[guard] >= now - TTL]_vars
=============================================================================
