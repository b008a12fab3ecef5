-------------------------------- MODULE RestApi --------------------------------
(***************************************************************************)
(* REST calls from the SDK (sdk/src/client.ts) and the admin console       *)
(* (admin-console/src/lib/api/client.ts) to the API server                 *)
(* (api-server/src/index.ts): the clients' retries, the server's rate      *)
(* limit, the routes that change namespaces, policies, notification        *)
(* channels and rules or start an execution, and the lists.                *)
(*                                                                         *)
(* A call is answered by one or more attempts.  An attempt waits to        *)
(* arrive, is counted by the rate limit, then handled; an abort by the     *)
(* client does not stop it.  A statement of a route may fail, or take      *)
(* effect and have its answer lost.  All calls come from one address.      *)
(***************************************************************************)
EXTENDS Naturals, Sequences, FiniteSets, FiniteSetsExt, SequencesExt, Subsequences

CONSTANTS
  Calls,          \* calls made, each of them once and in the order of their numbers
  Slugs,          \* namespaces
  Names,          \* policies
  MaxRetries,     \* the SDK's maxRetries (3), and the console's maxAttempts - 1 (2)
  RateLimitMax,   \* RATE_LIMIT_MAX
  Windows,        \* values of RATE_LIMIT_WINDOW_MS, in minutes
  CleanupAge,     \* age at which a counter is swept (120 s: 2 minutes)
  MaxMinute,      \* bound on the clock, in minutes
  MaxRuns         \* bound on the executions started

ASSUME RestAssumption ==
  /\ Calls \subseteq Nat \ {0} /\ IsFiniteSet(Calls) /\ MaxRuns \in Nat /\ MaxRetries \in Nat /\ RateLimitMax \in Nat \ {0}
  /\ Windows \subseteq Nat \ {0} /\ CleanupAge \in Nat /\ MaxMinute \in Nat

VARIABLES
  window,       \* the window of this deployment
  minute,       \* the clock
  due,          \* whether the sweep of this minute is still to come
  hits,         \* rateLimitStore: window start -> count
  passed,       \* history: attempts let through in the current window
  calls,        \* per call: who makes it, what, and how it stands
  namespaces,   \* per slug: which of created_at, suspended_at, deleted_at its row has
  policies,     \* policies with their version, least recently updated first
  channels,     \* ids of notification_channels, oldest first
  rules,        \* notification_rules with their channel, oldest first
  runs          \* executions started, oldest first, and whether their id names the agent

rateVars == <<window, minute, due, hits, passed>>
rowVars == <<namespaces, policies, channels, rules, runs>>
restVars == <<rateVars, calls, rowVars>>

Ops ==
  [kind : {"createNamespace", "updateNamespace", "deleteNamespace"}, on : Slugs]
  \cup [kind : {"createPolicy", "updatePolicy", "deletePolicy"}, on : Names]
  \cup [kind : {"createChannel", "updateChannel", "deleteChannel", "createRule", "updateRule",
                "deleteRule", "createAgent", "updateAgent", "deleteAgent", "runAgent", "rollbackAgent"},
        on : {"seed"}]

Stamps == {"created", "suspended", "deleted"}

Seed == <<0, 0>>   \* id of the channel and of the rule that exist already

NoCall == [client |-> "idle", who |-> "sdk", op |-> [kind |-> "runAgent", on |-> "seed"], attempt |-> 0,
           server |-> "none", answer |-> "none", effects |-> 0, errors |-> 0]

RestTypeOK ==
  /\ minute \in 0 .. MaxMinute /\ due \in BOOLEAN /\ passed \in Nat /\ DOMAIN hits \subseteq Nat
  /\ \A k \in Calls :
       /\ calls[k].client \in {"idle", "waiting", "done"} /\ calls[k].op \in Ops
       /\ calls[k].server \in {"none", "queued", "handling", "answered"}
       /\ calls[k].attempt \in 0 .. MaxRetries + 1
  /\ namespaces \in [Slugs -> SUBSET Stamps]

(* One namespace, policy, channel and rule exist already. *)
RestInit ==
  /\ window \in Windows /\ minute = 0 /\ due = TRUE /\ hits = <<>> /\ passed = 0
  /\ calls = [k \in Calls |-> NoCall]
  /\ \E s \in Slugs, n \in Names :
       /\ namespaces = [x \in Slugs |-> IF x = s THEN {"created"} ELSE {}]
       /\ policies = <<[name |-> n, version |-> 1]>>
  /\ channels = <<Seed>> /\ rules = <<[id |-> Seed, channel |-> Seed]>>
  /\ runs = <<>>

-----------------------------------------------------------------------------
(* The clients.  A 5xx is retried by both and a 429 by the SDK; an abort, a lost connection *)
(* and every other answer end the call.                                                    *)

Begin(k, who, op) ==
  /\ calls[k].client = "idle" /\ \A j \in Calls : j < k => calls[j].client # "idle"
  /\ calls' = [calls EXCEPT ![k] = [NoCall EXCEPT !.client = "waiting", !.who = who, !.op = op,
                                                   !.attempt = 1, !.server = "queued"]]
  /\ UNCHANGED <<rateVars, rowVars>>

SdkRetries_Unbounded(c) == (c.answer = "error" /\ c.attempt <= MaxRetries) \/ c.answer = "limited"
SdkRetries(c) == c.attempt <= MaxRetries /\ c.answer \in {"error", "limited"}
ConsoleRetries(c) == c.attempt <= MaxRetries /\ c.answer = "error"
Retried(c) == IF c.who = "sdk" THEN SdkRetries(c) ELSE ConsoleRetries(c)

Receive(k) ==
  LET c == calls[k]
  IN /\ c.client = "waiting" /\ c.server = "answered"
     /\ calls' = [calls EXCEPT ![k] =
          IF Retried(c)
          THEN [c EXCEPT !.attempt = IF @ > MaxRetries THEN @ ELSE @ + 1, !.server = "queued", !.answer = "none"]
          ELSE [c EXCEPT !.client = "done"]]
     /\ UNCHANGED <<rateVars, rowVars>>

(* The SDK's AbortController: whatever the server still does goes unnoticed. *)
Abort(k) ==
  /\ calls[k].client = "waiting" /\ calls[k].who = "sdk" /\ calls[k].server \in {"queued", "handling"}
  /\ calls' = [calls EXCEPT ![k].client = "done", ![k].answer = "timeout"]
  /\ UNCHANGED <<rateVars, rowVars>>

-----------------------------------------------------------------------------
(* onRequest: count the attempt in its window, refuse it above the maximum.  Counts are told *)
(* apart up to the first that is refused.                                                    *)

WindowStart == (minute \div window) * window
Counted ==
  IF WindowStart \notin DOMAIN hits THEN 1
  ELSE IF hits[WindowStart] > RateLimitMax THEN hits[WindowStart] ELSE hits[WindowStart] + 1
Answered(c, a) == [c EXCEPT !.server = "answered", !.answer = IF c.client = "waiting" THEN a ELSE @,
                            !.errors = IF a = "error" THEN @ + 1 ELSE @]

OnRequest(k) ==
  /\ calls[k].server = "queued"
  /\ hits' = [w \in DOMAIN hits \cup {WindowStart} |-> IF w = WindowStart THEN Counted ELSE hits[w]]
  /\ IF Counted > RateLimitMax
     THEN calls' = [calls EXCEPT ![k] = Answered(@, "limited")] /\ UNCHANGED passed
     ELSE calls' = [calls EXCEPT ![k].server = "handling"] /\ passed' = passed + 1
  /\ UNCHANGED <<window, minute, due, rowVars>>

(* The sweep: an interval fires once within every minute, so that a window that began        *)
(* CleanupAge minutes ago is older than that by then.                                         *)
Swept_Young == {w \in DOMAIN hits : w < minute}
Swept == {w \in DOMAIN hits : w + CleanupAge <= minute}

CleanupRateLimit ==
  /\ due
  /\ due' = FALSE
  /\ hits' = [w \in DOMAIN hits \ Swept |-> hits[w]]
  /\ UNCHANGED <<window, minute, passed, calls, rowVars>>

Tick ==
  /\ minute < MaxMinute /\ minute' = minute + 1
  /\ due' = TRUE
  /\ passed' = IF minute' % window = 0 THEN 0 ELSE passed
  /\ UNCHANGED <<window, hits, calls, rowVars>>

-----------------------------------------------------------------------------
(* The routes.  "can" is whether the statement finds or may insert its row; o is "ok",     *)
(* "failed" or "lost" (it took effect, and the route sees an error).                       *)

Handling(k, kind) == calls[k].server = "handling" /\ calls[k].op.kind = kind
Takes(can, o) == can /\ o # "failed"
AnswerOf_NoRowCheck(can, o, refused, failed) == IF o # "ok" THEN failed ELSE "ok"
AnswerOf(can, o, refused, failed) == IF o # "ok" THEN failed ELSE IF can THEN "ok" ELSE refused
Reply(k, can, o, refused, failed) ==
  LET c == Answered(calls[k], AnswerOf(can, o, refused, failed))
  IN /\ calls' = [calls EXCEPT ![k] = [c EXCEPT !.effects = IF Takes(can, o) THEN @ + 1 ELSE @]]
     /\ UNCHANGED rateVars

(* Answered before the route runs: 401, 403 or 415 by a preHandler, 400 by the body parser. *)
Refuse(k) ==
  /\ calls[k].server = "handling"
  /\ calls' = [calls EXCEPT ![k] = Answered(@, "denied")]
  /\ UNCHANGED <<rateVars, rowVars>>

(* Namespaces: deletion is a mark, and a slug is unique among marked rows too. *)
Exists_Any(s) == "created" \in namespaces[s]
Exists(s) == "created" \in namespaces[s] /\ "deleted" \notin namespaces[s]
Stamp(s, mark, takes) == namespaces' = IF takes THEN [namespaces EXCEPT ![s] = @ \cup {mark}] ELSE namespaces

(* What these routes answer to any error of their handler. *)
CreateFailed == "conflict"
UpdateFailed == "notfound"
DeleteFailed == "notfound"

CreateNamespace(k, o) ==
  LET s == calls[k].op.on  can == namespaces[s] = {}
  IN /\ Handling(k, "createNamespace")
     /\ Stamp(s, "created", Takes(can, o))
     /\ Reply(k, can, o, CreateFailed, CreateFailed)
     /\ UNCHANGED <<policies, channels, rules, runs>>

UpdateNamespace(k, o) ==
  /\ Handling(k, "updateNamespace")
  /\ Reply(k, Exists(calls[k].op.on), o, UpdateFailed, UpdateFailed)
  /\ UNCHANGED rowVars

DeleteNamespace(k, o) ==
  LET s == calls[k].op.on
  IN /\ Handling(k, "deleteNamespace")
     /\ Stamp(s, "deleted", Takes(Exists(s), o))
     /\ Reply(k, Exists(s), o, DeleteFailed, DeleteFailed)
     /\ UNCHANGED <<policies, channels, rules, runs>>

(* SuspendNamespace is a gRPC method without a REST route. *)
SuspendNamespace(s) ==
  /\ Exists(s) /\ Stamp(s, "suspended", TRUE)
  /\ UNCHANGED <<rateVars, calls, policies, channels, rules, runs>>

(* Policies: the name is unique, an update counts the version up. *)
PolicyNames == {policies[i].name : i \in 1 .. Len(policies)}
Policy(n) == CHOOSE p \in ToSet(policies) : p.name = n
Others(n) == Keep(policies, {i \in DOMAIN policies : policies[i].name # n})

CreatePolicy(k, o) ==
  LET n == calls[k].op.on  can == n \notin PolicyNames
  IN /\ Handling(k, "createPolicy")
     /\ policies' = IF Takes(can, o) THEN Append(policies, [name |-> n, version |-> 1]) ELSE policies
     /\ Reply(k, can, o, "conflict", "error")
     /\ UNCHANGED <<namespaces, channels, rules, runs>>

UpdatePolicy(k, o) ==
  LET n == calls[k].op.on  can == n \in PolicyNames
  IN /\ Handling(k, "updatePolicy")
     /\ policies' = IF Takes(can, o) THEN Append(Others(n), [Policy(n) EXCEPT !.version = @ + 1]) ELSE policies
     /\ Reply(k, can, o, "notfound", "error")
     /\ UNCHANGED <<namespaces, channels, rules, runs>>

DeletePolicy(k, o) ==
  LET n == calls[k].op.on  can == n \in PolicyNames
  IN /\ Handling(k, "deletePolicy")
     /\ policies' = IF Takes(can, o) THEN Others(n) ELSE policies
     /\ Reply(k, can, o, "notfound", "error")
     /\ UNCHANGED <<namespaces, channels, rules, runs>>

(* Channels and rules get a fresh id per attempt; a rule needs its channel and goes with it. *)
FreshId(k) == <<k, calls[k].attempt>>

CreateChannel(k, o) ==
  /\ Handling(k, "createChannel")
  /\ channels' = IF Takes(TRUE, o) THEN Append(channels, FreshId(k)) ELSE channels
  /\ Reply(k, TRUE, o, "error", "error")
  /\ UNCHANGED <<namespaces, policies, rules, runs>>

DeleteChannel(k, o) ==
  LET can == Seed \in ToSet(channels)
  IN /\ Handling(k, "deleteChannel")
     /\ channels' = IF Takes(can, o) THEN Keep(channels, {i \in DOMAIN channels : channels[i] # Seed}) ELSE channels
     /\ rules' = IF Takes(can, o) THEN Keep(rules, {i \in DOMAIN rules : rules[i].channel # Seed}) ELSE rules
     /\ Reply(k, can, o, "notfound", "error")
     /\ UNCHANGED <<namespaces, policies, runs>>

CreateRule(k, o) ==
  LET can == Seed \in ToSet(channels)
  IN /\ Handling(k, "createRule")
     /\ rules' = IF Takes(can, o) THEN Append(rules, [id |-> FreshId(k), channel |-> Seed]) ELSE rules
     /\ Reply(k, can, o, "error", "error")
     /\ UNCHANGED <<namespaces, policies, channels, runs>>

DeleteRule(k, o) ==
  LET can == \E r \in ToSet(rules) : r.id = Seed
  IN /\ Handling(k, "deleteRule")
     /\ rules' = IF Takes(can, o) THEN Keep(rules, {i \in DOMAIN rules : rules[i].id # Seed}) ELSE rules
     /\ Reply(k, can, o, "notfound", "error")
     /\ UNCHANGED <<namespaces, policies, channels, runs>>

UpdateChannel(k, o) ==
  /\ Handling(k, "updateChannel")
  /\ Reply(k, Seed \in ToSet(channels), o, "notfound", "error")
  /\ UNCHANGED rowVars

UpdateRule(k, o) ==
  /\ Handling(k, "updateRule")
  /\ Reply(k, \E r \in ToSet(rules) : r.id = Seed, o, "notfound", "error")
  /\ UNCHANGED rowVars

(* The agent routes call the gRPC handlers in process.  These take the namespace from the   *)
(* metadata of the call, which only GET /api/agents passes: the others are refused before   *)
(* any query, whether or not the agent is there.                                            *)
PassesMetadata == {"listAgents"}
ResolveScope(kind) == kind \in PassesMetadata
Bridged(k, kind, found, o, refused, failed) ==
  /\ Handling(k, kind)
  /\ Reply(k, ResolveScope(kind) /\ found, IF ResolveScope(kind) THEN o ELSE "ok", refused, failed)

CreateAgent(k, free, o) == Bridged(k, "createAgent", free, o, "conflict", "conflict") /\ UNCHANGED rowVars
UpdateAgent(k, found, o) == Bridged(k, "updateAgent", found, o, "notfound", "notfound") /\ UNCHANGED rowVars
DeleteAgent(k, found, o) == Bridged(k, "deleteAgent", found, o, "notfound", "notfound") /\ UNCHANGED rowVars

(* Every attempt that finds its agent starts an execution with an id of its own. *)
RunAgent(k, found, o) ==
  /\ Bridged(k, "runAgent", found, o, "notfound", "error")
  /\ runs' = IF ResolveScope("runAgent") /\ Takes(found, o) THEN Append(runs, [named |-> FALSE]) ELSE runs
  /\ UNCHANGED <<namespaces, policies, channels, rules>>

(* The rollback goes to the repository (module AgentRegistry) without the handlers. *)
RollbackAgent(k, found, o) ==
  /\ Handling(k, "rollbackAgent")
  /\ Reply(k, found, o, "notfound", "error")
  /\ UNCHANGED rowVars

(* Executions are also started by the workflow engine's client, with an id the caller chose. *)
StartAgentExecution(named) ==
  /\ Len(runs) < MaxRuns /\ runs' = Append(runs, [named |-> named])
  /\ UNCHANGED <<rateVars, calls, namespaces, policies, channels, rules>>

HandleCall(k) ==
  \/ Refuse(k)
  \/ \E o \in {"ok", "failed", "lost"} :
       \/ CreateNamespace(k, o) \/ UpdateNamespace(k, o) \/ DeleteNamespace(k, o)
       \/ CreatePolicy(k, o) \/ UpdatePolicy(k, o) \/ DeletePolicy(k, o)
       \/ CreateChannel(k, o) \/ UpdateChannel(k, o) \/ DeleteChannel(k, o)
       \/ CreateRule(k, o) \/ UpdateRule(k, o) \/ DeleteRule(k, o)
       \/ \E found \in BOOLEAN :
            \/ CreateAgent(k, found, o) \/ UpdateAgent(k, found, o) \/ DeleteAgent(k, found, o)
            \/ RunAgent(k, found, o) \/ RollbackAgent(k, found, o)

-----------------------------------------------------------------------------
(* Lists, newest first.  paginate() slices what it is given: a list route gives it            *)
(* everything (the executions whose id contains the agent's), the first rows (traces), or the *)
(* rows of the page already, with the total in the place of maxLimit (channels, rules,        *)
(* policies).                                                                                 *)

Slice(list, from, n) == SubSeq(list, from + 1, IF from + n < Len(list) THEN from + n ELSE Len(list))
Start_FromOne(page, limit) == page * limit
Start(page, limit) == (page - 1) * limit
Paginate(items, page, limit, maxLimit) ==
  LET safeLimit == IF limit < maxLimit THEN limit ELSE maxLimit
      start == Start(page, safeLimit)
  IN [items |-> Slice(items, start, safeLimit), hasNext |-> start + safeLimit < Len(items)]

MaxLimit == 100
Numbered == [i \in 1 .. Len(runs) |-> [id |-> i, named |-> runs[i].named]]
Named == Keep(Numbered, {i \in DOMAIN runs : runs[i].named})
ListExecutions(page, limit) == Paginate(Reverse(Named), page, limit, MaxLimit)
ListTraces(page, limit) == Paginate(Slice(Reverse(Numbered), 0, limit), page, limit, MaxLimit)
DbPage(rows, page, limit) == Paginate(Slice(rows, (page - 1) * limit, limit), page, limit, Len(rows))
ListChannels(page, limit) == DbPage(Reverse(channels), page, limit)
ListRules(page, limit) == DbPage(Reverse(rules), page, limit)
ListPolicies(page, limit) == DbPage(Reverse(policies), page, limit)

RestNext ==
  \/ \E k \in Calls :
       \/ \E who \in {"sdk", "console"}, op \in Ops : Begin(k, who, op)
       \/ Receive(k) \/ Abort(k) \/ OnRequest(k) \/ HandleCall(k)
  \/ \E s \in Slugs : SuspendNamespace(s)
  \/ \E named \in BOOLEAN : StartAgentExecution(named)
  \/ CleanupRateLimit \/ Tick

(* The server takes up and handles every request that reaches it, and its answer arrives. *)
Serves(k) == OnRequest(k) \/ HandleCall(k) \/ Receive(k)

RestSpec == RestInit /\ [][RestNext]_restVars /\ \A k \in Calls : WF_restVars(Serves(k))

-----------------------------------------------------------------------------
(* A window lets no more attempts through than the maximum until the sweep reaches its open *)
(* counter, at the age of CleanupAge minutes, and the maximum once more per minute after     *)
(* that: whatever requests and sweeps do, a window of up to CleanupAge minutes (the default  *)
(* is one) keeps the limit, and a longer one exceeds it by no more than its later minutes.   *)
Overtime == IF minute - WindowStart >= CleanupAge THEN minute - WindowStart - CleanupAge + 1 ELSE 0
WindowLimit == passed <= RateLimitMax * (1 + Overtime)
LimitsHold == RestTypeOK /\ WindowLimit

(* What a client is told is what happened.  A call that resolves took effect; one that is    *)
(* refused did not, unless an earlier attempt was answered 5xx or the route reports failures  *)
(* as refusals (namespaces); and a call takes effect at most once more than it was answered   *)
(* 5xx, because neither client repeats a request whose fate it does not know.                 *)
Vague == {"createNamespace", "updateNamespace", "deleteNamespace"}
AnswersTrue ==
  \A k \in Calls :
    /\ calls[k].effects <= 1 + calls[k].errors
    /\ (calls[k].client = "done" /\ calls[k].answer = "ok") => calls[k].effects >= 1
    /\ (/\ calls[k].client = "done" /\ calls[k].errors = 0 /\ calls[k].op.kind \notin Vague
        /\ calls[k].answer \in {"conflict", "notfound", "denied", "limited"})
         => calls[k].effects = 0

(* A deleted namespace stays as it is: no retry, concurrent update or suspension touches its *)
(* row again, and its slug cannot be created anew.                                            *)
NamespaceGone ==
  [][\A s \in Slugs : "deleted" \in namespaces[s] => namespaces'[s] = namespaces[s]]_restVars

(* The pages of an agent's executions, as far as hasNext goes, show each execution that names *)
(* it once and in order; every other list shows its first page in full.                       *)
Shows(page, list, limit) ==
  /\ Len(page.items) = (IF Len(list) < limit THEN Len(list) ELSE limit)
  /\ \A i \in 1 .. Len(page.items) : page.items[i] = list[Len(list) + 1 - i]
ListPages ==
  \A limit \in 1 .. 2 :
    /\ \A i \in 1 .. Len(Named) :
         LET n == ((i - 1) \div limit) + 1  at == ((i - 1) % limit) + 1  page == ListExecutions(n, limit)
         IN /\ at <= Len(page.items) /\ page.items[at] = Reverse(Named)[i]
            /\ page.hasNext <=> n * limit < Len(Named)
    /\ Shows(ListTraces(1, limit), Numbered, limit) /\ Shows(ListChannels(1, limit), channels, limit)
    /\ Shows(ListRules(1, limit), rules, limit) /\ Shows(ListPolicies(1, limit), policies, limit)

(* Every call of a client comes to an end, whatever the server answers and however long the   *)
(* window stays full.                                                                        *)
CallReturns == \A k \in Calls : calls[k].client = "waiting" ~> calls[k].client = "done"
=============================================================================
