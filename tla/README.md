# A TLA+ model of EGAOP, the agent orchestration platform

This directory models the parts of the platform that are hard to test: the
durable agent workflow and its approval gate, the concurrency limiter, the LLM
router and its streams, the sandbox runtimes, the memory plane, the agent
registry, authentication, the REST interface and its clients, the tool path
through the policy plane and the tool proxy, the webhook worker, and the shared
services (quotas, budgets, secrets, audit, spans, flags, objectives). Each
module is translated from the TypeScript source; `PROJECT.json` says which lines
every definition stands for (`map`), which questions TLC answers (`runs`), what
TLAPS proves (`theorems`), where the code is exposed (`hazards`) and where it
disagrees with what the repository says of it (`findings`).

    tlc -config MCReactWorkflow.cfg MCReactWorkflow    # one run
    tlapm AgentRegistryProofs.tla                      # one module's proofs

Source paths below are relative to `src/`.

## 1. The system and its parts

An API server (HTTP and gRPC) keeps agents, namespaces, users and budgets in
PostgreSQL. Running an agent starts a Temporal workflow in the workflow engine.
The workflow is a ReAct loop: it asks the policy plane for permission, creates
a sandbox container, reads session memory, then alternates between a generation
of the LLM router and tool calls of the tool proxy (which limits the rate, scans
for personal data, checks the sandbox's address and fetches with retries), and
ends by saving memory, terminating the sandbox and reporting its outcome to a
dead-letter queue when it failed. All of these are separate processes that talk
gRPC with deadlines; the workflow reaches them through activities, which
Temporal repeats.

| Component | State it keeps | Operations | Talks to | What is hard | What makes it correct |
|---|---|---|---|---|---|
| ReAct workflow (`control-plane/workflow-engine`) | iteration, cost, seen calls, sandbox id, result; DLQ row | start, activities, cancel signal, execution timeout, DLQ replay | every other plane | replies lost after their effect, retries, a signal at any await, an exception on any path | nothing happens without permission; the budget stops the loop; no repeated call; the sandbox it knows is terminated; every execution closes |
| HITL gate (same engine) | decision, records | wait with timeout, decision signal, records | observability plane | a signal after the timeout, a second signal | a gate that opens was approved by a human; the records agree with it |
| AsyncSemaphore (`packages/shared/src/grpc`) | `current`, waiter queue | acquire (with or without timeout), release | router, others | grant racing a timer | slots counted exactly; FIFO; no idle slot beside a queue |
| LLM router (`execution-plane/llm-router`) | rate windows, semaphore, a breaker per provider; the buffer of a stream | Generate, GenerateStream | providers, AsyncSemaphore | a dozen exits per handler, silent providers, half-open breakers, lines cut anywhere | concurrency bound; the whole fallback chain is tried; everyone is answered; frames whole and in order |
| Sandbox runtime (`execution-plane/sandbox-runtime`) | slots, active containers, owners (in memory); containers (in Docker) | CreateSandbox, TerminateSandbox, shutdown | Docker daemon | several awaits under one slot, a daemon that fails or loses answers, restart | slots account for containers; the limit; only the owner removes |
| Kubernetes driver (`packages/shared/src/sandbox`) | none but the cluster's pods | create with a poll loop, init commands, terminate | Kubernetes | pods that never run, names shared by retries | polling ends; an answer means a pod was made |
| Memory plane (`memory-plane`) | Redis entries per memory type, PostgreSQL rows without one, a write queue | Read, Write, Delete, List, flush, cleanup, shutdown | Redis, PostgreSQL | the queue changes during an await; overflow; backfill of stale values; Delete beside a queued write; types that share a row | stored, reported or dropped knowingly, in order; deleted stays deleted; both stores converge |
| Agent registry (`control-plane/api-server/src/agents`) | agent rows, version snapshots | create, update, delete, rollback, list | PostgreSQL | several queries without a transaction; pages while rows come and go | no lost update; truthful history; a rollback restores the version asked for; a walk misses nobody |
| Policy plane (`policy-plane`) | a breaker, an evaluation cache | evaluate | OPA | breaker and cache beside concurrent evaluations | fail closed; a cached allowance is recent; the breaker recovers |
| Tool proxy (`execution-plane/tool-proxy`) | rate windows | CallTool | sandbox, tools | partial failure on the way to a tool, a timer that ends all attempts | nothing is fetched before the checks; every call is answered |
| Authentication (api-server) | users, refresh tokens, blacklist, lockouts | register, login, refresh, change-password, logout | PostgreSQL, Redis or memory | rotation and lockout in several steps, two stores, lost commands | the lock is reached; a revoked token stays out; one refresh token per login |
| API server routes | rate counters, rows | REST routes, lists | all planes | client retries beside lost answers, sweeps beside open windows | a client is told what happened; limits; every page; every call ends |
| Namespaces | rows, an enforcement cache | create, update, suspend, delete | PostgreSQL | soft deletion | a deleted namespace stays deleted |
| Quotas (`packages/shared/src/quotas`) | counters in the worker's process | check, waitForQuota, release | – | activities that wait, fail, hold a slot over a call, and end with their process | no slot leaks or is given out twice; a window's bound; nobody waits for ever |
| Budgets (`packages/shared/src/budget`) | usage rows; in-memory windows | recordUsage, setBudget, tryConsume, reset | PostgreSQL | read-modify-write in several queries; two windows on one state | nobody is allowed more than the limits |
| Secret store | encrypted rows | CreateSecret, GetSecret with upgrade | PostgreSQL | a read that writes | no write lost once upgraded |
| Audit trail, observability plane, retention | chain in memory, rows; hot traces | append with retries, export, replay | PostgreSQL | lost answers, restarts, eviction while spans arrive | each entry once; a replay is complete from some export on |
| Feature flags, SLO tracker | cached rows; samples | refresh, upsert, delete; record, snapshot | PostgreSQL | refresh beside write; a capped history | the cache converges; a report speaks for every sample |
| Webhook worker (api-server, `packages/shared/src/webhook`) | delivery rows, the running flag, a timer | poll, post, retry, dead letter, start, stop | subscribers, PostgreSQL | copies of rows used across awaits; overlapping loops; the end of the process between a post and its record | given up only after all attempts; everything settles |
| SDK and console HTTP clients | attempts of a call | request with retries and time limit | API server | an answer that is lost | each call ends; no blind repetition |
| gRPC interceptors, other shared utilities, user interface, migrations, deployment | none shared between calls | – | – | – | – |

## 2. Modules and how they correspond to the code

| Module | Models | Composition |
|---|---|---|
| `SlotPool` | what a counting semaphore promises: at most `max` holders, a step takes, gives back or passes on one slot | abstract specification |
| `AsyncSemaphore` | `async-semaphore.ts` | implements `SlotPool` |
| `LlmRouter` | `llm-router/src/index.ts`, `prompt-injection.ts`, the in-memory `rate-limiter.ts` | instantiates `AsyncSemaphore` on its own variables |
| `LlmStream` | `streamLines` and the three provider parsers of `llm-router/src/index.ts` | in `SharedServices` |
| `ReactWorkflow` | `react-workflow.ts`, `activities/index.ts`, `dead-letter-queue.ts`, `classification.ts`, `client.ts` | stands alone; the services appear as what their replies can be |
| `HitlGate` | `hitl-gate.ts`, its client | in `SharedServices` |
| `SandboxRuntime` | `docker-driver.ts` and the handlers of `sandbox-runtime/src/index.ts` | stands alone |
| `K8sSandbox` | `k8s-sandbox-runtime.ts`, `sandbox-driver-k8s.ts` | in `SharedServices` |
| `MemoryWriteQueue` | `write-queue.ts` and the shutdown of the memory plane | – |
| `MemoryPlane` | `memory-plane/src/index.ts`, `repository.ts` | extends `MemoryWriteQueue`: the queue's step and the row it writes are one action |
| `AgentRegistry` | `agents/handler.ts`, `agents/repository.ts` | stands alone |
| `AgentListing` | `ListAgents`, `listByNamespace` | in `SharedServices` |
| `PolicyPlane` | `policy-plane/src/service.ts`, `http-api.ts` | in `ToolPath` |
| `ToolProxy` | `tool-proxy/src/index.ts`, `rate-limiter.ts` | in `ToolPath` |
| `ToolPath` | the two calls of the workflow's activities | composes `PolicyPlane` and `ToolProxy` under one clock |
| `AuthSessions` | `auth/routes.ts`, `auth/repository.ts`, tokens of `crypto/index.ts` | stands alone |
| `RestApi` | the routes, rate limit and lists of `api-server/src/index.ts`, the namespace handlers, and the clients `sdk/src/client.ts` and `admin-console/src/lib/api/client.ts` | stands alone |
| `Quotas` | `quotas/enforcer.ts` as `waitForQuota`, `callLLM` and `executeTool` of the activities use it | in `SharedServices` |
| `Budgets` | `persistent-budget.ts`, `tracker.ts` | in `SharedServices` |
| `SecretStore` | `secret-store/src`, the payload test of `crypto/index.ts` | in `SharedServices` |
| `AuditTrail` | `audit/index.ts` | in `SharedServices` |
| `Observability` | `ExportTrace` and `GetExecutionReplay` of `observability-plane/src` | in `SharedServices` |
| `FeatureFlags`, `SloTracker` | `feature-flags/index.ts`; `slo/index.ts` | in `SharedServices` |
| `WebhookWorker` | `webhook-worker.ts`, `storeDelivery` | stands alone |
| `Subsequences` | – | selections that keep the order, for `PolicyPlane`, `AgentListing`, `RestApi` and `LlmStream`: defined by the rank of an element, without recursion, so that they can be reasoned about |
| `SharedServices` | – | parts that share no state side by side: `focus` is the one that moves |
| `*Proofs` | theorems about the module named | `LlmRouterProofs` instantiates `AsyncSemaphoreProofs` |
| `MC*` | values of the constants for TLC | the run `semaphore` needs no definitions and checks `AsyncSemaphore` itself |

`SharedServices` puts components side by side that share no
variable. A behaviour of all is an interleaving of one of each, and a property
of one is violated by it exactly when it is violated by the behaviour where only
that one moves; so `focus`, chosen initially, names the one that moves. Each
part is a specification of its own (`QuotaInit`, `QuotaNext`, ...).

**AsyncSemaphore.** A caller is idle, waiting, granted or refused (its promise
is resolved but the caller has not resumed), or running. `acquire` with and
without a free slot, the timer, `release` with and without a waiter and the
resumption of the caller are one action each; JavaScript runs each to
completion. `resolve()` only schedules the continuation, so other callers'
steps fall between a grant and the caller's resumption.

**ReactWorkflow.** `pc` is the activity the workflow awaits, or how it closed.
An activity attempt answers, throws, or is *lost*: it has its effect and the
reply misses the deadline. Temporal then repeats it up to `MaxAttempts` times
unless the error's type is in the policy's non-retryable list; the type is the
JavaScript `error.name`, which is what Temporal's failure converter uses. The
cancel signal and the execution timeout can come at any await, the admin's DLQ
replay at any time. Some variables exist only on the other side of a reply
(`container`, `spent`, `dispatched`): they record what really happened, so that
properties can compare it with what the workflow believes. Of all signals
handled in one activation, Temporal runs the handlers before it resolves
activities; the model's separate cancel action covers that order.

**HitlGate.** The gate's wait, the timeout, the two records and the signal
handler, which stays registered until the workflow closes.

**SandboxRuntime.** A create call goes through slot, container creation, start,
inspection, init commands and registration, with an error path at each; a daemon
request may fail with or without effect. `cleanup` of the shutdown walks over a
copy of the active set. A restart clears the process's memory and leaves
Docker's containers.

**K8sSandbox.** Two calls under one name; a request to the cluster succeeds,
fails, or has its effect and loses its answer; a pod's phase moves, and it goes
away, whenever the cluster likes. A call may hang in its init command for ever,
which is what the code does when `exec` fails after it was opened.

**LlmRouter.** A request passes the rate limiter, the semaphore, the prompt
scan, then for each model of its chain the provider's breaker and its retries.
A provider answers, fails, rate-limits, refuses a bad request, or stays silent
until the abort timer. Breakers are the library opossum, marked external: closed,
open, or half-open with a single trial. Streams bypass the breakers, as in the
code. Assumed: an OpenAI key is configured, and the breaker's timeout is not
below `LLM_TIMEOUT_MS`, so the abort timer is what ends a silent call.
`QuietOnAbort` names providers whose client ends an aborted stream without an
error (the openai SDK).

**LlmStream.** A response is a sequence of kinds of lines; a piece of any length
arrives; the lines complete so far are parsed and the rest stays in the buffer. A
line without text is no event, as JSON.parse is never asked about it. What a line
yields depends on its kind and on the provider alone: it has a place for a text and
one for a usage, and the chunks yielded are those of the places that are due.

**MemoryWriteQueue, MemoryPlane.** `queue[0]` is written with an await in the
middle, then whatever is the head is shifted. `enqueue` at the limit drops the
oldest. An upsert succeeds, fails, or succeeds with its answer lost. Shutdown
disposes the queue, with the forced exit after five seconds as an action of its
own. Around it the handlers: Redis executes the commands of one connection in
order and the replies resume the handlers in that order; the soft delete in
PostgreSQL is not awaited; a Read's backfill is a step of its own. Two keys that
`sanitizeKeyComponent` maps to one are in the instance because writes use the
sanitised key and reads and deletes the key as sent. The memory type is part of the
Redis key (`index.ts:138`, `185`, `233`) but not of the queued write (`index.ts:193`)
nor of the row (`repository.ts:45`, `57`, `75`): `redis` is indexed by type and key,
`rows` by key, so a write, a miss or a delete of one type meets what the others left.

**AgentRegistry.** One (namespace, name) pair; rows by id, since a deleted agent
may be created again. A request is a sequence of queries, one action each, which
can fail or lose their answer. A query is atomic, as PostgreSQL makes it; a
request is not, as nothing opens a transaction. `log` is a history variable: the
content of each row at each version and who wrote it.

**AgentListing.** A walk by cursor, each page a COUNT and a SELECT, while agents
are created (with random ids, so on both sides of the cursor), come to pass the
filter or not, and are deleted.

**PolicyPlane, ToolProxy, ToolPath.** An evaluation is rejected, shed by the
breaker, answered from the cache, or asked of OPA, which answers or fails. Times are
ages up to the largest that matters. A request is a policy path and an input, and
the cache's key is the input alone, so requests of one input under two paths share
an entry, as the service's interface allows. A tool call is limited, refused by a
scan or an address check, or fetched with retries under one `AbortSignal`.

**AuthSessions.** One account, several requests; each await of a route handler
ends an action. Redis commands succeed, fail, or are carried out with the answer
lost; the in-memory map is used as the code uses it. A session is a pair of
tokens; its family is the login it descends from.

**RestApi.** A client's call is one or more attempts; an
attempt is counted by the rate limit, then handled in one statement that
succeeds, fails, or takes effect and loses its answer. Agent routes that call
the gRPC handlers without metadata are refused before any query, as the code
does. The rate limit counts by window; the sweep of each minute drops the counters
whose window began `CleanupAge` minutes ago, whether or not the window is over.

**Quotas … SloTracker.** One action per command or query. `Quotas` has the counters
in the process's memory, which are all that is ever used (see §5), with activities
that wait, are let through, hold their slot and end or fail, and a restart that
drops all of it; `Budgets` the four queries of `recordUsage` beside the two of
`setBudget`, and the two windows kept in memory; `SecretStore` the read, the test of
the format and the write-back; `AuditTrail` the retry loop of each entry;
`Observability` the bounded cache, which is all a replay ever finds (see §5);
`FeatureFlags` the in-flight refresh beside writes; `SloTracker` the capped history.

**WebhookWorker.** A loop is off, asleep, or at one of its awaits with the copies
it has left; an action is what runs from one await to the next. The table's row
is status, attempts and whether `next_retry_at` has passed. A query may fail,
with or without effect, at most `MaxFaults` times. `stop` clears the one timeout
the variable names; a loop inside an await goes on, so a `start` can put a second
loop beside it. The process ends at any point and is started again. `tries`,
`accepted` and `overlap` are history.

Left out everywhere: prompts, message texts, span names, metrics, logging. The
gRPC retry interceptor's repeated call carries no message, so a call reaches a
handler at most once for each activity attempt.

## 3. Runs

Deadlock checking is off where a model has finitely many requests or a workflow
that closes: those systems stop when the work is done. The semaphore's callers,
the tool path and the webhook worker never stop, so it is on there.

| Run | Instance | Shows |
|---|---|---|
| `semaphore` | 4 callers, 1 of them patient, 2 slots | `ImplementsSlotPool`, `EveryWaiterLeaves` |
| `react` | 2 call keys, 2 iterations, budget 1, 2 attempts, 1 replay | `EffectsSound` (permitted, within the budget, made once), `ClosingDuties`, `LoopEnds` (at once after a cancellation, and in time) |
| `react_leak` | the same | violation: a created container is not always terminated |
| `memory` | 2 writes of any of 2 types under any of 2 keys with one sanitised form, or 3 writes of one type and key; 1 delete, 1 reader, queue of 2, 2 attempts | `QueueFaithful`, `DeletedStaysDeleted`, `Converges` |
| `sandbox` | 3 creations (2 for one execution), 2 terminators of two namespaces, limit 1, 1 restart | `LimitHolds`, `EveryCreateAnswered` |
| `llm_router` | 3 requests (1 streaming), 1 slot, 2 providers, 1 retry, rate limit 2 | `UpstreamBounded`, `TrialSettles`, `EveryRequestAnswered` |
| `agents` | 4 requests of any kind, 2 ids, 1 key, 2 values | `SnapshotsTruthful`, `UpdateLosesNothing`, `RollbackSound` |
| `webhooks` | 2 deliveries, 2 loops, batch of 2, 2 attempts, 1 failing query | `NotGivenUpEarly`, `EveryDeliverySettles` |
| `auth` | 2 requests at a time, 2 passwords, lock after 2 failures, 2 sessions, 1 crash, clock to 2 | `LockReached`, `LoggedOutStaysOut`, `OneTokenPerFamily` |
| `tool_path` | 2 workflows, 3 requests (2 of one input under two policy paths), breaker threshold 2, cache of 1, rate limit 2, 1 retry | `AllowIsRecent`, `EveryCallAnswered`, `BreakerRecovers` |
| `services` | one part at a time, bounds in `MCSharedServices.cfg` | `GateTruthful`, `QuotaServes`, `BudgetsHold`, `NoWriteLostOnceUpgraded`, `TrailIntact`, `AgentsWalked`, `ReplayComplete`, `PollingEnds`, `FlagsConverge`, `ReportSpeaksForAll`, `FramesInOrder` |
| `api` | 2 calls with 1 retry against a limit of 1 attempt, windows of 1 and of 3 minutes with a sweep at 2, up to 5 executions | `AnswersTrue`, `ListPages`, `LimitsHold`, `NamespaceGone`, `CallReturns` |

Each module's type invariant is a conjunct of one property of its run
(`EffectsSound`, `LimitHolds`, `DeletedStaysDeleted`, `LockReached`,
`EveryCallAnswered`, `GateTruthful`, `QuotaServes`, `BudgetsHold`, ...), or is
proved (`AsyncSemaphore`, `LlmRouter`, `AgentRegistry`, `WebhookWorker`). Several
properties conjoin parts that are named and explained in the module: `ClosingDuties`
is `KnownSandboxTerminated`, `ErrorsReported` and `ResultAccounts`; `RollbackSound`
is `RollbackRestores` and `RollbackUndoable`; `GateTruthful` is `ApprovedByHuman`
and `RecordsAgree`; `QuotaServes` is `QuotaHolds` and the two promises of progress;
`BudgetsHold` has a part for each of two modules. Every property has a mutant in
`PROJECT.json`: a plausible slip in a definition that makes TLC find the property
violated.

### Why the bounds are enough

* `semaphore`: with two slots and four callers two can wait, which is what
  ordering needs, and a slot can be passed on while another is freed. The
  theorems hold for every number.
* `react`: a second iteration is the first with a history, so loop detection and
  the budget check after the first spending both happen; two attempts give a lost
  reply followed by a retry; two keys separate "repeated" from "another" call.
* `memory`: a behaviour keeps to one of two scopes (`InScope`), for the whole is too
  large. With two writes under any types and keys a write, a read or a delete of one
  type meets the entries another type left and the row they share; with three writes of
  one key the queue of two overflows during an await with a write behind it, and there
  is a write, a newer write and a backfill between them. One delete can fall between any
  two of these in both. The theorems hold without the scopes.
* `sandbox`: limit 1 with three creations makes one wait and one be refused; two
  creations for one execution collide on the container's name.
* `llm_router`: one slot makes requests queue; two providers make one fallback;
  a rate limit of 2 lets the third be refused.
* `agents`: four requests are enough for create, update, delete and a rollback,
  or for two updates between a rollback's queries; two ids give one deletion and
  re-creation. Symmetry is over requests, ids and values, and the run has no
  temporal property.
* `webhooks`: two loops can work on the same two rows in opposite places of their
  batches; the second attempt is the last, so a row is retried and given up; one
  failing query is the lost UPDATE.
* `auth`: two requests interleave at every await, two failures reach the lock,
  two sessions are a login and its rotation, or two logins; the clock lets an
  access token, a lock and a refresh token expire, and one crash falls between
  any two commands. Symmetry is over clients and passwords; there is no temporal
  property.
* `tool_path`: two workflows ask at the same time, also about one input under two
  paths; a cache of one evicts; two
  failures open the breaker; the rate limit of 2 refuses a third call.
* `services`: `quotas` three workers on two slots, a window of one tick and a wait
  of two, one restart; `budgets` three calls of two callers against a limit that
  changes; `secrets` a read whose upgrade meets a write; `audit` a chain shorter
  than the entries made, three attempts, one restart; `observability` six exports of
  four traces over a cache of two, so that a trace is evicted while another still
  gets spans, and comes back; `pods` two calls of one name, three pods, two polls;
  `flags` one process of ours and other writers; `objectives` four samples, a
  history of two; `streams` every cut of every response of up to two lines and three
  longer ones; `gate` three signals: a decision, a change of mind before the record
  and another one after it; `meter` a day of four ticks and a minute of two, so both
  windows start anew between grants; `listing` four ids, three changes, pages of one
  and two.
* `api`: two calls of which one is repeated fill and pass a window of one attempt; the
  clock reaches the window after it, and in the long window the sweep that drops its
  counter while it is open; five executions make three pages of two. A behaviour moves
  the calls against the limit, the rows of one group of routes, or the list.

### Fairness

| Module | Fairness | Why the code justifies it |
|---|---|---|
| `AsyncSemaphore` | weak, of a granted caller's resumption and of a holder's release | a resolved promise's continuation is run; users release in `finally` |
| `ReactWorkflow` | weak, of the workflow's own step | Temporal keeps scheduling an open workflow, activities have `startToCloseTimeout`, timers fire |
| `MemoryPlane` | weak, of the flush loop, of Redis's replies, of a Read's step and of expiry | the event loop runs them; a query answers or fails; every entry is set with a time to live |
| `SandboxRuntime` | weak, of each creation's step | the daemon answers or fails; the waiter's timer fires; init commands are assumed to end |
| `LlmRouter` | weak, of each handler, each abort timer and each breaker's reset timer | the event loop; a provider is **not** assumed to answer |
| `AgentRegistry`, `AuthSessions` | none | only safety is claimed |
| `ToolPath` | weak, of the clock, of OPA's and of a fetch's end | both have a timeout |
| `WebhookWorker` | weak, of each loop's step and of each retry's due time | the event loop; `fetch` is aborted by its timer; time passes |
| `SharedServices` | weak, of time and of each activity's quota checks and release, of the cluster's answers, of a flag cache's interval and of a write's return; strong, of a refresh's success | `waitForQuota` sleeps at most ten seconds between checks; a generation ends at the gRPC deadline (`activities/index.ts:86`) and `finally` releases; a client call answers or fails; the interval fires for ever, so a query that can succeed again and again does |
| `MCRestApi` | weak, of an attempt's handling and answer | the server answers what reaches it |

Nobody is assumed to cancel, approve, replay, terminate a sandbox, start or stop
a worker, write a flag, or shut down. `EveryDeliverySettles`, `FlagsConverge` and
`BreakerRecovers` have their conditions in the formula: a worker that is running
from some time on, a process that goes on refreshing, an OPA that has stopped
failing and requests that keep coming.

### What the violation run shows

`react_leak` (`react-workflow.ts:658`). `sandboxId` comes only from the reply
of `createSandbox`. When the container starts but the reply misses its
deadline, the retry runs into the taken name, and the `finally` block has
nothing to terminate. The comment says "Always terminate the sandbox if one
was created".

## 4. What is proved

The theorems hold for every value of the constants under the modules' named
assumptions (positive limits, finite sets of callers, markers that are no call's
name, and the like).

**AsyncSemaphoreProofs.** The inductive invariant is the type invariant, the
slot count, the consistency of the queue (its members are exactly the waiting
callers, each once) and `NoIdleSlot`. The queue's consistency is what makes the
rest inductive: `release` hands its slot to the head of the queue, and only if
that is a caller that waits does the count stay right. There is one lemma for
each action. From it follow `TypeCorrect`, `SlotsAccounted`, `NoSlotIdles`,
`NobodyBarges` and `Refinement`: each step of the semaphore is a step of
`SlotPool` or a stutter, with the granted and running callers as the pool's holders.

**LlmRouterProofs.** Compositional. `SemaphoreUsed` shows that each router step
is a semaphore step or leaves the semaphore alone; the inductive invariant is
then the semaphore's, taken over by instantiating its proofs, with the type of
the stages and "a handler holds a slot exactly while it is in its body". From
these, `SlotsHeldByBodies` and `UpstreamLimited`. `FailsExhausted` (a request
fails only after its whole chain of models, or with the client's own mistake or
its timer) has an invariant of its own about the position in the chain.

**AgentRegistryProofs.** The argument is over the history variable. `log` only
grows, so what was true of a version stays true. The inductive invariant says
that a row equals the newest entry of its log; that a request's copy of the row
was the row at that version; that what a rollback is about to restore was the
content at the version asked for; that every snapshot agrees with the log; that
at most one row per name is live. Two lemmas serve all actions: one for steps
that only move a request, one for its write. From it follow `TypeCorrect`,
`OneAgentPerName`, `HistoryTruthful`, `NoLostUpdate` and `RollbackCorrect`.

**WebhookWorkerProofs.** The argument is per loop, so it does not matter how many
loops overlap: a copy's attempts never exceed the posts made of its delivery, and
are fewer once the loop has made its own post; a loop about to record a success
was answered with one; a delivery is in a batch once. A row's attempts never
exceed the posts either, and a row that waits has not used up its limit, which is
what keeps a new copy's count below it. For `DeliveredOnce` the invariant adds
that without an overlap one loop is alive, and that without failing queries the
rows of its copies are still waiting. One lemma (`Moved`) serves every step of a
loop. From it follow `TypeCorrect`, `AttemptsMade` and `DeliveredCorrect`.

**ReactWorkflowProofs.** The properties speak of the end of an execution or of
its effects, so the inductive invariant says what each stage may rely on: before
the policy's answer nothing has been done, from then on it was "allow"; until the
`finally` block there is no result and the recorded calls are the calls seen, but
for the one being executed, which is new and was sent less often than there were
attempts; before the loop no sandbox is known, after the `finally` block a known
one was asked to terminate. There is one lemma for each conjunct, with a step for
each group of actions. From it follow `EffectsAreSound` and `DutiesDone`, the two
invariants of the run `react`; `CancelIsHeeded` needs no invariant.

**SandboxRuntimeProofs.** Each slot in use has one owner: a call between its
acquisition and its answer, or an active container. The inductive invariant says
that `running` counts the owners, that a queued call owns nothing yet, that a
container whose call was not refused has an owner, and that only answered
containers are being terminated. The last two make a successful removal give back
a slot that is still counted. Two lemmas about `releaseContainerSlot` serve all
its callers. All but the queue's order is claimed until a shutdown or a restart,
where the code forgets its slots. From it follows `LimitKept`.

**PlaneProofs.** Four specifications whose constants do not meet, one after the
other.

*Authentication.* `LockReached` is inductive beside the types: the counter passes
the bound by one for each request about to lock the account (`Locking`), and by as
many again for each restart that cut some off. For logout, `Ordered` says that
sessions are issued in order and each family is named for its first, `Presented`
that only issued tokens are stored, ended or presented, and `Blacklisted` that the
blacklist's entry for an ended access token outlives it, for every lifetime of the
two tokens. For rotation, `OneHolder` says that in a family whose holder sends one
refresh at a time only the newest pair is presented, by one request, and only its
refresh token is stored; `Deleted` that a refresh token once ended is in no store.
From these: `AuthTypeCorrect`, `LockIsReached`, `LogoutIsFinal`, `RotationReplaces`.

*Memory plane.* The queue holds the last writes accepted (`Consecutive`); the
flusher has its head, or a write that an overflow has dropped from under it
(`HeadHeld`); PostgreSQL is not ahead of the flusher, and what is ahead of it has
attempts left (`Behind`); what is no longer queued was stored or reported
(`KeptOrReported`). `RepliesStand` says that Redis's replies to the writes stand in
the order of the commands, `RowsSafe` that rows have sanitised keys, and `Calm` that
for an entry deleted in both stores nothing that could bring it back, under any
memory type, is queued, unanswered or being read. From these: `MemoryTypeCorrect`,
`QueueIsFaithful`, `DeletionIsFinal`. `Keys # {}` and `Types # {}` are assumed.

*Tool path.* `Cached` says that the cache has one entry per key, within its size,
and, as `Backed`, that an allowance in it is at least as old as OPA's last word on
its input, which was that allowance; `Attempting` that a sleeping tool call has
attempts left. `AllowIsRecent` is an action property and follows from these for each
step (`AllowanceIsRecent`, `PathTypeCorrect`). What is proved is about the input,
under whatever policy path it was asked: a caller may be let through by an allowance
of another path (see §5). Assumed: the callers of the policy plane are those of the
tools, as in the activities, and there is a request.

*API server.* `AttemptTrue` says that until it is answered the attempt under way has
had no effect that counts, and that what is repeated had none that was not answered
5xx; `Counting` that what a window let through is counted in the map, until the
sweep reaches the window, and that each later minute it stays open adds the maximum at
most; `RowsTyped` gives the types of the lists, whose
pages are selected by rank. From these: `AnswersAreTrue`, `LimitsAreKept`,
`ListsArePaged`. `DeletedNamespaceStays` is an action property, shown for every step
(`NamespaceMoves`).

**SharedServicesProofs.** Each part has an invariant of its own, and a lemma
(`GateMoves`, `SloMoves`, ...) that a step of the composition is a step of the part
or leaves its variables alone.

* Gate: what each stage implies for the decision and the records (`GateInv`):
  `GateIsTruthful`.
* Secrets: once settled, the payload stays in the new format and is the newest, and
  no upgrade is under way (`SecretInv`): `NoWriteIsLost`.
* Audit: every entry in memory builds on the one before it (`Chained`); the state of
  an entry's write says whether its row is there and how often it was tried
  (`Written`): `TrailStaysIntact`.
* Budgets: a caller's copy of the limits is under the ceiling (`UnderCeiling`); the
  usage of a day covers what was granted and what is pending (`Recorded`); for every
  limit from the ceiling upwards, all who have read no more than it can be granted
  together (`Covered`, which is what makes interleaved callers safe); the windows in
  memory count exactly the grants since they began (`MeterInv`): `BudgetsAreKept`.
  The sums over callers are shown by a smallest counterexample over the natural
  numbers, since the induction theorems cannot be instantiated.
* Walks: what has been shown lies before the cursor, is without repetition, and
  contains everything there all the time (`ListingInv`): `AgentsAreWalked`. Pages
  are ordered by rank; the lemmas about `Rank` and `InOrder` say that the ranks are
  1, 2, ... and that the order is kept.
* Replays: the cache holds a trace at most once, in the order of the first exports it
  has of each, and of each every export since that one (`CacheFollows`, which is what
  makes the oldest entry the one that is evicted); a trace that fewer than `TraceCap`
  others followed is there from its first export on (`Retained`): `ReplaysAreComplete`,
  also for traces that were evicted and came back.
* Objectives: the history is the last samples of all that were recorded, so the
  measures of a snapshot are those of every sample of the window (`SloInv`):
  `ReportsSpeakForAll`.
* Streams: while a response is open, the buffer is the text after the last complete
  line, the prompt is known as far as the complete lines tell it, and what has been
  yielded is what they are due (`StreamInv`). Cutting the buffer and a piece at its
  newlines gives just the lines between (`BufferCut`), their events yield just the
  next places (`EventsTaken`), and what is left at the end is a line only when it is
  whole (`ArrivedAtEnd`): `FramesStayInOrder`, for every response however it is cut.

**Only model-checked.** All liveness properties (`EveryWaiterLeaves`, `LoopEnds`,
`Converges`, `EveryDeliverySettles`, `EveryCreateAnswered`, `EveryRequestAnswered`,
`TrialSettles`, `EveryCallAnswered`, `BreakerRecovers`, `QuotaServes` with its safety
part, `PollingEnds`, `FlagsConverge`, `CallReturns`): temporal reasoning under
fairness is out of the prover's reach, as is anything about `ENABLED`. Every other
property that a passing run checks is stated by a theorem. What a selection or a
sum is, is defined by rank and by finite sets rather than by folds, `FlattenSeq` or
`SelectSeq`: the prover knows nothing of those, whose definitions are recursive. No
module declares a `RECURSIVE` operator.

## 5. What was seen and is not a run

These follow from the models or from reading the code for them; the repository
promises nothing that a run could refute, or the effect is outside a model, or
one run more would ask the same question again.

* Workflow: an ERROR returned before the loop (admission, policy) never reaches
  the DLQ; a DLQ replay answers `replayed: true` and only counts
  (`workflow-engine/src/index.ts:101`); the execution timeout skips the `finally`
  block; a generation whose reply misses its deadline is billed and repeated
  without counting against the budget; a tool call refused for personal data or
  by policy is a plain `Error`, whose type is not in the non-retryable list, so
  Temporal sends it again (`activities/index.ts:456`).
* Gate: an approval that arrives while the automatic rejection is being recorded
  is what the gate returns, although the trace says rejected
  (`hitl-gate.ts:84`: "Timeout — auto-reject"). `RecordsAgree` is therefore
  claimed without such a signal.
* Write queue: after the await `flush` shifts whatever is the head; after an
  overflow this is a write that was never stored, so two writes leave the queue
  and one is reported (`write-queue.ts:74`). `QueueFaithful` is therefore claimed
  for every queue that has not overflowed.
* Memory plane: get and delete use the key as sent, writes the sanitised one
  (`memory-plane/src/index.ts`), so a row under an unsanitised key is not found;
  a backfill can put an older value back until it expires; a Delete can be
  overtaken by the queued write of the same key; List sees Redis only. The types of one
  key share a row: a write of one type replaces the value another type will read after
  a miss, which is then cached under the reading type; a delete of one type deletes the
  row of all and leaves their Redis entries to be read until they expire.
  `Converges` and `DeletedStaysDeleted` are claimed with this: the first in the end,
  when the older entries of other types have expired, the second for entries that
  Redis does not hold.
* Sandbox: after a restart `maxContainers` more containers can run; the refusal
  at the limit is INTERNAL, not RESOURCE_EXHAUSTED (`developer-guide.md:92`); a
  creation in progress at SIGTERM survives the cleanup, whose loop may release a
  slot twice beside a termination.
* Kubernetes driver: a pod whose later steps fail is left behind; after 30 polls
  a pending pod is answered as running; terminate answers true though the
  deletion failed; a retried create gets 409 while the first pod stays; a call
  can run its init commands in the pod of another call of its name; `exec`'s
  rejected promise is not awaited, so such a call hangs.
* Router: an abort makes the remaining models' breakers count failures of calls
  never sent; the check for the name `CircuitBreakerOpenError` never matches
  opossum's error but falls through to the same `continue`; a quietly aborted
  OpenAI stream is reported as done with zero usage; a stream that breaks is
  continued by the next model, whose name alone the last chunk carries
  (`llm-router/src/index.ts:785`); the
  prompt scan's worst finding is the first one unless a critical one follows.
* Agents: the history can have gaps (a failed snapshot, or a write between
  SELECT and UPDATE) although `migrations/008_agent_versions.sql:2` says "Tracks
  every version"; after deletion and re-creation a rollback can restore the
  deleted agent's content; an update that changes nothing still inserts a
  snapshot; `total_count` of a later page counts what is left after the cursor.
* REST: the agent routes except the list call the handlers without call metadata,
  so `resolveScope` refuses them: creation answers 409, the others 404
  (`agent-workflow-e2e.test.ts:79` expects 200 or 201, against a running server).
  The executions of an agent are those whose id contains its name, while the run
  route makes ids that do not. Five list routes hand `paginate` rows already cut
  and the total in the place of the largest limit, so their second page is empty.
  A DELETE without a body but with a JSON content type is answered 400. A
  window longer than the age of the sweep loses its counter while it is open, so that
  the maximum is let through again in each later minute of it (`index.ts:239`);
  `LimitsHold` says so. A 429 carries no
  Retry-After. A repeated creation of a channel or rule inserts a second row.
  Namespace routes answer 409 or 404 to any failure; the slug of a deleted
  namespace cannot be created again; nothing enforces a suspension; the console
  offers to cancel executions on a route that does not exist.
* Websockets: the routes `/api/ws/executions/:executionId` and `/api/ws/events`
  (`api-server/src/index.ts:1948`, `2047`) ask for `{ websocket: true }`, but no
  websocket plugin is registered or a dependency. Their handlers are called with
  (request, reply) and fail before a socket is registered.
* Webhooks: after stop and start within one cycle two loops run on for ever and
  each post is made twice; a late or failed UPDATE can take a delivered row back
  to `retrying`, and the subscriber gets it again; nothing in the repository
  calls `storeDelivery`.
* Policy plane: the cache key is the input alone and not the policy path
  (`policy-plane/src/service.ts:290`), so within its time to live a decision made for
  one path answers for the other when the inputs are equal, an allowance included. The
  two callers in the repository send different inputs.
* Namespaces: the list orders newest first, and its page token selects the rows
  created after the token's row, so a second page repeats the newest rows and
  never shows the older ones (`namespaces/repository.ts:101`;
  `namespace-repository.test.ts:238` expects two rows on it, of a mocked pool).
  The enforcement cache is never filled: `updateNamespaceCache` has no caller.
* Authentication: two concurrent refreshes with one token both succeed; a token
  kept in memory is refused once Redis is back; a failed DEL leaves the old token
  valid; a stale `isLocked` clears a newer lock; the blacklist entry ends a second
  before some tokens do; a password change ends only the session presented;
  `is_active` and `deleted_at` are read and never set.
* Quotas: `getRedis` takes the default export of `import("redis")` before
  `createClient` (`enforcer.ts:33`). That is the module's object and not a function, so
  it answers null and every worker process counts for itself; nor would a client be
  connected. The Redis commands of `checkRedis` never run. The window of
  `checkFallback` is fixed, although its comment calls it sliding, so up to twice the
  limit falls into a span of its length. `check` multiplies the limit by `amount` and
  counts one, `release` takes `amount` off: no caller passes an amount. `reset` has no
  caller. `waitForQuota` waits four minutes, "activity timeout is 5 min"
  (`activities/index.ts:19`), but that of `executeTool` is two (`react-workflow.ts:54`):
  an attempt that has timed out waits on and then runs beside its retry.
* Budgets: the query of requests per minute reads `namespace_usage.updated_at`
  (`persistent-budget.ts:188`), a column that the table documented above it lacks,
  so with that table `recordUsage` throws there after its upsert, and what is
  checked of it is about a table that has the column; a limit of 0 means the
  default; concurrent `setBudget` calls lose one change; a namespace without a row
  never alerts; `parseInt("1_000_000", 10)` is 1, so the in-memory default of tokens
  per day is one token (`tracker.ts:25`).
* Audit: a restart begins a chain at the zero hash under the same id; a chain cut
  at its cap does not verify; `purgeAuditEntries` names a column that the table
  lacks.
* Observability: `ingestSpan` and `batchIngest` say ON CONFLICT (span_id)
  (`repository.ts:42`, `248`), but the only unique constraint of `spans` is its primary
  key (span_id, start_time) (`migrations/002_observability_plane.sql:16`): PostgreSQL
  rejects every such INSERT, the error is logged and the export answered as a success.
  "Durable copy still goes to PostgreSQL" (`index.ts:86`) does not hold, and a replay
  shows what the process's cache has: after an eviction only the later spans, after a
  restart none of the earlier ones, and a retried export twice. `listTraces`,
  `deleteTrace` and `batchIngest` have no callers.
* Flags: a partial upsert resets the fields it does not name; no service starts
  the module. SLO: nothing calls `record()`; burn windows wider than the snapshot
  see only its samples; a budget of which the floor is zero counts as consumed.

## 6. Not modelled, and why

* gRPC interceptors: tracing, token and retry wrappers; the retry's repeated call
  never reaches a handler.
* Read-only routes and reports (statistics, costs, execution history, similarity
  search, replay sessions, analytics), health endpoints and the start of servers:
  they change no state.
* The policy middleware (`policy-plane/src/middleware.ts`): a library function
  that no server mounts. Rego evaluation, opossum, Docker, Temporal, Redis and
  PostgreSQL are libraries and services, modelled from how the code uses them.
* The websocket routes, the Redis commands of the quota enforcer, and the rows of
  spans with their queries and their purge: none of it can run or have a row, see §5.
* Prices, token counts by text, span texts, signatures, hashing, validation
  patterns, TLS and telemetry: data that no property here tells apart.
* The direct webhook senders `deliverWebhook` and `deliverWithRetry`: they keep no
  state and nothing reads their outcome back.
* The console's user interface, migrations, Helm charts and Terraform.

## 7. Plan

Done: all components of §1 except those of §6.

Next: the helper operators that the proofs share (`Rank`, `InOrder`, `Keep`, the sums)
as a module of lemmas of its own once another component needs them, and more of the
routes of the API server in `RestApi`.
