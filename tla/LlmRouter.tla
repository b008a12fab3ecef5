------------------------------ MODULE LlmRouter ------------------------------
(***************************************************************************)
(* The LLM router (execution-plane/llm-router, index.ts): the Generate and *)
(* GenerateStream handlers, from the rate limiter and the concurrency      *)
(* semaphore through the prompt scan to the chain of fallback models, with *)
(* the circuit breaker of each provider.                                   *)
(*                                                                         *)
(* A handler awaits the semaphore, the provider and the back-off between   *)
(* two tries; at each of these the other requests, the timers and the      *)
(* breakers move.  A provider may answer, fail or stay silent: only the    *)
(* handler's own abort timer ends a silent call.  Contents, tokens and     *)
(* prices are left out; OPENAI_API_KEY is set, without it both handlers    *)
(* refuse at once.  LLM_CIRCUIT_BREAKER_TIMEOUT_MS is not smaller than     *)
(* LLM_TIMEOUT_MS (both are 30000 unless configured), so that a breaker's  *)
(* own timeout comes after the abort of the call it watches.               *)
(***************************************************************************)
EXTENDS Integers, Sequences, FiniteSets

CONSTANTS
    Requests,       \* the calls of Generate and GenerateStream
    Streaming,      \* those of GenerateStream
    Agents,
    Agent,          \* the agent (rate limit key) of each request
    Models,
    Preferred,      \* the model each request asks for
    Providers,
    detectProvider, \* the provider of each model
    QuietOnAbort,   \* the providers whose client ends an aborted stream without an error
    FALLBACK_CHAIN, \* a sequence of models
    maxRetries,     \* retryWithBackoff's argument, for each provider
    MAX_CONCURRENT,
    maxRequests,    \* RATE_LIMIT_RPM
    Prompts         \* the severities found in a request's messages, in order

ASSUME RequestsAssumption == IsFiniteSet(Requests)
ASSUME StreamingAssumption == Streaming \subseteq Requests
ASSUME AgentAssumption == Agent \in [Requests -> Agents]
ASSUME ModelAssumption ==
    /\ Preferred \in [Requests -> Models]
    /\ detectProvider \in [Models -> Providers]
    /\ FALLBACK_CHAIN \in Seq(Models)
ASSUME RetriesAssumption == maxRetries \in [Providers -> Nat]
ASSUME LimitAssumption == MAX_CONCURRENT \in Nat \ {0} /\ maxRequests \in Nat \ {0}
ASSUME PromptsAssumption == Prompts \subseteq Seq({"medium", "high", "critical"})

VARIABLES
    current, waiters, slot, \* the semaphore: counter, queue, state of each caller
    active,     \* the timestamps of each agent inside the rate limiter's window
    stage,      \* where the handler of each request is
    next,       \* the position in its chain of models
    tries,      \* retryWithBackoff's attempt
    aborted,    \* whether the request's abort timer has fired
    finalModel, \* the model the last chunk came from
    answer,     \* the status the client got
    badRequest, \* whether a provider refused the request as such (400, 401, ...)
    breaker,    \* the circuit breaker of each provider
    pendingClose \* whether a half-open breaker still lets a trial call through

semaphore == <<current, waiters, slot>>
chain == <<next, tries>>
breakers == <<breaker, pendingClose>>
vars == <<semaphore, active, stage, chain, aborted, finalModel, answer, badRequest, breakers>>

Sem == INSTANCE AsyncSemaphore
       WITH Proc <- Requests, Patient <- {}, max <- MAX_CONCURRENT, pc <- slot

(* Between the successful acquire and the finally block. *)
Body == {"rejecting", "choosing", "calling", "backoff"}
Stages == {"new", "acquiring", "ended"} \cup Body

(* [preferredModel, ...FALLBACK_CHAIN without it] *)
models(r) == <<Preferred[r]>> \o SelectSeq(FALLBACK_CHAIN, LAMBDA m : m # Preferred[r])

Model(r) == models(r)[next[r]]
ProviderOf(r) == detectProvider[Model(r)]

Init ==
    /\ Sem!Init
    /\ active = [a \in Agents |-> 0]
    /\ stage = [r \in Requests |-> "new"]
    /\ next = [r \in Requests |-> 1]
    /\ tries = [r \in Requests |-> 0]
    /\ aborted = [r \in Requests |-> FALSE]
    /\ finalModel = Preferred
    /\ answer = [r \in Requests |-> "none"]
    /\ badRequest = [r \in Requests |-> FALSE]
    /\ breaker = [p \in Providers |-> "closed"]
    /\ pendingClose = [p \in Providers |-> FALSE]

(***************************************************************************)
(* Arrival: the rate limiter, then the semaphore.                          *)
(***************************************************************************)
(* check(): fewer than maxRequests timestamps are inside the window. *)
Allowed(a) == active[a] < maxRequests

RateLimited(r) ==
    /\ stage[r] = "new"
    /\ ~Allowed(Agent[r])
    /\ stage' = [stage EXCEPT ![r] = "ended"]
    /\ answer' = [answer EXCEPT ![r] = "RESOURCE_EXHAUSTED"]
    /\ UNCHANGED <<semaphore, active, chain, aborted, finalModel, badRequest, breakers>>

Acquire(r) ==
    /\ stage[r] = "new"
    /\ Allowed(Agent[r])
    /\ active' = [active EXCEPT ![Agent[r]] = @ + 1]
    /\ Sem!AcquireFree(r) \/ Sem!AcquireBusy(r)
    /\ stage' = [stage EXCEPT ![r] = "acquiring"]
    /\ UNCHANGED <<chain, aborted, finalModel, answer, badRequest, breakers>>

(* The oldest timestamp leaves the window. *)
WindowMoves(a) ==
    /\ active[a] > 0
    /\ active' = [active EXCEPT ![a] = @ - 1]
    /\ UNCHANGED <<semaphore, stage, chain, aborted, finalModel, answer, badRequest, breakers>>

(* The 25 seconds of acquire() are over. *)
AcquireTimeout(r) ==
    /\ Sem!TimerFires(r)
    /\ UNCHANGED <<active, stage, chain, aborted, finalModel, answer, badRequest, breakers>>

(* Mutation: the finally block releases although nothing was acquired. *)
Refused_Releases(r) ==
    /\ slot[r] = "refused"
    /\ current' = IF current > 0 THEN current - 1 ELSE current
    /\ slot' = [slot EXCEPT ![r] = "idle"]
    /\ stage' = [stage EXCEPT ![r] = "ended"]
    /\ answer' = [answer EXCEPT ![r] = "DEADLINE_EXCEEDED"]
    /\ UNCHANGED <<waiters, active, chain, aborted, finalModel, badRequest, breakers>>

(* acquire() returned false: answer; the finally block releases nothing. *)
Refused(r) ==
    /\ slot[r] = "refused"
    /\ Sem!Resume(r)
    /\ stage' = [stage EXCEPT ![r] = "ended"]
    /\ answer' = [answer EXCEPT ![r] = "DEADLINE_EXCEEDED"]
    /\ UNCHANGED <<active, chain, aborted, finalModel, badRequest, breakers>>

(* scanMessagesForInjection: a critical finding replaces any other, and    *)
(* otherwise the first one stays the worst.                                *)
Worst(prompt) ==
    IF \E i \in 1 .. Len(prompt) : prompt[i] = "critical" THEN "critical"
    ELSE IF prompt = <<>> THEN "none" ELSE Head(prompt)

(* acquire() returned true: scan the messages, then start the abort timer. *)
Granted(r) ==
    /\ slot[r] = "granted"
    /\ Sem!Resume(r)
    /\ \E prompt \in Prompts :
           stage' = [stage EXCEPT ![r] =
               IF Worst(prompt) \in {"high", "critical"} THEN "rejecting" ELSE "choosing"]
    /\ UNCHANGED <<active, chain, aborted, finalModel, answer, badRequest, breakers>>

(***************************************************************************)
(* The end of a handler that holds a slot: answer, then finally.           *)
(***************************************************************************)
(* What the handler's locals were no longer matters, its timer included. *)
End(r, status) ==
    /\ stage' = [stage EXCEPT ![r] = "ended"]
    /\ answer' = [answer EXCEPT ![r] = status]
    /\ tries' = [tries EXCEPT ![r] = 0]
    /\ aborted' = [aborted EXCEPT ![r] = FALSE]
    /\ Sem!Release(r)

RejectPrompt(r) ==
    /\ stage[r] = "rejecting"
    /\ End(r, "INVALID_ARGUMENT")
    /\ UNCHANGED <<active, next, finalModel, badRequest, breakers>>

(***************************************************************************)
(* The breakers (opossum), as the router drives them.                      *)
(***************************************************************************)
(* fire() lets a call through when closed, and one trial when half-open. *)
LetsThrough(p) == breaker[p] = "closed" \/ pendingClose[p]

(* "success": a half-open breaker closes. *)
BreakerSuccess(p) ==
    /\ breaker' = [breaker EXCEPT ![p] = IF @ = "half_open" THEN "closed" ELSE @]
    /\ pendingClose' = [pendingClose EXCEPT ![p] = FALSE]

(* "failure": a half-open breaker opens; a closed one when the failures    *)
(* pass the threshold.  Errors of the request itself count too.            *)
BreakerFailure(p) ==
    \E s \in IF breaker[p] = "closed" THEN {"closed", "open"} ELSE {"open"} :
        /\ breaker' = [breaker EXCEPT ![p] = s]
        /\ pendingClose' = [pendingClose EXCEPT ![p] = FALSE]

(* resetTimeout after the opening. *)
BreakerReset(p) ==
    /\ breaker[p] = "open"
    /\ breaker' = [breaker EXCEPT ![p] = "half_open"]
    /\ pendingClose' = [pendingClose EXCEPT ![p] = TRUE]
    /\ UNCHANGED <<semaphore, active, stage, chain, aborted, finalModel, answer, badRequest>>

(***************************************************************************)
(* callLLMWithFallback and streamLLMWithFallback.                          *)
(***************************************************************************)
(* The next model's provider is called; a stream does not ask the breaker. *)
Fire(r) ==
    /\ stage[r] = "choosing"
    /\ next[r] <= Len(models(r))
    /\ ~aborted[r]
    /\ stage' = [stage EXCEPT ![r] = "calling"]
    /\ \/ /\ r \in Streaming
          /\ UNCHANGED pendingClose
       \/ /\ r \notin Streaming
          /\ LetsThrough(ProviderOf(r))
          /\ pendingClose' = [pendingClose EXCEPT ![ProviderOf(r)] = FALSE]
    /\ UNCHANGED <<semaphore, active, chain, aborted, finalModel, answer, badRequest, breaker>>

(* fire() rejects at once: on to the next model. *)
FastFail(r) ==
    /\ stage[r] = "choosing"
    /\ next[r] <= Len(models(r))
    /\ r \notin Streaming
    /\ ~LetsThrough(ProviderOf(r))
    /\ next' = [next EXCEPT ![r] = @ + 1]
    /\ UNCHANGED <<semaphore, active, stage, tries, aborted, finalModel, answer, badRequest,
                   breakers>>

(* The chain is exhausted.  A stream rethrows the last error, which may be *)
(* the AbortError.                                                         *)
Exhausted(r) ==
    /\ stage[r] = "choosing"
    /\ next[r] > Len(models(r))
    /\ \/ End(r, "INTERNAL")
       \/ r \in Streaming /\ aborted[r] /\ End(r, "DEADLINE_EXCEEDED")
    /\ UNCHANGED <<active, next, finalModel, badRequest, breakers>>

(* A call that failed tells the provider's breaker, if it went through it. *)
CountFailure(r) == IF r \in Streaming THEN UNCHANGED breakers ELSE BreakerFailure(ProviderOf(r))

(* catch: on to the next model, with fresh retries. *)
FailOver(r) ==
    /\ CountFailure(r)
    /\ stage' = [stage EXCEPT ![r] = "choosing"]
    /\ next' = [next EXCEPT ![r] = @ + 1]
    /\ tries' = [tries EXCEPT ![r] = 0]
    /\ UNCHANGED <<semaphore, active, aborted, finalModel, answer, badRequest>>

(* A server error, a broken connection, an empty or malformed answer. *)
ProviderFails(r) ==
    /\ stage[r] = "calling"
    /\ ~aborted[r]
    /\ FailOver(r)

(* 429 with a retry left. *)
BackOff(r) ==
    /\ stage[r] = "calling"
    /\ ~aborted[r]
    /\ r \notin Streaming
    /\ tries[r] < maxRetries[ProviderOf(r)]
    /\ stage' = [stage EXCEPT ![r] = "backoff"]
    /\ tries' = [tries EXCEPT ![r] = @ + 1]
    /\ UNCHANGED <<semaphore, active, next, aborted, finalModel, answer, badRequest, breakers>>

BackOffOver(r) ==
    /\ stage[r] = "backoff"
    /\ ~aborted[r]
    /\ stage' = [stage EXCEPT ![r] = "calling"]
    /\ UNCHANGED <<semaphore, active, chain, aborted, finalModel, answer, badRequest, breakers>>

(* 429 after the last retry: on to the next model. *)
RetriesExhausted(r) ==
    /\ stage[r] = "calling"
    /\ ~aborted[r]
    /\ r \notin Streaming
    /\ tries[r] >= maxRetries[ProviderOf(r)]
    /\ FailOver(r)

(* 400, 401, 403 or 422: no other model is asked. *)
BadRequest(r) ==
    /\ stage[r] = "calling"
    /\ ~aborted[r]
    /\ CountFailure(r)
    /\ badRequest' = [badRequest EXCEPT ![r] = TRUE]
    /\ End(r, "INTERNAL")
    /\ UNCHANGED <<active, next, finalModel>>

(* Generate's answer: cost, record, callback. *)
Completed(r) ==
    /\ stage[r] = "calling"
    /\ ~aborted[r]
    /\ r \notin Streaming
    /\ BreakerSuccess(ProviderOf(r))
    /\ finalModel' = [finalModel EXCEPT ![r] = Model(r)]
    /\ End(r, "OK")
    /\ UNCHANGED <<active, next, badRequest>>

(* A chunk is written to the client at once, and the last one names the    *)
(* model of the "done" chunk.                                              *)
Chunk(r) ==
    /\ stage[r] = "calling"
    /\ ~aborted[r]
    /\ r \in Streaming
    /\ finalModel' = [finalModel EXCEPT ![r] = Model(r)]
    /\ UNCHANGED <<semaphore, active, stage, chain, aborted, answer, badRequest, breakers>>

(* The provider's stream ends: cost, record, the "done" chunk.  So it does *)
(* when the client library ends an aborted stream without an error.        *)
StreamDone(r) ==
    /\ stage[r] = "calling"
    /\ r \in Streaming
    /\ aborted[r] => ProviderOf(r) \in QuietOnAbort
    /\ End(r, "OK")
    /\ UNCHANGED <<active, next, finalModel, badRequest, breakers>>

(* Mutation: nothing aborts a call. *)
AbortTimer_Missing(r) ==
    /\ stage[r] \in {"choosing", "calling", "backoff"}
    /\ UNCHANGED vars

(* The request's timer: abort.abort(). *)
AbortTimer(r) ==
    /\ stage[r] \in {"choosing", "calling", "backoff"}
    /\ ~aborted[r]
    /\ aborted' = [aborted EXCEPT ![r] = TRUE]
    /\ UNCHANGED <<semaphore, active, stage, chain, finalModel, answer, badRequest, breakers>>

(* An aborted call rejects, and a back-off is followed by a call that does *)
(* or cut short by the breaker's timeout.                                  *)
CallAborted(r) ==
    /\ stage[r] \in {"calling", "backoff"}
    /\ aborted[r]
    /\ FailOver(r)

(* With an aborted signal the remaining models fail without being called,  *)
(* and their breakers count it.                                            *)
FireAborted(r) ==
    /\ stage[r] = "choosing"
    /\ next[r] <= Len(models(r))
    /\ aborted[r]
    /\ r \in Streaming \/ LetsThrough(ProviderOf(r))
    /\ FailOver(r)

(* What the process does by itself, and what a provider does. *)
Handler(r) ==
    \/ Refused(r) \/ Granted(r) \/ RejectPrompt(r)
    \/ Fire(r) \/ FastFail(r) \/ Exhausted(r) \/ BackOffOver(r)
    \/ CallAborted(r) \/ FireAborted(r)

Upstream(r) ==
    \/ ProviderFails(r) \/ BackOff(r) \/ RetriesExhausted(r) \/ BadRequest(r)
    \/ Completed(r) \/ Chunk(r) \/ StreamDone(r)

Next ==
    \/ \E r \in Requests :
          \/ RateLimited(r) \/ Acquire(r) \/ AcquireTimeout(r)
          \/ Handler(r) \/ Upstream(r) \/ AbortTimer(r)
    \/ \E a \in Agents : WindowMoves(a)
    \/ \E p \in Providers : BreakerReset(p)

(* Continuations run and timers fire.  Nothing obliges a provider to       *)
(* answer, and nobody to send a request.                                   *)
Fairness ==
    /\ \A r \in Requests : WF_vars(Handler(r)) /\ WF_vars(AbortTimer(r))
    /\ \A p \in Providers : WF_vars(BreakerReset(p))

Spec == Init /\ [][Next]_vars /\ Fairness

(***************************************************************************)
(* Properties.                                                             *)
(***************************************************************************)
(* The type invariant; an agent never has more than maxRequests accepted   *)
(* requests in the window.                                                 *)
TypeOK ==
    /\ Sem!TypeOK
    /\ active \in [Agents -> 0 .. maxRequests]
    /\ stage \in [Requests -> Stages]
    /\ \A r \in Requests : next[r] \in 1 .. Len(models(r)) + 1
    /\ \A r \in Requests : stage[r] = "calling" => tries[r] \in 0 .. maxRetries[ProviderOf(r)]
    /\ aborted \in [Requests -> BOOLEAN]
    /\ finalModel \in [Requests -> Models]
    /\ answer \in [Requests -> {"none", "OK", "INTERNAL", "DEADLINE_EXCEEDED",
                                "INVALID_ARGUMENT", "RESOURCE_EXHAUSTED"}]
    /\ badRequest \in [Requests -> BOOLEAN]
    /\ breaker \in [Providers -> {"closed", "open", "half_open"}]
    /\ pendingClose \in [Providers -> BOOLEAN]

(* At most MAX_CONCURRENT provider calls are in flight, whatever mixture   *)
(* of time-outs, rejections, retries and fallbacks the handlers go through.*)
UpstreamBounded ==
    Cardinality({r \in Requests : stage[r] = "calling"}) <= MAX_CONCURRENT

(* A slot is held exactly from the successful acquire to the end of the    *)
(* handler, and nobody waits for one before or after: every way out passes *)
(* the finally block once.                                                 *)
SlotHeldByBody ==
    \A r \in Requests :
        /\ stage[r] \in Body <=> slot[r] = "running"
        /\ stage[r] \in {"new", "ended"} <=> slot[r] = "idle"

(* The handlers use the semaphore as its specification allows: nobody      *)
(* acquires twice or releases what it does not hold, so that what is       *)
(* proved of the semaphore holds in the router.                            *)
UsesSemaphore == Sem!Init /\ [][Sem!Next]_semaphore

(* A request fails with INTERNAL only when its provider refused it as a    *)
(* bad request or when every model of its chain was tried or fast-failed.  *)
FailsOnlyWhenExhausted ==
    \A r \in Requests :
        answer[r] = "INTERNAL" => badRequest[r] \/ next[r] > Len(models(r))

(* A trial call through a half-open breaker always tells it the outcome,   *)
(* also when the provider stays silent: no breaker stays half-open with    *)
(* nobody left to close it.                                                *)
TrialSettles ==
    \A p \in Providers :
        breaker[p] = "half_open" /\ ~pendingClose[p] ~> breaker[p] # "half_open"

(* Every request that was accepted is answered, though providers may never *)
(* answer and all slots may be taken.                                      *)
EveryRequestAnswered == \A r \in Requests : stage[r] = "acquiring" ~> stage[r] = "ended"
=============================================================================
