--------------------------- MODULE LlmRouterProofs ---------------------------
(***************************************************************************)
(* The router's concurrency limit, for any set of requests, models and     *)
(* providers and any limit.  The argument is compositional: every step of  *)
(* the router is a step of the semaphore or leaves it alone, so that the   *)
(* semaphore's invariant (AsyncSemaphoreProofs) holds in the router; and a *)
(* request that awaits a provider is one that holds a slot.                *)
(***************************************************************************)
EXTENDS LlmRouter, FiniteSetTheorems, TLAPS

SemP == INSTANCE AsyncSemaphoreProofs
        WITH Proc <- Requests, Patient <- {}, max <- MAX_CONCURRENT, pc <- slot

(* The inductive invariant. *)
RInv ==
    /\ SemP!IInv
    /\ stage \in [Requests -> Stages]
    /\ SlotHeldByBody

-----------------------------------------------------------------------------
(* The semaphore's actions mean the same in both instances. *)
LEMMA SameSemaphore ==
    /\ Sem!Init <=> SemP!Init
    /\ \A r \in Requests :
          /\ Sem!AcquireFree(r) <=> SemP!AcquireFree(r)
          /\ Sem!AcquireBusy(r) <=> SemP!AcquireBusy(r)
          /\ Sem!TimerFires(r) <=> SemP!TimerFires(r)
          /\ Sem!Release(r) <=> SemP!Release(r)
          /\ Sem!Resume(r) <=> SemP!Resume(r)
BY DEF Sem!Init, SemP!Init, Sem!AcquireFree, SemP!AcquireFree, Sem!AcquireBusy,
       SemP!AcquireBusy, Sem!TimerFires, SemP!TimerFires, Sem!Release, SemP!Release,
       Sem!ReleaseToWaiter, SemP!ReleaseToWaiter, Sem!ReleaseFree, SemP!ReleaseFree,
       Sem!Resume, SemP!Resume, Sem!Splice, SemP!Splice

(* The assumptions of the semaphore's proofs hold of its use here. *)
LEMMA SemAssumptions ==
    /\ SemP!IsFiniteSet(Requests)
    /\ {} \subseteq Requests
    /\ MAX_CONCURRENT \in SemP!Nat \ {0}
BY RequestsAssumption, LimitAssumption DEF SemP!IsFiniteSet, IsFiniteSet

(* The semaphore's own invariant is kept by its own steps. *)
LEMMA SemInv == SemP!IInv /\ [SemP!Next]_SemP!vars => SemP!IInv'
BY SemP!NextInv, SemAssumptions

(* In the initial state no handler has started. *)
LEMMA InitInv == Init => RInv
<1> SUFFICES ASSUME Init PROVE RInv
  OBVIOUS
<1>1. SemP!IInv
  BY SameSemaphore, SemP!InitInv, SemAssumptions DEF Init
<1>2. slot = [r \in Requests |-> "idle"] /\ stage = [r \in Requests |-> "new"]
  BY DEF Init, Sem!Init
<1> QED
  BY <1>1, <1>2 DEF RInv, SlotHeldByBody, Stages, Body

-----------------------------------------------------------------------------
(* A step that leaves the semaphore alone and moves one request within the *)
(* body of its handler, or moves none, keeps the invariant.                *)
LEMMA WithinBody ==
    ASSUME RInv, NEW r \in Requests, NEW s \in Body, stage[r] \in Body,
           stage' = [stage EXCEPT ![r] = s], UNCHANGED semaphore
    PROVE  RInv'
<1>1. SemP!IInv'
  BY SemInv DEF RInv, semaphore, SemP!vars
<1> QED
  BY <1>1 DEF RInv, SlotHeldByBody, Stages, Body, semaphore

LEMMA StageUnchanged ==
    ASSUME RInv, UNCHANGED <<semaphore, stage>>
    PROVE  RInv'
<1>1. SemP!IInv'
  BY SemInv DEF RInv, semaphore, SemP!vars
<1> QED
  BY <1>1 DEF RInv, SlotHeldByBody, semaphore

(* The end of a handler: its slot goes to the first waiter or is freed. *)
LEMMA EndInv ==
    ASSUME RInv, NEW r \in Requests, NEW status, End(r, status)
    PROVE  RInv'
<1>1. SemP!Release(r)
  BY SameSemaphore DEF End
<1>2. SemP!IInv'
  BY <1>1, SemInv DEF SemP!Next, RInv
<1>3. stage' = [stage EXCEPT ![r] = "ended"]
  BY DEF End
<1>4. CASE SemP!ReleaseToWaiter(r)
  <2> DEFINE h == Head(waiters)
  <2>1. 1 \in 1 .. Len(waiters) /\ h = waiters[1] /\ h \in Requests
    BY <1>4 DEF SemP!ReleaseToWaiter, RInv, SemP!IInv, SemP!TypeOK
  <2>2. slot[h] = "waiting" /\ slot[r] = "running"
    BY <1>4, <2>1 DEF SemP!ReleaseToWaiter, RInv, SemP!IInv, SemP!QueueConsistent
  <2>3. slot' = [slot EXCEPT ![r] = "idle", ![h] = "granted"] /\ slot \in [Requests -> SemP!States]
    BY <1>4 DEF SemP!ReleaseToWaiter, RInv, SemP!IInv, SemP!TypeOK
  <2> HIDE DEF h
  <2> QED
    BY <1>2, <1>3, <2>1, <2>2, <2>3 DEF RInv, SlotHeldByBody, Stages, Body
<1>5. CASE SemP!ReleaseFree(r)
  <2>1. slot' = [slot EXCEPT ![r] = "idle"] /\ slot \in [Requests -> SemP!States]
    BY <1>5 DEF SemP!ReleaseFree, RInv, SemP!IInv, SemP!TypeOK
  <2> QED
    BY <1>2, <1>3, <2>1 DEF RInv, SlotHeldByBody, Stages, Body
<1> QED
  BY <1>1, <1>4, <1>5 DEF SemP!Release

(* The steps of one request's handler before it holds a slot. *)
LEMMA ArrivalInv ==
    ASSUME RInv, NEW r \in Requests,
           RateLimited(r) \/ Acquire(r) \/ AcquireTimeout(r) \/ Refused(r) \/ Granted(r)
    PROVE  RInv'
<1>0. slot \in [Requests -> SemP!States] /\ stage \in [Requests -> Stages]
  BY DEF RInv, SemP!IInv, SemP!TypeOK
<1>1. CASE RateLimited(r)
  <2>1. SemP!IInv'
    BY <1>1, SemInv DEF RInv, RateLimited, semaphore, SemP!vars
  <2> QED
    BY <1>0, <1>1, <2>1 DEF RateLimited, RInv, SlotHeldByBody, Stages, Body, semaphore
<1>2. CASE Acquire(r)
  <2>1. SemP!AcquireFree(r) \/ SemP!AcquireBusy(r)
    BY <1>2, SameSemaphore DEF Acquire
  <2>2. SemP!IInv'
    BY <2>1, SemInv DEF RInv, SemP!Next
  <2>3. \E s \in {"granted", "waiting"} : slot' = [slot EXCEPT ![r] = s]
    BY <2>1 DEF SemP!AcquireFree, SemP!AcquireBusy
  <2> QED
    BY <1>0, <1>2, <2>2, <2>3 DEF Acquire, RInv, SlotHeldByBody, Stages, Body
<1>3. CASE AcquireTimeout(r)
  <2>1. SemP!TimerFires(r) /\ UNCHANGED stage
    BY <1>3, SameSemaphore DEF AcquireTimeout
  <2>2. SemP!IInv'
    BY <2>1, SemInv DEF RInv, SemP!Next
  <2>3. slot' = [slot EXCEPT ![r] = "refused"]
    BY <2>1 DEF SemP!TimerFires
  <2>4. slot[r] = "waiting"
    BY <2>1 DEF SemP!TimerFires, RInv, SemP!IInv, SemP!QueueConsistent
  <2> QED
    BY <1>0, <2>1, <2>2, <2>3, <2>4 DEF RInv, SlotHeldByBody
<1>4. CASE Refused(r)
  <2>1. SemP!Resume(r) /\ slot[r] = "refused"
    BY <1>4, SameSemaphore DEF Refused
  <2>2. SemP!IInv'
    BY <2>1, SemInv DEF RInv, SemP!Next
  <2>3. slot' = [slot EXCEPT ![r] = "idle"]
    BY <2>1 DEF SemP!Resume
  <2> QED
    BY <1>0, <1>4, <2>2, <2>3 DEF Refused, RInv, SlotHeldByBody, Stages, Body
<1>5. CASE Granted(r)
  <2>1. SemP!Resume(r) /\ slot[r] = "granted"
    BY <1>5, SameSemaphore DEF Granted
  <2>2. SemP!IInv'
    BY <2>1, SemInv DEF RInv, SemP!Next
  <2>3. slot' = [slot EXCEPT ![r] = "running"]
    BY <2>1 DEF SemP!Resume
  <2>4. \E s \in {"rejecting", "choosing"} : stage' = [stage EXCEPT ![r] = s]
    BY <1>5 DEF Granted
  <2> QED
    BY <1>0, <2>2, <2>3, <2>4 DEF RInv, SlotHeldByBody, Stages, Body
<1> QED
  BY <1>1, <1>2, <1>3, <1>4, <1>5

(* The steps of a handler that holds a slot either end it or stay in its   *)
(* body and leave the semaphore alone.                                     *)
LEMMA BodyStep ==
    ASSUME NEW r \in Requests,
           \/ RejectPrompt(r) \/ Fire(r) \/ FastFail(r) \/ Exhausted(r) \/ BackOffOver(r)
           \/ CallAborted(r) \/ FireAborted(r) \/ Upstream(r) \/ AbortTimer(r)
    PROVE  \/ \E status : End(r, status)
           \/ UNCHANGED <<semaphore, stage>>
           \/ /\ UNCHANGED semaphore
              /\ stage[r] \in Body
              /\ \E s \in Body : stage' = [stage EXCEPT ![r] = s]
<1>1. CASE RejectPrompt(r)
  BY <1>1 DEF RejectPrompt
<1>2. CASE Fire(r)
  BY <1>2 DEF Fire, Body
<1>3. CASE FastFail(r)
  BY <1>3 DEF FastFail
<1>4. CASE Exhausted(r)
  BY <1>4 DEF Exhausted
<1>5. CASE BackOffOver(r)
  BY <1>5 DEF BackOffOver, Body
<1>6. CASE CallAborted(r)
  BY <1>6 DEF CallAborted, FailOver, Body
<1>7. CASE FireAborted(r)
  BY <1>7 DEF FireAborted, FailOver, Body
<1>8. CASE Upstream(r)
  <2>1. CASE ProviderFails(r) \/ RetriesExhausted(r)
    BY <2>1 DEF ProviderFails, RetriesExhausted, FailOver, Body
  <2>2. CASE BackOff(r)
    BY <2>2 DEF BackOff, Body
  <2>3. CASE BadRequest(r) \/ Completed(r) \/ StreamDone(r)
    BY <2>3 DEF BadRequest, Completed, StreamDone
  <2>4. CASE Chunk(r)
    BY <2>4 DEF Chunk
  <2> QED
    BY <1>8, <2>1, <2>2, <2>3, <2>4 DEF Upstream
<1>9. CASE AbortTimer(r)
  BY <1>9 DEF AbortTimer
<1> QED
  BY <1>1, <1>2, <1>3, <1>4, <1>5, <1>6, <1>7, <1>8, <1>9

LEMMA BodyInv ==
    ASSUME RInv, NEW r \in Requests,
           \/ RejectPrompt(r) \/ Fire(r) \/ FastFail(r) \/ Exhausted(r) \/ BackOffOver(r)
           \/ CallAborted(r) \/ FireAborted(r) \/ Upstream(r) \/ AbortTimer(r)
    PROVE  RInv'
BY BodyStep, EndInv, WithinBody, StageUnchanged

(* Every step keeps the invariant. *)
LEMMA NextInv == RInv /\ [Next]_vars => RInv'
<1> SUFFICES ASSUME RInv, [Next]_vars PROVE RInv'
  OBVIOUS
<1>1. CASE UNCHANGED vars
  BY <1>1, StageUnchanged DEF vars
<1>2. ASSUME NEW r \in Requests,
             \/ RateLimited(r) \/ Acquire(r) \/ AcquireTimeout(r)
             \/ Handler(r) \/ Upstream(r) \/ AbortTimer(r)
      PROVE  RInv'
  BY <1>2, ArrivalInv, BodyInv DEF Handler
<1>3. ASSUME NEW a \in Agents, WindowMoves(a) PROVE RInv'
  BY <1>3, StageUnchanged DEF WindowMoves
<1>4. ASSUME NEW p \in Providers, BreakerReset(p) PROVE RInv'
  BY <1>4, StageUnchanged DEF BreakerReset
<1> QED
  BY <1>1, <1>2, <1>3, <1>4 DEF Next

THEOREM Invariance == Spec => []RInv
BY InitInv, NextInv, PTL DEF Spec

-----------------------------------------------------------------------------
(* A slot is held exactly by the handlers between acquire and finally. *)
THEOREM SlotsHeldByBodies == Spec => []SlotHeldByBody
<1>1. RInv => SlotHeldByBody
  BY DEF RInv
<1> QED
  BY <1>1, Invariance, PTL

(* "limits simultaneous calls to upstream API": at most MAX_CONCURRENT     *)
(* requests await a provider at any time.                                  *)
THEOREM UpstreamLimited == Spec => []UpstreamBounded
<1>1. RInv => UpstreamBounded
  <2> SUFFICES ASSUME RInv PROVE UpstreamBounded
    OBVIOUS
  <2> DEFINE calling == {r \in Requests : stage[r] = "calling"}
  <2>1. calling \subseteq SemP!Holders
    BY DEF RInv, SlotHeldByBody, Body, SemP!Holders
  <2>2. IsFiniteSet(SemP!Holders)
    BY RequestsAssumption, FS_Subset DEF SemP!Holders
  <2>3. Cardinality(calling) <= Cardinality(SemP!Holders)
    BY <2>1, <2>2, FS_Subset
  <2>4. Cardinality(SemP!Holders) = current /\ current \in 0 .. MAX_CONCURRENT
    BY DEF RInv, SemP!IInv, SemP!SlotAccounting, SemP!TypeOK, SemP!Cardinality, Cardinality
  <2>5. Cardinality(calling) \in Nat
    BY <2>1, <2>2, FS_Subset, FS_CardinalityType
  <2> QED
    BY <2>3, <2>4, <2>5, LimitAssumption DEF UpstreamBounded
<1> QED
  BY <1>1, Invariance, PTL

(* Every step of the router is a step of the semaphore or leaves it alone, *)
(* so that all theorems about the semaphore's safety hold in the router.   *)
THEOREM SemaphoreUsed == Spec => UsesSemaphore
<1>1. Init => Sem!Init
  BY DEF Init
<1>2. [Next]_vars => [Sem!Next]_semaphore
  <2> SUFFICES ASSUME Next PROVE Sem!Next \/ UNCHANGED semaphore
    BY DEF vars
  <2>1. ASSUME NEW r \in Requests,
               RateLimited(r) \/ Acquire(r) \/ AcquireTimeout(r) \/ Refused(r) \/ Granted(r)
        PROVE  Sem!Next \/ UNCHANGED semaphore
    BY <2>1 DEF RateLimited, Acquire, AcquireTimeout, Refused, Granted, Sem!Next
  <2>2. ASSUME NEW r \in Requests, NEW status, End(r, status) PROVE Sem!Next
    BY <2>2 DEF End, Sem!Next
  <2>3. ASSUME NEW r \in Requests,
               \/ RateLimited(r) \/ Acquire(r) \/ AcquireTimeout(r)
               \/ Handler(r) \/ Upstream(r) \/ AbortTimer(r)
        PROVE  Sem!Next \/ UNCHANGED semaphore
    BY <2>1, <2>2, <2>3, BodyStep DEF Handler
  <2>4. ASSUME NEW a \in Agents, WindowMoves(a) PROVE UNCHANGED semaphore
    BY <2>4 DEF WindowMoves
  <2>5. ASSUME NEW p \in Providers, BreakerReset(p) PROVE UNCHANGED semaphore
    BY <2>5 DEF BreakerReset
  <2> QED
    BY <2>3, <2>4, <2>5 DEF Next
<1> QED
  BY <1>1, <1>2, PTL DEF Spec, UsesSemaphore

-----------------------------------------------------------------------------
(* For the fallback chain: a handler has answered exactly when it ended,   *)
(* and its position in the chain is a number.                              *)
FInv ==
    /\ stage \in [Requests -> Stages]
    /\ next \in [Requests -> Nat]
    /\ badRequest \in [Requests -> BOOLEAN]
    /\ answer = [r \in Requests |-> answer[r]]
    /\ \A r \in Requests : answer[r] = "none" <=> stage[r] # "ended"
    /\ FailsOnlyWhenExhausted

(* A request fails with INTERNAL only as a bad request or when its chain   *)
(* of models is exhausted.                                                 *)
THEOREM FailsExhausted == Spec => []FailsOnlyWhenExhausted
<1>1. Init => FInv
  BY DEF Init, FInv, FailsOnlyWhenExhausted, Stages
<1>2. RInv /\ FInv /\ [Next]_vars => FInv'
  <2> SUFFICES ASSUME RInv, FInv, [Next]_vars PROVE FInv'
    OBVIOUS
  <2> USE DEF FInv
  <2>1. ASSUME UNCHANGED <<stage, next, answer, badRequest>> PROVE FInv'
    BY <2>1 DEF FailsOnlyWhenExhausted
  <2>2. ASSUME NEW r \in Requests, NEW s \in Stages \ {"ended"}, stage[r] # "ended",
               stage' = [stage EXCEPT ![r] = s], UNCHANGED <<answer, badRequest>>,
               next' \in {next, [next EXCEPT ![r] = @ + 1]}
        PROVE  FInv'
    <3>1. stage' \in [Requests -> Stages] /\ next' \in [Requests -> Nat]
      BY <2>2
    <3>2. \A q \in Requests : answer'[q] = "none" <=> stage'[q] # "ended"
      BY <2>2
    <3>3. \A q \in Requests : answer'[q] = "INTERNAL" => next'[q] = next[q]
      BY <2>2
    <3>4. ASSUME NEW q \in Requests, answer'[q] = "INTERNAL"
          PROVE  badRequest'[q] \/ next'[q] > Len(models(q))
      <4>1. badRequest[q] \/ next[q] > Len(models(q))
        BY <2>2, <3>4 DEF FailsOnlyWhenExhausted
      <4> QED
        BY <2>2, <3>3, <3>4, <4>1
    <3>5. FailsOnlyWhenExhausted'
      BY <3>4 DEF FailsOnlyWhenExhausted
    <3> QED
      BY <2>2, <3>1, <3>2, <3>5
  <2>3. ASSUME NEW r \in Requests, NEW status, status # "none", stage[r] # "ended",
               stage' = [stage EXCEPT ![r] = "ended"],
               answer' = [answer EXCEPT ![r] = status], UNCHANGED next,
               badRequest' \in {badRequest, [badRequest EXCEPT ![r] = TRUE]},
               status = "INTERNAL" => badRequest'[r] \/ next[r] > Len(models(r))
        PROVE  FInv'
    <3>1. stage' \in [Requests -> Stages] /\ badRequest' \in [Requests -> BOOLEAN]
      BY <2>3 DEF Stages
    <3>2. answer' = [q \in Requests |-> answer'[q]]
      BY <2>3
    <3>3. \A q \in Requests : answer'[q] = "none" <=> stage'[q] # "ended"
      BY <2>3
    <3>4. \A q \in Requests \ {r} : answer'[q] = answer[q] /\ badRequest'[q] = badRequest[q]
      BY <2>3
    <3>5. answer'[r] = status
      BY <2>3
    <3>6. ASSUME NEW q \in Requests, answer'[q] = "INTERNAL"
          PROVE  badRequest'[q] \/ next'[q] > Len(models(q))
      <4>1. CASE q = r
        BY <2>3, <3>5, <3>6, <4>1
      <4>2. CASE q # r
        <5>1. badRequest[q] \/ next[q] > Len(models(q))
          BY <3>4, <3>6, <4>2 DEF FailsOnlyWhenExhausted
        <5> QED
          BY <2>3, <3>4, <4>2, <5>1
      <4> QED
        BY <4>1, <4>2
    <3>7. FailsOnlyWhenExhausted'
      BY <3>6 DEF FailsOnlyWhenExhausted
    <3> QED
      BY <2>3, <3>1, <3>2, <3>3, <3>7
  <2>4. ASSUME NEW r \in Requests,
               \/ RateLimited(r) \/ Acquire(r) \/ AcquireTimeout(r)
               \/ Handler(r) \/ Upstream(r) \/ AbortTimer(r)
        PROVE  FInv'
    <3>1. CASE RateLimited(r)
      BY <2>3, <3>1 DEF RateLimited, chain
    <3>2. CASE Acquire(r)
      BY <2>2, <3>2 DEF Acquire, chain, Stages
    <3>3. CASE AcquireTimeout(r) \/ AbortTimer(r)
      BY <2>1, <3>3 DEF AcquireTimeout, AbortTimer, chain
    <3>4. CASE Refused(r)
      <4>1. stage[r] # "ended"
        BY <3>4 DEF Refused, RInv, SlotHeldByBody
      <4> QED
        BY <2>3, <3>4, <4>1 DEF Refused, chain
    <3>5. CASE Granted(r)
      <4>1. \E t \in Stages \ {"ended"} : stage' = [stage EXCEPT ![r] = t]
        BY <3>5 DEF Granted, Stages, Body
      <4>2. stage[r] # "ended"
        BY <3>5 DEF Granted, RInv, SlotHeldByBody
      <4> QED
        BY <2>2, <3>5, <4>1, <4>2 DEF Granted, chain
    <3>6. CASE RejectPrompt(r)
      BY <2>3, <3>6 DEF RejectPrompt, End
    <3>7. CASE Fire(r) \/ BackOffOver(r)
      BY <2>2, <3>7 DEF Fire, BackOffOver, chain, Stages, Body
    <3>14. CASE FastFail(r)
      <4>1. stage' = [stage EXCEPT ![r] = "choosing"]
        BY <3>14 DEF FastFail
      <4> QED
        BY <2>2, <3>14, <4>1 DEF FastFail, Stages, Body
    <3>8. CASE Exhausted(r)
      <4> PICK status \in {"INTERNAL", "DEADLINE_EXCEEDED"} : End(r, status)
        BY <3>8 DEF Exhausted
      <4> QED
        BY <2>3, <3>8 DEF Exhausted, End
    <3>9. CASE CallAborted(r) \/ FireAborted(r) \/ ProviderFails(r) \/ RetriesExhausted(r)
      BY <2>2, <3>9 DEF CallAborted, FireAborted, ProviderFails, RetriesExhausted, FailOver,
                        Stages, Body
    <3>10. CASE BackOff(r)
      BY <2>2, <3>10 DEF BackOff, Stages, Body
    <3>11. CASE Chunk(r)
      BY <2>1, <3>11 DEF Chunk, chain
    <3>12. CASE BadRequest(r)
      BY <2>3, <3>12 DEF BadRequest, End
    <3>13. CASE Completed(r) \/ StreamDone(r)
      BY <2>3, <3>13 DEF Completed, StreamDone, End
    <3> QED
      BY <2>4, <3>1, <3>2, <3>3, <3>4, <3>5, <3>6, <3>7, <3>8, <3>9, <3>10, <3>11, <3>12,
         <3>13, <3>14 DEF Handler, Upstream
  <2>5. ASSUME NEW a \in Agents, WindowMoves(a) PROVE FInv'
    BY <2>1, <2>5 DEF WindowMoves, chain
  <2>6. ASSUME NEW p \in Providers, BreakerReset(p) PROVE FInv'
    BY <2>1, <2>6 DEF BreakerReset, chain
  <2>7. CASE UNCHANGED vars
    BY <2>1, <2>7 DEF vars, chain
  <2> QED
    BY <2>4, <2>5, <2>6, <2>7 DEF Next
<1>3. FInv => FailsOnlyWhenExhausted
  BY DEF FInv
<1> QED
  BY <1>1, <1>2, <1>3, Invariance, PTL DEF Spec
=============================================================================
