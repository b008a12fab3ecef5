---------------------------- MODULE PolicyPlane ----------------------------
(***************************************************************************)
(* The policy plane (policy-plane/src): the HTTP data API (http-api.ts)    *)
(* over PolicyPlaneService (service.ts), which asks OPA behind a circuit   *)
(* breaker and a cache of decisions.                                       *)
(*                                                                         *)
(* evaluatePolicy runs without an await up to the call of OPA; several     *)
(* calls can be waiting for OPA at once.  Time is kept as ages, which Tick *)
(* advances; an age is not counted beyond the point where it matters.      *)
(***************************************************************************)
EXTENDS Integers, Sequences, Subsequences

CONSTANTS
    Callers,            \* requests that can be in progress at once
    Requests,           \* what callers send: [path, input]
    failureThreshold,
    recoveryTime,       \* recoveryTimeMs, in ticks
    maxSize,            \* of the cache
    ttl                 \* ttlMs, in ticks

ASSUME PolicyConstants ==
    /\ Requests # {}
    /\ failureThreshold \in Nat \ {0}
    /\ recoveryTime \in Nat
    /\ maxSize \in Nat \ {0}
    /\ ttl \in Nat

VARIABLES
    breaker,            \* CircuitBreaker: state, failureCount, age of the last failure
    cache,              \* LRUCache.store in insertion order: key, allow, age
    evals,              \* the requests in progress
    opaSaid             \* history, per input: age of OPA's last word if that was "allow"

policyVars == <<breaker, cache, evals, opaSaid>>

Inputs == {q.input : q \in Requests}
NoRequest == CHOOSE q \in Requests : TRUE
NoEval == [pc |-> "idle", req |-> NoRequest]
Lower(a, b) == IF a < b THEN a ELSE b
Never == ttl + 1

InitPolicy ==
    /\ breaker = [state |-> "CLOSED", failures |-> 0, since |-> 0]
    /\ cache = <<>>
    /\ evals = [c \in Callers |-> NoEval]
    /\ opaSaid = [k \in Inputs |-> Never]

----------------------------------------------------------------------------
(* CircuitBreaker.  failureCount is only compared with the threshold.      *)

RecordFailure ==
    LET n == Lower(breaker.failures + 1, failureThreshold)
    IN breaker' = [state |-> IF n >= failureThreshold THEN "OPEN" ELSE breaker.state,
                   failures |-> n, since |-> 0]

RecordSuccess == breaker' = [breaker EXCEPT !.state = "CLOSED", !.failures = 0]

(* Mutation: an open breaker waits for a success that cannot come. *)
CanExecute_Never == breaker.state # "OPEN"

CanExecute == breaker.state = "OPEN" => breaker.since >= recoveryTime

(* The state canExecute leaves behind. *)
Probing == [breaker EXCEPT !.state = IF @ = "OPEN" THEN "HALF_OPEN" ELSE @]

----------------------------------------------------------------------------
(* LRUCache: a Map, so an update keeps an entry's place.                   *)

(* hashInput(normalizeInput(raw)): the whole input, not the path, so that  *)
(* requests of one input to two policies share an entry.                   *)
CacheKey(q) == q.input

IndexOf(k, s) == {i \in DOMAIN s : s[i].key = k}
Without(k, s) == Keep(s, DOMAIN s \ IndexOf(k, s))

(* Mutation: an entry is good until the cleanup timer removes it. *)
Fresh_UntilCleanup(e) == TRUE

(* Date.now() <= entry.expiresAt *)
Fresh(e) == e.age <= ttl

Hits(k) == {cache[i] : i \in {j \in IndexOf(k, cache) : Fresh(cache[j])}}

CacheSet(k, allow) ==
    LET room == IF Len(cache) >= maxSize THEN Tail(cache) ELSE cache
        entry == [key |-> k, allow |-> allow, age |-> 0]
        same == IndexOf(k, room)
    IN IF same = {} THEN Append(room, entry)
       ELSE [room EXCEPT ![CHOOSE i \in same : TRUE] = entry]

(* evictExpired, on the cleanup timer. *)
EvictExpired ==
    /\ \E i \in DOMAIN cache : cache[i].age > ttl
    /\ cache' = Keep(cache, {i \in DOMAIN cache : cache[i].age <= ttl})
    /\ UNCHANGED <<breaker, evals, opaSaid>>

----------------------------------------------------------------------------
(* handle and evaluatePolicy.                                              *)

Verdict(allow) == IF allow THEN "allowed" ELSE "denied"

(* 404, 405, 413 or 400: the caller takes it for a denial. *)
RejectRequest(c) ==
    /\ evals[c].pc = "idle"
    /\ evals' = [evals EXCEPT ![c].pc = "denied"]
    /\ UNCHANGED <<breaker, cache, opaSaid>>

(* The breaker is open: denied without asking. *)
Shed(c, q) ==
    /\ evals[c].pc = "idle"
    /\ ~CanExecute
    /\ evals' = [evals EXCEPT ![c] = [pc |-> "denied", req |-> q]]
    /\ UNCHANGED <<breaker, cache, opaSaid>>

(* The cache has a fresh decision. *)
FromCache(c, q) ==
    /\ evals[c].pc = "idle"
    /\ CanExecute
    /\ breaker' = Probing
    /\ \E e \in Hits(CacheKey(q)) :
          evals' = [evals EXCEPT ![c] = [pc |-> Verdict(e.allow), req |-> q]]
    /\ UNCHANGED <<cache, opaSaid>>

(* It has none, an expired entry being deleted: postJSON to OPA. *)
AskOpa(c, q) ==
    /\ evals[c].pc = "idle"
    /\ CanExecute
    /\ breaker' = Probing
    /\ Hits(CacheKey(q)) = {}
    /\ cache' = Without(CacheKey(q), cache)
    /\ evals' = [evals EXCEPT ![c] = [pc |-> "asking", req |-> q]]
    /\ UNCHANGED opaSaid

(* OPA answers 2xx: anything but allow = true is a denial. *)
OpaAnswers(c) ==
    /\ evals[c].pc = "asking"
    /\ RecordSuccess
    /\ \E allow \in BOOLEAN :
          /\ cache' = CacheSet(CacheKey(evals[c].req), allow)
          /\ evals' = [evals EXCEPT ![c].pc = Verdict(allow)]
          /\ opaSaid' = [opaSaid EXCEPT ![CacheKey(evals[c].req)] = IF allow THEN 0 ELSE Never]

(* Timeout, connection error, bad JSON or status: fail closed. *)
OpaFails(c) ==
    /\ evals[c].pc = "asking"
    /\ RecordFailure
    /\ evals' = [evals EXCEPT ![c].pc = "denied"]
    /\ UNCHANGED <<cache, opaSaid>>

AgePolicy ==
    /\ breaker' = [breaker EXCEPT !.since = Lower(@ + 1, recoveryTime)]
    /\ cache' = [i \in DOMAIN cache |-> [cache[i] EXCEPT !.age = Lower(@ + 1, Never)]]
    /\ opaSaid' = [k \in Inputs |-> Lower(opaSaid[k] + 1, Never)]
    /\ UNCHANGED evals

Evaluate(c, q) == Shed(c, q) \/ FromCache(c, q) \/ AskOpa(c, q)

OpaStep(c) == OpaAnswers(c) \/ OpaFails(c)

(***************************************************************************)
(* Properties.                                                             *)
(***************************************************************************)
(* The type invariant; the cache keeps its bound and one entry per key,    *)
(* also when several calls that missed the same key store their answers.   *)
PolicyTypeOK ==
    /\ breaker \in [state : {"CLOSED", "OPEN", "HALF_OPEN"},
                    failures : 0 .. failureThreshold, since : 0 .. recoveryTime]
    /\ cache \in Seq([key : Inputs, allow : BOOLEAN, age : 0 .. Never])
    /\ Len(cache) <= maxSize
    /\ \A i, j \in DOMAIN cache : cache[i].key = cache[j].key => i = j
    /\ evals \in [Callers -> [pc : {"idle", "asking", "allowed", "denied"}, req : Requests]]
    /\ opaSaid \in [Inputs -> 0 .. Never]

(* Fail closed: evaluatePolicy answers "allow" only if OPA's last word on  *)
(* this input, whichever policy path it was asked for, was an allowance at *)
(* most a time to live ago: never for an error, an open breaker, an        *)
(* expired entry or one that a later denial has replaced.  Where an input  *)
(* is sent to one path only, the allowance is of that path.                *)
AllowIsRecent ==
    [][\A c \in Callers :
          (evals'[c].pc = "allowed" /\ evals[c].pc # "allowed")
             => opaSaid'[CacheKey(evals'[c].req)] <= ttl]_policyVars
=============================================================================
