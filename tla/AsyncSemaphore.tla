--------------------------- MODULE AsyncSemaphore ---------------------------
(***************************************************************************)
(* AsyncSemaphore (packages/shared/src/grpc/async-semaphore.ts), the       *)
(* counting semaphore that bounds the simultaneous upstream calls of the   *)
(* LLM router.  A caller is a Generate or GenerateStream request: it       *)
(* awaits acquire(timeoutMs), calls a provider if the promise resolved to  *)
(* true, and releases in its finally block exactly when it had acquired.   *)
(*                                                                         *)
(* resolve() only schedules the continuation of the awaiting caller, so a  *)
(* granted (or refused) caller is distinguished from one that has resumed. *)
(***************************************************************************)
EXTENDS Integers, Sequences, FiniteSets

CONSTANTS
    Proc,       \* the callers
    Patient,    \* the callers that pass no timeout (or one that is not positive)
    max         \* the constructor's argument

ASSUME ProcAssumption == IsFiniteSet(Proc)
ASSUME PatientAssumption == Patient \subseteq Proc
(* The constructor throws for anything smaller. *)
ASSUME MaxAssumption == max \in Nat \ {0}

VARIABLES
    current,    \* the private counter
    waiters,    \* the queue of callers whose promise is not resolved
    pc          \* where each caller is

vars == <<current, waiters, pc>>

(* A caller between two requests, queued, resumable with true, resumable   *)
(* with false, or inside its protected section.                            *)
States == {"idle", "waiting", "granted", "refused", "running"}

(* The callers a slot is charged to. *)
Holders == {p \in Proc : pc[p] \in {"granted", "running"}}

(* waiters.splice(i - 1, 1) *)
Splice(s, i) == [j \in 1 .. Len(s) - 1 |-> IF j < i THEN s[j] ELSE s[j + 1]]

(***************************************************************************)
(* The operations.                                                         *)
(***************************************************************************)
Init ==
    /\ current = 0
    /\ waiters = <<>>
    /\ pc = [p \in Proc |-> "idle"]

(* Mutation: acquire() compares with <= instead of <. *)
AcquireFree_OffByOne(p) ==
    /\ pc[p] = "idle"
    /\ current <= max
    /\ current' = current + 1
    /\ pc' = [pc EXCEPT ![p] = "granted"]
    /\ UNCHANGED waiters

(* acquire() on a free slot: count it and return true. *)
AcquireFree(p) ==
    /\ pc[p] = "idle"
    /\ current < max
    /\ current' = current + 1
    /\ pc' = [pc EXCEPT ![p] = "granted"]
    /\ UNCHANGED waiters

(* acquire() with every slot taken: queue behind the earlier callers. *)
AcquireBusy(p) ==
    /\ pc[p] = "idle"
    /\ ~(current < max)
    /\ waiters' = Append(waiters, p)
    /\ pc' = [pc EXCEPT ![p] = "waiting"]
    /\ UNCHANGED current

(* The timer of a queued caller: leave the queue and resolve(false).  The  *)
(* timer of a caller that is no longer queued does nothing.                *)
TimerFires(p) ==
    /\ p \notin Patient
    /\ \E i \in 1 .. Len(waiters) :
           /\ waiters[i] = p
           /\ waiters' = Splice(waiters, i)
    /\ pc' = [pc EXCEPT ![p] = "refused"]
    /\ UNCHANGED current

(* Mutation: waiters.pop() instead of waiters.shift(). *)
ReleaseToWaiter_Pop(p) ==
    /\ pc[p] = "running"
    /\ waiters # <<>>
    /\ waiters' = SubSeq(waiters, 1, Len(waiters) - 1)
    /\ pc' = [pc EXCEPT ![p] = "idle", ![waiters[Len(waiters)]] = "granted"]
    /\ UNCHANGED current

(* release() with callers queued: the first one becomes the runner. *)
ReleaseToWaiter(p) ==
    /\ pc[p] = "running"
    /\ waiters # <<>>
    /\ waiters' = Tail(waiters)
    /\ pc' = [pc EXCEPT ![p] = "idle", ![Head(waiters)] = "granted"]
    /\ UNCHANGED current

(* release() with nobody queued: the slot becomes free. *)
ReleaseFree(p) ==
    /\ pc[p] = "running"
    /\ waiters = <<>>
    /\ current' = IF current > 0 THEN current - 1 ELSE current
    /\ pc' = [pc EXCEPT ![p] = "idle"]
    /\ UNCHANGED waiters

Release(p) == ReleaseToWaiter(p) \/ ReleaseFree(p)

(* The caller's continuation: acquired = true, or the early return.        *)
Resume(p) ==
    /\ \/ pc[p] = "granted" /\ pc' = [pc EXCEPT ![p] = "running"]
       \/ pc[p] = "refused" /\ pc' = [pc EXCEPT ![p] = "idle"]
    /\ UNCHANGED <<current, waiters>>

Next ==
    \E p \in Proc :
        AcquireFree(p) \/ AcquireBusy(p) \/ TimerFires(p) \/ Release(p) \/ Resume(p)

(* A continuation is always run, and a provider call ends: it is aborted   *)
(* by its own timer when it does not answer.  Timers need no fairness.     *)
Fairness == \A p \in Proc : WF_vars(Resume(p)) /\ WF_vars(Release(p))

Spec == Init /\ [][Next]_vars /\ Fairness

(***************************************************************************)
(* Properties.                                                             *)
(***************************************************************************)
(* The type invariant: the counter stays within the constructor's bound. *)
TypeOK ==
    /\ current \in 0 .. max
    /\ waiters \in Seq(Proc)
    /\ pc \in [Proc -> States]

(* The counter of acquire and release is the number of callers that own a  *)
(* slot, whatever order grants, time-outs and releases come in: no slot    *)
(* leaks and none is charged twice.                                        *)
SlotAccounting == current = Cardinality(Holders)

(* A queued caller is waiting for a promise that is still unresolved, and  *)
(* is queued once: release never resolves a promise its timer resolved.    *)
QueueConsistent ==
    /\ \A p \in Proc : pc[p] = "waiting" <=> \E i \in 1 .. Len(waiters) : waiters[i] = p
    /\ \A i, j \in 1 .. Len(waiters) : waiters[i] = waiters[j] => i = j

(* No caller waits while a slot is free: a time-out in the queue or a      *)
(* release racing it strands neither a slot nor a waiter.                  *)
NoIdleSlot == waiters # <<>> => current = max

(* A caller that arrives now is never served before one that is queued.    *)
NoBarging ==
    [][\A p \in Proc : pc[p] = "idle" /\ pc'[p] = "granted" => waiters = <<>>]_vars

(* The semaphore implements the abstract pool of slots. *)
Pool == INSTANCE SlotPool WITH Max <- max, holders <- Holders

ImplementsSlotPool == Pool!Spec

(* Every queued caller, the ones without a timeout too, stops waiting. *)
EveryWaiterLeaves == \A p \in Proc : pc[p] = "waiting" ~> pc[p] # "waiting"
=============================================================================
