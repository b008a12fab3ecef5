-------------------------- MODULE MemoryWriteQueue --------------------------
(***************************************************************************)
(* MemoryWriteQueue (memory-plane, write-queue.ts): the in-memory queue    *)
(* between the memory plane's Write handler and PostgreSQL, with the       *)
(* service's shutdown (index.ts), which disposes of it.  MemoryPlane       *)
(* composes it with the handlers and the two stores.                       *)
(*                                                                         *)
(* The one flush loop awaits repo.set for the head of the queue.  While it *)
(* awaits, enqueue runs: it appends, and it takes the head away when the   *)
(* queue is full.  After the await the loop shifts whatever is the head by *)
(* then.                                                                   *)
(***************************************************************************)
EXTENDS Integers, Sequences

CONSTANTS
    NumWrites,      \* bound: the writes clients make, numbered as accepted
    maxQueueSize,
    maxAttempts

ASSUME WritesAssumption == NumWrites \in Nat
ASSUME SizeAssumption == maxQueueSize \in Nat \ {0}
ASSUME MaxAttemptsAssumption == maxAttempts \in Nat \ {0}

VARIABLES
    queue,          \* the pending operations, oldest first
    attempts,       \* op.attempts
    flusher,        \* "off" (flushPromise is null), "setting" or "backoff"
    op,             \* the operation the flush loop holds
    process,        \* "up", "stopping" (SIGTERM), "disposed", "exited", "killed"
    accepted,       \* history: how many writes were enqueued
    db,             \* history: the repo.set calls PostgreSQL executed, in order
    dropped,        \* history: the writes reported as dropped
    failed          \* history: the writes reported as permanently failed

history == <<accepted, dropped, failed>>
vars == <<queue, attempts, flusher, op, process, history, db>>

Writes == 1 .. NumWrites
NoOp == 0
Alive == {"up", "stopping", "disposed"}

Elements(s) == {s[i] : i \in 1 .. Len(s)}

(* queue.shift() *)
Shift(q) == IF q = <<>> THEN q ELSE Tail(q)

(* The head of the flush loop on queue q: call repo.set for queue[0], or   *)
(* leave the loop with flushPromise = null.                                *)
FlushNext(q) ==
    /\ flusher' = IF q = <<>> THEN "off" ELSE "setting"
    /\ op' = IF q = <<>> THEN NoOp ELSE Head(q)

InitQueue ==
    /\ queue = <<>>
    /\ attempts = [w \in Writes |-> 0]
    /\ flusher = "off"
    /\ op = NoOp
    /\ process = "up"
    /\ accepted = 0
    /\ db = <<>>
    /\ dropped = {}
    /\ failed = {}

(* flushPromise ??= flush() *)
StartFlush(q) == IF flusher = "off" THEN FlushNext(q) ELSE UNCHANGED <<flusher, op>>

(* A full queue loses its oldest entry, with a log line; then push. *)
Admit(w) ==
    IF Len(queue) >= maxQueueSize
    THEN /\ queue' = Append(Shift(queue), w)
         /\ dropped' = dropped \cup {Head(queue)}
    ELSE /\ queue' = Append(queue, w)
         /\ UNCHANGED dropped

Enqueue ==
    /\ process \in {"up", "stopping"}
    /\ accepted < NumWrites
    /\ accepted' = accepted + 1
    /\ Admit(accepted')
    /\ StartFlush(queue')
    /\ UNCHANGED <<attempts, process, db, failed>>

(* repo.set resolves: PostgreSQL has executed the upsert. *)
SetDone ==
    /\ flusher = "setting"
    /\ process \in Alive
    /\ db' = Append(db, op)
    /\ queue' = Shift(queue)
    /\ FlushNext(queue')
    /\ UNCHANGED <<attempts, process, history>>

(* Mutation: a failed write goes to the back of the queue. *)
Retry_AtBack(n) ==
    /\ queue' = Append(Shift(queue), op)
    /\ flusher' = "backoff"
    /\ UNCHANGED <<op, failed>>

(* Mutation: the write that failed is given up without a log line. *)
GiveUp_Silent ==
    /\ queue' = Shift(queue)
    /\ UNCHANGED failed
    /\ FlushNext(queue')

(* The last attempt failed: shift, log, go on. *)
GiveUp ==
    /\ queue' = Shift(queue)
    /\ failed' = failed \cup {op}
    /\ FlushNext(queue')

(* An attempt is left after the n-th failure: back off before the next. *)
Retry(n) ==
    /\ flusher' = "backoff"
    /\ UNCHANGED <<queue, op, failed>>

(* repo.set rejects; the upsert may have been executed all the same. *)
SetFails ==
    /\ flusher = "setting"
    /\ process \in Alive
    /\ db' = Append(db, op) \/ UNCHANGED db
    /\ attempts' = [attempts EXCEPT ![op] = @ + 1]
    /\ IF attempts'[op] >= maxAttempts THEN GiveUp ELSE Retry(attempts'[op])
    /\ UNCHANGED <<process, accepted, dropped>>

(* The back-off is over: look at the head of the queue again. *)
BackoffOver ==
    /\ flusher = "backoff"
    /\ process \in Alive
    /\ FlushNext(queue)
    /\ UNCHANGED <<queue, attempts, process, history, db>>

(* SIGTERM: no new calls; the forced-exit timer starts. *)
Shutdown ==
    /\ process = "up"
    /\ process' = "stopping"
    /\ UNCHANGED <<queue, attempts, flusher, op, history, db>>

(* The last call has ended: dispose(). *)
Dispose ==
    /\ process = "stopping"
    /\ process' = "disposed"
    /\ UNCHANGED <<queue, attempts, flusher, op, history, db>>

(* dispose() resolves when the flush loop has ended. *)
CleanExit ==
    /\ process = "disposed"
    /\ flusher = "off"
    /\ process' = "exited"
    /\ UNCHANGED <<queue, attempts, flusher, op, history, db>>

(* The five seconds are over first: process.exit(1) with writes pending. *)
ForcedExit ==
    /\ process \in {"stopping", "disposed"}
    /\ process' = "killed"
    /\ UNCHANGED <<queue, attempts, flusher, op, history, db>>

Flush == SetDone \/ SetFails \/ BackoffOver

(***************************************************************************)
(* Properties.                                                             *)
(***************************************************************************)
(* The type invariant; the queue never grows beyond its bound. *)
TypeOK ==
    /\ queue \in Seq(Writes)
    /\ Len(queue) <= maxQueueSize
    /\ attempts \in [Writes -> 0 .. maxAttempts]
    /\ flusher \in {"off", "setting", "backoff"}
    /\ op \in Writes \cup {NoOp}
    /\ process \in Alive \cup {"exited", "killed"}
    /\ accepted \in 0 .. NumWrites
    /\ db \in Seq(Writes)
    /\ dropped \subseteq Writes
    /\ failed \subseteq Writes

(* PostgreSQL executes the writes in the order they were accepted, retries *)
(* and overflows included: an older value never replaces a newer one.      *)
AppliedInOrder == \A i, j \in 1 .. Len(db) : i < j => db[i] <= db[j]

(* The writes an orderly process still has to execute; none once it ended. *)
Pending == IF process = "exited" THEN {} ELSE Elements(queue)

(* A write that is neither pending nor executed nor reported. *)
SilentlyLost == (1 .. accepted) \ (Pending \cup Elements(db) \cup dropped \cup failed)

(* As long as the queue has not overflowed, every accepted write is        *)
(* pending, executed or reported, through retries and an orderly shutdown. *)
NoSilentLossBelowBound == dropped = {} => SilentlyLost = {}

(* PostgreSQL sees what was accepted: in its order, and all of it.         *)
QueueFaithful == AppliedInOrder /\ NoSilentLossBelowBound

=============================================================================
