---------------------------- MODULE WebhookWorker ----------------------------
(***************************************************************************)
(* The webhook delivery worker (api-server, webhook-worker.ts): a loop     *)
(* that polls the webhook_deliveries table, posts each delivery that is    *)
(* due to its subscriber and writes the outcome back to the row.           *)
(*                                                                         *)
(* Nothing locks a row: a loop works on copies it fetched.  A loop that is *)
(* inside an await when stopWebhookWorker runs goes on, and a second loop  *)
(* can be started beside it.  The process may end at any await, and a      *)
(* query may fail with or without having had its effect.                   *)
(***************************************************************************)
EXTENDS Integers, Sequences, FiniteSets

CONSTANTS
    NumDeliveries,  \* bound: deliveries, numbered by created_at
    Loops,          \* bound: poll loops alive at the same time
    BATCH_SIZE,
    maxAttempts,    \* max_attempts of the rows
    MaxFaults       \* bound: failing queries

ASSUME DeliveriesAssumption == NumDeliveries \in Nat
ASSUME LoopsAssumption == IsFiniteSet(Loops)
ASSUME BatchAssumption == BATCH_SIZE \in Nat \ {0}
ASSUME AttemptsAssumption == maxAttempts \in Nat \ {0}
ASSUME FaultsAssumption == MaxFaults \in Nat

VARIABLES
    row,        \* status and attempts of each delivery, and whether it is due
    running,    \* the module's flag
    timer,      \* the loop whose timeout the module's variable names
    loop,       \* where each loop is, and the copies it still has to process
    tries,      \* history: posts made of each delivery, counted up to maxAttempts
    accepted,   \* history: the deliveries a subscriber answered with 2xx
    overlap,    \* history: two loops were alive at the same time
    faults      \* the failed queries

vars == <<row, running, timer, loop, tries, accepted, overlap, faults>>

Deliveries == 1 .. NumDeliveries
NoLoop == "none"
Off == [pc |-> "off", batch |-> <<>>]
(* The awaits: the poll's query, the channel's query, fetch(), the UPDATE  *)
(* of a success, that of a failure in the try block and in its catch.      *)
Awaits == {"poll", "channel", "post", "delivered", "refused", "caught"}
Alive == {l \in Loops : loop[l].pc # "off"}

Init ==
    /\ row = [d \in Deliveries |-> [status |-> "absent", attempts |-> 0, due |-> TRUE]]
    /\ running = FALSE
    /\ timer = NoLoop
    /\ loop = [l \in Loops |-> Off]
    /\ tries = [d \in Deliveries |-> 0]
    /\ accepted = {}
    /\ overlap = FALSE
    /\ faults = 0

(***************************************************************************)
(* The loop.                                                               *)
(***************************************************************************)
IsDue(d) == row[d].status \in {"pending", "retrying"} /\ row[d].due

(* ORDER BY created_at LIMIT BATCH_SIZE: in b are deliveries that are due,  *)
(* oldest first, and one that is left out is younger than a full batch.    *)
InOrder(b) ==
    /\ \A i, j \in DOMAIN b : i < j => b[i] < b[j]
    /\ \A d \in Deliveries : IsDue(d) =>
           \/ \E i \in DOMAIN b : b[i] = d
           \/ Len(b) = BATCH_SIZE /\ \A i \in DOMAIN b : b[i] < d

(* What the query may return, as copies of the rows: one sequence. *)
fetchPendingDeliveries ==
    LET due == {d \in Deliveries : IsDue(d)}
        found == {b \in UNION {[1 .. n -> due] : n \in 0 .. BATCH_SIZE} : InOrder(b)}
    IN  {[i \in DOMAIN b |-> [id |-> b[i], attempts |-> row[b[i]].attempts]] : b \in found}

(* The end of pollCycle: the next one is scheduled unless stopped. *)
EndCycle(l) ==
    /\ loop' = [loop EXCEPT ![l] = IF running THEN [Off EXCEPT !.pc = "sleeping"] ELSE Off]
    /\ timer' = IF running THEN l ELSE timer

(* The head of the for loop, with the copies that are left. *)
NextDelivery(l, batch) ==
    IF batch = <<>> \/ ~running
    THEN EndCycle(l)
    ELSE /\ loop' = [loop EXCEPT ![l] = [pc |-> "channel", batch |-> batch]]
         /\ UNCHANGED timer

Goto(l, pc) == loop' = [loop EXCEPT ![l].pc = pc] /\ UNCHANGED timer

Fault == faults < MaxFaults /\ faults' = faults + 1

Current(l) == Head(loop[l].batch)

(* Mutation: a poll whose query failed schedules no other. *)
Poll_FailureEnds(l) ==
    /\ loop[l].pc = "poll"
    /\ \/ /\ \E batch \in fetchPendingDeliveries : NextDelivery(l, batch)
          /\ UNCHANGED faults
       \/ Fault /\ loop' = [loop EXCEPT ![l] = Off] /\ UNCHANGED timer
    /\ UNCHANGED <<row, running, tries, accepted, overlap>>

(* pollCycle's query: a failure ends the cycle. *)
Poll(l) ==
    /\ loop[l].pc = "poll"
    /\ \/ /\ \E batch \in fetchPendingDeliveries : NextDelivery(l, batch)
          /\ UNCHANGED faults
       \/ Fault /\ EndCycle(l)
    /\ UNCHANGED <<row, running, tries, accepted, overlap>>

(* The query for the channel's secret: its failure leaves the for loop, so *)
(* the rest of the batch waits for the next cycle.                         *)
Channel(l) ==
    /\ loop[l].pc = "channel"
    /\ \/ Goto(l, "post") /\ UNCHANGED faults
       \/ Fault /\ EndCycle(l)
    /\ UNCHANGED <<row, running, tries, accepted, overlap>>

(* fetch(): a 2xx answer, another answer, or none within the timeout. *)
Post(l) ==
    /\ loop[l].pc = "post"
    /\ LET d == Current(l).id IN
           /\ tries' = [tries EXCEPT ![d] = IF @ < maxAttempts THEN @ + 1 ELSE @]
           /\ \/ Goto(l, "delivered") /\ accepted' = accepted \cup {d}
              \/ Goto(l, "refused") /\ UNCHANGED accepted
              \/ Goto(l, "caught") /\ UNCHANGED accepted
    /\ UNCHANGED <<row, running, overlap, faults>>

(* The UPDATE of the current row to r, after which the loop goes on with   *)
(* the next delivery; it may reject, whether or not it was executed.       *)
Update(l, r) ==
    /\ row' = [row EXCEPT ![Current(l).id] = r]
    /\ NextDelivery(l, Tail(loop[l].batch))
    /\ UNCHANGED faults

UpdateRejects(l, r) ==
    /\ Fault
    /\ row' = [row EXCEPT ![Current(l).id] = r] \/ UNCHANGED row

(* A 2xx answer.  The UPDATE is inside the try block: when it rejects the  *)
(* delivery is treated as a failed one.                                    *)
Delivered(l) ==
    /\ loop[l].pc = "delivered"
    /\ LET r == [row[Current(l).id] EXCEPT !.status = "delivered"] IN
           \/ Update(l, r)
           \/ UpdateRejects(l, r) /\ Goto(l, "caught")
    /\ UNCHANGED <<running, tries, accepted, overlap>>

(* Mutation: one attempt less. *)
handleFailure_OffByOne(copy) ==
    LET nextAttempt == copy.attempts + 1 IN
    IF nextAttempt >= maxAttempts - 1
    THEN [status |-> "failed", attempts |-> nextAttempt, due |-> TRUE]
    ELSE [status |-> "retrying", attempts |-> nextAttempt, due |-> FALSE]

(* The row handleFailure writes, counting from the loop's copy: the        *)
(* dead-letter state, or a retry after a delay.                            *)
handleFailure(copy) ==
    LET nextAttempt == copy.attempts + 1 IN
    IF nextAttempt >= maxAttempts
    THEN [status |-> "failed", attempts |-> nextAttempt, due |-> TRUE]
    ELSE [status |-> "retrying", attempts |-> nextAttempt, due |-> FALSE]

(* An answer other than 2xx; when the UPDATE rejects, the catch block      *)
(* calls handleFailure once more.                                          *)
Refused(l) ==
    /\ loop[l].pc = "refused"
    /\ \/ Update(l, handleFailure(Current(l)))
       \/ UpdateRejects(l, handleFailure(Current(l))) /\ Goto(l, "caught")
    /\ UNCHANGED <<running, tries, accepted, overlap>>

(* The catch block; when its UPDATE rejects, the cycle ends. *)
Caught(l) ==
    /\ loop[l].pc = "caught"
    /\ \/ Update(l, handleFailure(Current(l)))
       \/ UpdateRejects(l, handleFailure(Current(l))) /\ EndCycle(l)
    /\ UNCHANGED <<running, tries, accepted, overlap>>

(* The loop's timeout: pollCycle returns at once when stopped. *)
Wake(l) ==
    /\ loop[l].pc = "sleeping"
    /\ loop' = [loop EXCEPT ![l].pc = IF running THEN "poll" ELSE "off"]
    /\ UNCHANGED <<row, running, timer, tries, accepted, overlap, faults>>

(***************************************************************************)
(* The table, the clock and the process.                                   *)
(***************************************************************************)
(* storeDelivery of a new delivery. *)
storeDelivery(d) ==
    /\ row[d].status = "absent"
    /\ row' = [row EXCEPT ![d].status = "pending"]
    /\ UNCHANGED <<running, timer, loop, tries, accepted, overlap, faults>>

(* next_retry_at passes. *)
RetryDue(d) ==
    /\ ~row[d].due
    /\ row' = [row EXCEPT ![d].due = TRUE]
    /\ UNCHANGED <<running, timer, loop, tries, accepted, overlap, faults>>

(* A second start while running only logs. *)
startWebhookWorker(l) ==
    /\ ~running
    /\ loop[l].pc = "off"
    /\ running' = TRUE
    /\ loop' = [loop EXCEPT ![l].pc = "poll"]
    /\ overlap' = (overlap \/ Alive # {})
    /\ UNCHANGED <<row, timer, tries, accepted, faults>>

(* The flag is cleared, and the one timeout the variable names, if it has  *)
(* not fired; a loop inside an await finds out by itself.                  *)
stopWebhookWorker ==
    /\ running
    /\ running' = FALSE
    /\ timer' = NoLoop
    /\ loop' = [l \in Loops |-> IF l = timer /\ loop[l].pc = "sleeping" THEN Off ELSE loop[l]]
    /\ UNCHANGED <<row, tries, accepted, overlap, faults>>

(* SIGTERM, SIGINT or a crash: the process ends in the middle of it all. *)
ProcessEnds ==
    /\ Alive # {}
    /\ running' = FALSE
    /\ timer' = NoLoop
    /\ loop' = [l \in Loops |-> Off]
    /\ UNCHANGED <<row, tries, accepted, overlap, faults>>

LoopStep(l) ==
    Poll(l) \/ Channel(l) \/ Post(l) \/ Delivered(l) \/ Refused(l) \/ Caught(l) \/ Wake(l)

Next ==
    \/ \E l \in Loops : LoopStep(l) \/ startWebhookWorker(l)
    \/ \E d \in Deliveries : storeDelivery(d) \/ RetryDue(d)
    \/ stopWebhookWorker
    \/ ProcessEnds

(* Queries answer or fail, fetch() is aborted by its timeout, timeouts     *)
(* fire and time passes.  Nobody has to store, start or stop anything.     *)
Fairness ==
    /\ \A l \in Loops : WF_vars(LoopStep(l))
    /\ \A d \in Deliveries : WF_vars(RetryDue(d))

Spec == Init /\ [][Next]_vars /\ Fairness

(***************************************************************************)
(* Properties.                                                             *)
(***************************************************************************)
Copies == [id : Deliveries, attempts : 0 .. maxAttempts - 1]

(* The type invariant: attempts stay within max_attempts, although they    *)
(* are counted from copies; a loop between polls holds no copies.          *)
TypeOK ==
    /\ row \in [Deliveries ->
                   [status : {"absent", "pending", "retrying", "delivered", "failed"},
                    attempts : 0 .. maxAttempts,
                    due : BOOLEAN]]
    /\ running \in BOOLEAN
    /\ timer \in Loops \cup {NoLoop}
    /\ loop \in [Loops -> [pc : {"off", "sleeping"} \cup Awaits, batch : Seq(Copies)]]
    /\ \A l \in Loops : loop[l].batch = <<>> <=> loop[l].pc \in {"off", "sleeping", "poll"}
    /\ tries \in [Deliveries -> 0 .. maxAttempts]
    /\ accepted \subseteq Deliveries
    /\ overlap \in BOOLEAN
    /\ faults \in 0 .. MaxFaults

Settled(d) == row[d].status \in {"delivered", "failed"}

(* A delivery marked as delivered was accepted by its subscriber; without  *)
(* failing queries and overlapping loops no loop will post it again, even  *)
(* when the process ended and another one took over in between.            *)
DeliveredOnce ==
    \A d \in Deliveries : row[d].status = "delivered" =>
        /\ d \in accepted
        /\ ~overlap /\ faults = 0 =>
               \A l \in Loops : \A i \in 1 .. Len(loop[l].batch) : loop[l].batch[i].id # d

(* A delivery goes to the dead-letter state only after max_attempts posts, *)
(* however loops overlap on it, queries fail or processes end: no attempt  *)
(* that was not made is counted.                                           *)
NotGivenUpEarly ==
    \A d \in Deliveries : row[d].status = "failed" => tries[d] = maxAttempts

(* If the worker is kept running, every stored delivery is delivered or    *)
(* given up in the end, and stays so: a failed query delays a batch only,  *)
(* and the late writes of an overlapping loop come to an end.              *)
EveryDeliverySettles ==
    <>[]running => \A d \in Deliveries : row[d].status = "pending" ~> []Settled(d)
==============================================================================
