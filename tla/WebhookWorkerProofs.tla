------------------------ MODULE WebhookWorkerProofs ------------------------
(***************************************************************************)
(* Proofs about WebhookWorker, for any number of deliveries and loops and  *)
(* any limits.  The argument is per loop: what its copies say is true of   *)
(* the posts made (Good), whatever other loops do to the rows.             *)
(***************************************************************************)
EXTENDS WebhookWorker, SequenceTheorems, TLAPS

Waiting == {"pending", "retrying"}
Statuses == {"absent", "pending", "retrying", "delivered", "failed"}
Places == {"off", "sleeping"} \cup Awaits
Empty == {"off", "sleeping", "poll"}
RowType == [status : Statuses, attempts : 0 .. maxAttempts, due : BOOLEAN]
LoopType == [pc : Places, batch : Seq(Copies)]

(* A loop's state r is consistent with the posts t made and the deliveries *)
(* a accepted: no copy counts more attempts than there were, the current   *)
(* one counts fewer once its post was made, and each delivery is in the    *)
(* batch once.                                                             *)
Good(r, t, a) ==
    /\ r \in LoopType
    /\ r.batch = <<>> <=> r.pc \in Empty
    /\ \A i \in 1 .. Len(r.batch) : r.batch[i].attempts <= t[r.batch[i].id]
    /\ \A i, j \in 1 .. Len(r.batch) : r.batch[i].id = r.batch[j].id => i = j
    /\ r.pc \in {"delivered", "refused", "caught"} =>
           r.batch[1].attempts < t[r.batch[1].id]
    /\ r.pc = "delivered" => r.batch[1].id \in a

(* A row, with the posts n made of its delivery and whether it was accepted. *)
RowGood(r, n, ok) ==
    /\ r \in RowType
    /\ r.attempts <= n
    /\ r.status \in Waiting \cup {"absent"} => r.attempts < maxAttempts
    /\ r.status = "failed" => n = maxAttempts
    /\ r.status = "delivered" => ok

Basics ==
    /\ running \in BOOLEAN
    /\ timer \in Loops \cup {NoLoop}
    /\ tries \in [Deliveries -> 0 .. maxAttempts]
    /\ accepted \subseteq Deliveries
    /\ overlap \in BOOLEAN
    /\ faults \in 0 .. MaxFaults

RowsGood ==
    /\ row \in [Deliveries -> RowType]
    /\ \A d \in Deliveries : RowGood(row[d], tries[d], d \in accepted)

LoopsGood ==
    /\ loop \in [Loops -> LoopType]
    /\ \A l \in Loops : Good(loop[l], tries, accepted)

(* One loop at a time, as long as none was started beside another. *)
Solo ==
    ~overlap => \A k, l \in Loops : loop[k].pc # "off" /\ loop[l].pc # "off" => k = l

(* Without overlaps and failing queries a copy's row is still waiting. *)
Fresh ==
    ~overlap /\ faults = 0 =>
        \A l \in Loops : \A i \in 1 .. Len(loop[l].batch) :
            row[loop[l].batch[i].id].status \in Waiting

IInv == Basics /\ RowsGood /\ LoopsGood /\ Solo /\ Fresh

Growing ==
    /\ tries' \in [Deliveries -> 0 .. maxAttempts]
    /\ \A d \in Deliveries : tries[d] <= tries'[d]
    /\ accepted \subseteq accepted'

(***************************************************************************)
(* Sequences.                                                              *)
(***************************************************************************)
(* The copies left after the current one, as pollCycle's for loop sees them. *)
LEMMA TailFacts ==
  ASSUME NEW b \in Seq(Copies), b # <<>>
  PROVE  /\ Len(b) \in Nat \ {0}
         /\ Head(b) = b[1]
         /\ b[1] \in Copies
         /\ Tail(b) \in Seq(Copies)
         /\ Len(Tail(b)) = Len(b) - 1
         /\ \A i \in 1 .. Len(Tail(b)) : i + 1 \in 1 .. Len(b) /\ Tail(b)[i] = b[i + 1]
<1>1. Len(b) \in Nat /\ Len(b) # 0
  BY EmptySeq, LenProperties
<1>2. Tail(b) \in Seq(Copies) /\ Len(Tail(b)) = Len(b) - 1
  BY HeadTailProperties
<1>3. \A i \in 1 .. Len(Tail(b)) : Tail(b)[i] = b[i + 1]
  BY HeadTailProperties
<1>4. Head(b) = b[1] /\ b[1] \in Copies
  BY <1>1, ElementOfSeq
<1> QED
  BY <1>1, <1>2, <1>3, <1>4

(* The empty sequence is a batch, with no places. *)
LEMMA EmptyFacts ==
  <<>> \in Seq(Copies) /\ Len(<<>>) = 0
BY EmptySeq

(***************************************************************************)
(* The loop's states.                                                      *)
(***************************************************************************)
(* A loop with no copies is consistent with everything. *)
LEMMA GoodEmpty ==
  ASSUME NEW t, NEW a, NEW pc \in Empty
  PROVE  Good([pc |-> pc, batch |-> <<>>], t, a)
<1> DEFINE q == [pc |-> pc, batch |-> <<>>]
<1>1. q \in LoopType
  BY EmptyFacts DEF LoopType, Places, Empty, Awaits
<1>2. q.batch = <<>> /\ q.pc = pc
  OBVIOUS
<1>3. 1 .. Len(q.batch) = {}
  BY <1>2, EmptyFacts
<1> HIDE DEF q
<1>4. Good(q, t, a)
  BY <1>1, <1>2, <1>3 DEF Good, Empty
<1> QED
  BY <1>4 DEF q

(* Posts and acceptances of other loops do not disturb a loop. *)
LEMMA GoodGrows ==
  ASSUME NEW r, NEW t \in [Deliveries -> 0 .. maxAttempts], NEW a,
         NEW t2 \in [Deliveries -> 0 .. maxAttempts], NEW a2,
         Good(r, t, a), \A d \in Deliveries : t[d] <= t2[d], a \subseteq a2
  PROVE  Good(r, t2, a2)
<1>1. r.batch \in Seq(Copies) /\ Len(r.batch) \in Nat
  BY LenProperties DEF Good, LoopType
<1>2. \A i \in 1 .. Len(r.batch) : r.batch[i] \in Copies
  BY <1>1, ElementOfSeq
<1>3. \A i \in 1 .. Len(r.batch) :
        /\ t[r.batch[i].id] \in 0 .. maxAttempts
        /\ t2[r.batch[i].id] \in 0 .. maxAttempts
        /\ t[r.batch[i].id] <= t2[r.batch[i].id]
        /\ r.batch[i].attempts \in Int
  BY <1>2, AttemptsAssumption DEF Copies
<1>4. \A i \in 1 .. Len(r.batch) : r.batch[i].attempts <= t2[r.batch[i].id]
  BY <1>3, AttemptsAssumption DEF Good
<1>5. ASSUME r.pc \in {"delivered", "refused", "caught"}
      PROVE  r.batch[1].attempts < t2[r.batch[1].id]
  <2>1. r.batch # <<>>
    BY <1>5 DEF Good, Empty
  <2>2. 1 \in 1 .. Len(r.batch)
    BY <2>1, <1>1, TailFacts
  <2> QED
    BY <1>3, <1>5, <2>2, AttemptsAssumption DEF Good
<1> QED
  BY <1>4, <1>5 DEF Good

(* What a loop holds when it goes on with the copies that are left. *)
LEMMA GoodTail ==
  ASSUME NEW r, NEW t, NEW a, Good(r, t, a), r.batch # <<>>, Tail(r.batch) # <<>>
  PROVE  Good([pc |-> "channel", batch |-> Tail(r.batch)], t, a)
<1> DEFINE b == r.batch
           q == [pc |-> "channel", batch |-> Tail(b)]
<1>1. b \in Seq(Copies)
  BY DEF Good, LoopType
<1>2. /\ Len(b) \in Nat
      /\ Tail(b) \in Seq(Copies)
      /\ Len(Tail(b)) = Len(b) - 1
      /\ \A i \in 1 .. Len(Tail(b)) : i + 1 \in 1 .. Len(b) /\ Tail(b)[i] = b[i + 1]
  BY <1>1, TailFacts
<1>3. q \in LoopType /\ q.pc = "channel" /\ q.batch = Tail(b)
  BY <1>2 DEF LoopType, Places, Awaits
<1>4. \A i \in 1 .. Len(Tail(b)) : Tail(b)[i].attempts <= t[Tail(b)[i].id]
  BY <1>2 DEF Good
<1>5. \A i, j \in 1 .. Len(Tail(b)) : Tail(b)[i].id = Tail(b)[j].id => i = j
  <2> SUFFICES ASSUME NEW i \in 1 .. Len(Tail(b)), NEW j \in 1 .. Len(Tail(b)),
                      Tail(b)[i].id = Tail(b)[j].id
               PROVE  i = j
    OBVIOUS
  <2>0. \A m, n \in 1 .. Len(b) : b[m].id = b[n].id => m = n
    BY DEF Good
  <2>1. i + 1 = j + 1
    BY <1>2, <2>0
  <2> QED
    BY <2>1, <1>2
<1> QED
  BY <1>3, <1>4, <1>5 DEF Good, Empty

(* A loop that moves on with the same copies, before the post. *)
LEMMA GoodGoto ==
  ASSUME NEW r, NEW t, NEW a, Good(r, t, a), r.batch # <<>>,
         NEW pc \in {"channel", "post"}
  PROVE  Good([r EXCEPT !.pc = pc], t, a)
<1> DEFINE q == [r EXCEPT !.pc = pc]
<1>1. q \in LoopType /\ q.pc = pc /\ q.batch = r.batch
  BY DEF Good, LoopType, Places, Awaits
<1> HIDE DEF q
<1>2. Good(q, t, a)
  BY <1>1 DEF Good, Empty
<1> QED
  BY <1>2 DEF q

(* After the post: the current copy counts fewer attempts than were made,  *)
(* and a loop about to record a success has been answered with one.        *)
LEMMA GoodPosted ==
  ASSUME NEW r, NEW t, NEW a, Good(r, t, a), r.batch # <<>>,
         r.batch[1].attempts < t[r.batch[1].id],
         NEW pc \in {"delivered", "refused", "caught"},
         pc = "delivered" => r.batch[1].id \in a
  PROVE  Good([r EXCEPT !.pc = pc], t, a)
<1> DEFINE q == [r EXCEPT !.pc = pc]
<1>1. q \in LoopType /\ q.pc = pc /\ q.batch = r.batch
  BY DEF Good, LoopType, Places, Awaits
<1> HIDE DEF q
<1>2. Good(q, t, a)
  BY <1>1 DEF Good, Empty
<1> QED
  BY <1>2 DEF q

(***************************************************************************)
(* A step of one loop.                                                     *)
(***************************************************************************)
(* A step that puts loop l into a good state r leaves every loop good; the *)
(* other loops matter only when loops overlap.                             *)
LEMMA Moved ==
  ASSUME IInv, Growing, NEW l \in Loops, loop[l].pc # "off",
         NEW r, loop' = [loop EXCEPT ![l] = r],
         Good(r, tries', accepted'),
         overlap' = overlap, faults' = 0 => faults = 0,
         ~overlap /\ faults' = 0 =>
             \A i \in 1 .. Len(r.batch) : row'[r.batch[i].id].status \in Waiting
  PROVE  LoopsGood' /\ Solo' /\ Fresh'
<1>1. loop \in [Loops -> LoopType] /\ r \in LoopType
  BY DEF IInv, LoopsGood, Good
<1>2. /\ loop' \in [Loops -> LoopType]
      /\ loop'[l] = r
      /\ \A k \in Loops \ {l} : loop'[k] = loop[k]
  BY <1>1
<1>3. \A k \in Loops : Good(loop'[k], tries', accepted')
  <2>1. \A k \in Loops : Good(loop[k], tries', accepted')
    BY GoodGrows DEF IInv, LoopsGood, Basics, Growing
  <2> QED
    BY <1>2, <2>1
<1>4. Solo'
  BY <1>2 DEF IInv, Solo
<1>5. ASSUME ~overlap, faults' = 0, NEW k \in Loops,
             NEW i \in 1 .. Len(loop'[k].batch)
      PROVE  row'[loop'[k].batch[i].id].status \in Waiting
  <2>1. CASE k = l
    BY <1>2, <1>5, <2>1
  <2>2. CASE k # l
    <3>1. loop'[k] = loop[k] /\ loop[k].pc = "off"
      BY <1>2, <1>5, <2>2 DEF IInv, Solo
    <3>2. loop[k].batch = <<>>
      BY <3>1 DEF IInv, LoopsGood, Good, Empty
    <3> QED
      BY <1>5, <3>1, <3>2, EmptyFacts
  <2> QED
    BY <2>1, <2>2
<1>6. Fresh'
  BY <1>5 DEF Fresh
<1> QED
  BY <1>2, <1>3, <1>4, <1>6 DEF LoopsGood

(* The end of a cycle: the loop sleeps or is off, without copies. *)
LEMMA EndCycleMoved ==
  ASSUME IInv, Growing, NEW l \in Loops, loop[l].pc # "off", EndCycle(l),
         overlap' = overlap, faults' = 0 => faults = 0
  PROVE  LoopsGood' /\ Solo' /\ Fresh' /\ timer' \in Loops \cup {NoLoop}
<1> DEFINE r == IF running THEN [Off EXCEPT !.pc = "sleeping"] ELSE Off
<1>1. loop' = [loop EXCEPT ![l] = r]
  BY DEF EndCycle
<1>2. r = [pc |-> IF running THEN "sleeping" ELSE "off", batch |-> <<>>]
  BY DEF Off
<1>3. Good(r, tries', accepted')
  BY <1>2, GoodEmpty DEF Empty
<1>4. 1 .. Len(r.batch) = {}
  BY <1>2, EmptyFacts
<1>5. timer' \in Loops \cup {NoLoop}
  BY DEF EndCycle, IInv, Basics
<1> HIDE DEF r
<1> QED
  BY <1>1, <1>3, <1>4, <1>5, Moved

(* The head of the for loop, with copies b that would be good. *)
LEMMA NextDeliveryMoved ==
  ASSUME IInv, Growing, NEW l \in Loops, loop[l].pc # "off",
         NEW b, NextDelivery(l, b),
         b # <<>> => Good([pc |-> "channel", batch |-> b], tries', accepted'),
         overlap' = overlap, faults' = 0 => faults = 0,
         ~overlap /\ faults' = 0 =>
             \A i \in 1 .. Len(b) : row'[b[i].id].status \in Waiting
  PROVE  LoopsGood' /\ Solo' /\ Fresh' /\ timer' \in Loops \cup {NoLoop}
<1>1. CASE b = <<>> \/ ~running
  BY <1>1, EndCycleMoved DEF NextDelivery
<1>2. CASE ~(b = <<>> \/ ~running)
  <2> DEFINE r == [pc |-> "channel", batch |-> b]
  <2>1. loop' = [loop EXCEPT ![l] = r] /\ timer' = timer
    BY <1>2 DEF NextDelivery
  <2>2. r.batch = b /\ Good(r, tries', accepted')
    BY <1>2
  <2> HIDE DEF r
  <2> QED
    BY <2>1, <2>2, Moved DEF IInv, Basics
<1> QED
  BY <1>1, <1>2

(***************************************************************************)
(* The actions.                                                            *)
(***************************************************************************)
(* Steps that make no post leave the counts as they are. *)
LEMMA NothingGrows ==
  ASSUME IInv, tries' = tries, accepted' = accepted
  PROVE  Growing
BY AttemptsAssumption DEF IInv, Basics, Growing

(* The first query: copies of waiting rows. *)
LEMMA PollPreserves ==
  ASSUME IInv, NEW l \in Loops, Poll(l)
  PROVE  IInv'
<1>1. Growing
  BY NothingGrows DEF Poll
<1>2. loop[l].pc # "off" /\ overlap' = overlap /\ UNCHANGED <<row, running, tries, accepted>>
  BY DEF Poll
<1>3. RowsGood'
  BY <1>2 DEF IInv, RowsGood
<1>4. CASE Fault /\ EndCycle(l)
  <2>1. faults' \in 0 .. MaxFaults /\ faults' # 0
    BY <1>4, FaultsAssumption DEF Fault, IInv, Basics
  <2> QED
    BY <1>1, <1>2, <1>3, <1>4, <2>1, EndCycleMoved DEF IInv, Basics
<1>5. ASSUME faults' = faults, NEW batch \in fetchPendingDeliveries, NextDelivery(l, batch)
      PROVE  IInv'
  <2> DEFINE due == {d \in Deliveries : IsDue(d)}
  <2>0. PICK n \in 0 .. BATCH_SIZE : \E b \in [1 .. n -> due] :
          /\ InOrder(b)
          /\ batch = [i \in DOMAIN b |-> [id |-> b[i], attempts |-> row[b[i]].attempts]]
    BY <1>5 DEF fetchPendingDeliveries
  <2>1. PICK b \in [1 .. n -> due] :
          /\ InOrder(b)
          /\ batch = [i \in DOMAIN b |-> [id |-> b[i], attempts |-> row[b[i]].attempts]]
    BY <2>0
  <2>2. n \in Nat /\ DOMAIN b = 1 .. n
    BY BatchAssumption
  <2>3. \A i \in 1 .. n :
          /\ b[i] \in Deliveries
          /\ row[b[i]].status \in Waiting
          /\ batch[i] = [id |-> b[i], attempts |-> row[b[i]].attempts]
    BY <2>1, <2>2 DEF IsDue, Waiting
  <2> HIDE DEF due
  <2>4. \A i \in 1 .. n : batch[i] \in Copies /\ batch[i].attempts <= tries[batch[i].id]
    <3> SUFFICES ASSUME NEW i \in 1 .. n
                 PROVE  batch[i] \in Copies /\ batch[i].attempts <= tries[batch[i].id]
      OBVIOUS
    <3>1. RowGood(row[b[i]], tries[b[i]], b[i] \in accepted)
      BY <2>3 DEF IInv, RowsGood
    <3>2. row[b[i]].attempts \in 0 .. maxAttempts
      BY <3>1 DEF RowGood, RowType
    <3>3. row[b[i]].attempts < maxAttempts /\ row[b[i]].attempts <= tries[b[i]]
      BY <3>1, <2>3 DEF RowGood
    <3>4. row[b[i]].attempts \in 0 .. maxAttempts - 1
      BY <3>2, <3>3, AttemptsAssumption
    <3>5. b[i] \in Deliveries /\ batch[i] = [id |-> b[i], attempts |-> row[b[i]].attempts]
      BY <2>3
    <3>6. batch[i] \in Copies
      BY <3>4, <3>5 DEF Copies
    <3> QED
      BY <3>3, <3>5, <3>6
  <2>5. batch \in Seq(Copies) /\ Len(batch) = n
    BY <2>1, <2>2, <2>4, SeqDef
  <2>6. \A i, j \in 1 .. n : batch[i].id = batch[j].id => i = j
    <3> SUFFICES ASSUME NEW i \in 1 .. n, NEW j \in 1 .. n, i < j
                 PROVE  batch[i].id # batch[j].id
      BY <2>2
    <3>1. b[i] < b[j]
      BY <2>1, <2>2 DEF InOrder
    <3>2. b[i] \in Deliveries /\ b[j] \in Deliveries
      BY <2>3
    <3>3. b[i] # b[j]
      BY <3>1, <3>2, DeliveriesAssumption DEF Deliveries
    <3>4. /\ batch[i] = [id |-> b[i], attempts |-> row[b[i]].attempts]
          /\ batch[j] = [id |-> b[j], attempts |-> row[b[j]].attempts]
      BY <2>3
    <3> QED
      BY <3>3, <3>4
  <2>7. ASSUME batch # <<>>
        PROVE  Good([pc |-> "channel", batch |-> batch], tries', accepted')
    <3> DEFINE q == [pc |-> "channel", batch |-> batch]
    <3>1. q \in LoopType /\ q.pc = "channel" /\ q.batch = batch
      BY <2>5 DEF LoopType, Places, Awaits
    <3> HIDE DEF q
    <3>2. Good(q, tries', accepted')
      BY <1>2, <2>4, <2>5, <2>6, <2>7, <3>1 DEF Good, Empty
    <3> QED
      BY <3>2 DEF q
  <2>8. \A i \in 1 .. Len(batch) : row'[batch[i].id].status \in Waiting
    BY <1>2, <2>3, <2>5
  <2>9. LoopsGood' /\ Solo' /\ Fresh' /\ timer' \in Loops \cup {NoLoop}
    BY <1>1, <1>2, <1>5, <2>7, <2>8, NextDeliveryMoved
  <2> QED
    BY <1>2, <1>3, <1>5, <2>9 DEF IInv, Basics
<1> QED
  BY <1>4, <1>5 DEF Poll

(* The channel's query changes nothing but the loop. *)
LEMMA ChannelPreserves ==
  ASSUME IInv, NEW l \in Loops, Channel(l)
  PROVE  IInv'
<1>1. Growing
  BY NothingGrows DEF Channel
<1>2. loop[l].pc = "channel" /\ overlap' = overlap /\ UNCHANGED <<row, running, tries, accepted>>
  BY DEF Channel
<1>3. RowsGood'
  BY <1>2 DEF IInv, RowsGood
<1>4. CASE Fault /\ EndCycle(l)
  <2>1. faults' \in 0 .. MaxFaults /\ faults' # 0
    BY <1>4, FaultsAssumption DEF Fault, IInv, Basics
  <2> QED
    BY <1>1, <1>2, <1>3, <1>4, <2>1, EndCycleMoved DEF IInv, Basics
<1>5. CASE Goto(l, "post") /\ faults' = faults
  <2> DEFINE r == [loop[l] EXCEPT !.pc = "post"]
  <2>1. loop' = [loop EXCEPT ![l] = r] /\ timer' = timer
    BY <1>5 DEF Goto
  <2>2. Good(loop[l], tries, accepted) /\ loop[l].batch # <<>>
    BY <1>2 DEF IInv, LoopsGood, Good, Empty
  <2>3. Good(r, tries', accepted')
    BY <1>2, <2>2, GoodGoto
  <2>4. r.batch = loop[l].batch
    BY <2>2 DEF Good, LoopType
  <2>5. ~overlap /\ faults' = 0 =>
            \A i \in 1 .. Len(r.batch) : row'[r.batch[i].id].status \in Waiting
    BY <1>2, <1>5, <2>4 DEF IInv, Fresh
  <2> HIDE DEF r
  <2>6. LoopsGood' /\ Solo' /\ Fresh'
    BY <1>1, <1>2, <1>5, <2>1, <2>3, <2>5, Moved
  <2> QED
    BY <1>2, <1>3, <1>5, <2>1, <2>6 DEF IInv, Basics
<1> QED
  BY <1>4, <1>5 DEF Channel

(* The post: one more try of the current delivery, up to the limit. *)
LEMMA PostPreserves ==
  ASSUME IInv, NEW l \in Loops, Post(l)
  PROVE  IInv'
<1> DEFINE c == loop[l].batch[1]
           d == c.id
<1>1. Good(loop[l], tries, accepted) /\ loop[l].batch # <<>>
  BY DEF Post, IInv, LoopsGood, Good, Empty
<1>2. loop[l].batch \in Seq(Copies)
  BY <1>1 DEF Good, LoopType
<1>3. Current(l) = c /\ c \in Copies /\ 1 \in 1 .. Len(loop[l].batch)
  BY <1>1, <1>2, TailFacts DEF Current
<1>4. d \in Deliveries /\ c.attempts \in 0 .. maxAttempts - 1 /\ c.attempts <= tries[d]
  BY <1>1, <1>3 DEF Copies, Good
<1> HIDE DEF c
<1>5. /\ tries' = [tries EXCEPT ![d] = IF tries[d] < maxAttempts THEN tries[d] + 1 ELSE tries[d]]
      /\ accepted' = accepted \/ accepted' = accepted \cup {d}
      /\ UNCHANGED <<row, running, overlap, faults>>
  BY <1>3 DEF Post
<1>6. tries \in [Deliveries -> 0 .. maxAttempts]
  BY DEF IInv, Basics
<1>7. /\ tries' \in [Deliveries -> 0 .. maxAttempts]
      /\ \A e \in Deliveries : tries[e] <= tries'[e]
      /\ c.attempts < tries'[d]
  BY <1>4, <1>5, <1>6, AttemptsAssumption
<1>8. Growing
  BY <1>5, <1>7 DEF Growing
<1>9. RowsGood'
  <2>1. ASSUME NEW e \in Deliveries
        PROVE  RowGood(row[e], tries'[e], e \in accepted')
    <3>1. RowGood(row[e], tries[e], e \in accepted)
      BY DEF IInv, RowsGood
    <3>2. row[e].attempts \in 0 .. maxAttempts /\ tries[e] \in 0 .. maxAttempts
          /\ tries'[e] \in 0 .. maxAttempts /\ tries[e] <= tries'[e]
      BY <1>6, <1>7, <3>1 DEF RowGood, RowType
    <3>3. row[e].attempts <= tries'[e] /\ (tries[e] = maxAttempts => tries'[e] = maxAttempts)
      BY <3>1, <3>2, AttemptsAssumption DEF RowGood
    <3> QED
      BY <1>5, <3>1, <3>3 DEF RowGood
  <2> QED
    BY <1>5, <2>1 DEF IInv, RowsGood
<1>10. ASSUME NEW pc \in {"delivered", "refused", "caught"}, Goto(l, pc),
              pc = "delivered" => d \in accepted'
       PROVE  IInv'
  <2> DEFINE r == [loop[l] EXCEPT !.pc = pc]
  <2>1. loop' = [loop EXCEPT ![l] = r] /\ timer' = timer
    BY <1>10 DEF Goto
  <2>2. Good(loop[l], tries', accepted')
    BY <1>1, <1>6, <1>8, GoodGrows DEF Growing
  <2>3. Good(r, tries', accepted')
    BY <1>1, <1>7, <1>10, <2>2, GoodPosted DEF c
  <2>4. r.batch = loop[l].batch
    BY <1>1 DEF Good, LoopType
  <2>5. ~overlap /\ faults' = 0 =>
            \A i \in 1 .. Len(r.batch) : row'[r.batch[i].id].status \in Waiting
    BY <1>5, <2>4 DEF IInv, Fresh
  <2>6. loop[l].pc # "off"
    BY DEF Post
  <2> HIDE DEF r
  <2>7. LoopsGood' /\ Solo' /\ Fresh'
    BY <1>5, <1>8, <2>1, <2>3, <2>5, <2>6, Moved
  <2>8. accepted' \subseteq Deliveries
    BY <1>4, <1>5 DEF IInv, Basics
  <2> QED
    BY <1>5, <1>7, <1>9, <2>1, <2>7, <2>8 DEF IInv, Basics
<1>11. \/ Goto(l, "delivered") /\ d \in accepted'
       \/ Goto(l, "refused")
       \/ Goto(l, "caught")
  BY <1>3 DEF Post
<1> QED
  BY <1>10, <1>11

(***************************************************************************)
(* The UPDATEs after the post.                                             *)
(***************************************************************************)
(* The row handleFailure writes counts no attempt that was not made. *)
LEMMA FailureRow ==
  ASSUME NEW c \in Copies, NEW n \in 0 .. maxAttempts, c.attempts < n
  PROVE  RowGood(handleFailure(c), n, FALSE)
<1> DEFINE h == handleFailure(c)
<1>1. c.attempts \in 0 .. maxAttempts - 1
  BY DEF Copies
<1>2. CASE c.attempts + 1 >= maxAttempts
  <2>1. h = [status |-> "failed", attempts |-> c.attempts + 1, due |-> TRUE]
    BY <1>2 DEF handleFailure
  <2> HIDE DEF h
  <2>2. c.attempts + 1 \in 0 .. maxAttempts /\ n = maxAttempts
    BY <1>1, <1>2, AttemptsAssumption
  <2>3. h \in RowType
    BY <2>1, <2>2 DEF RowType, Statuses
  <2>4. RowGood(h, n, FALSE)
    BY <1>1, <2>1, <2>2, <2>3, AttemptsAssumption DEF RowGood, Waiting
  <2> QED
    BY <2>4 DEF h
<1>3. CASE ~(c.attempts + 1 >= maxAttempts)
  <2>1. h = [status |-> "retrying", attempts |-> c.attempts + 1, due |-> FALSE]
    BY <1>3 DEF handleFailure
  <2> HIDE DEF h
  <2>2. c.attempts + 1 \in 0 .. maxAttempts /\ c.attempts + 1 < maxAttempts
    BY <1>1, <1>3, AttemptsAssumption
  <2>3. h \in RowType
    BY <2>1, <2>2 DEF RowType, Statuses
  <2>4. RowGood(h, n, FALSE)
    BY <1>1, <2>1, <2>2, <2>3, AttemptsAssumption DEF RowGood, Waiting
  <2> QED
    BY <2>4 DEF h
<1> QED
  BY <1>2, <1>3

(* Where a loop stands after its post. *)
LEMMA Posted ==
  ASSUME IInv, NEW l \in Loops, loop[l].pc \in {"delivered", "refused", "caught"}
  PROVE  /\ loop[l].batch \in Seq(Copies)
         /\ loop[l].batch # <<>>
         /\ Good(loop[l], tries, accepted)
         /\ Current(l) = loop[l].batch[1]
         /\ Current(l) \in Copies
         /\ Current(l).id \in Deliveries
         /\ Current(l).attempts < tries[Current(l).id]
         /\ tries[Current(l).id] \in 0 .. maxAttempts
<1>1. Good(loop[l], tries, accepted) /\ loop[l].batch # <<>>
  BY DEF IInv, LoopsGood, Good, Empty
<1>2. loop[l].batch \in Seq(Copies)
  BY <1>1 DEF Good, LoopType
<1>3. Current(l) = loop[l].batch[1] /\ Current(l) \in Copies
  BY <1>1, <1>2, TailFacts DEF Current
<1>4. Current(l).id \in Deliveries
  BY <1>3 DEF Copies
<1>5. Current(l).attempts < tries[Current(l).id]
  BY <1>1, <1>3 DEF Good
<1>6. tries[Current(l).id] \in 0 .. maxAttempts
  BY <1>4 DEF IInv, Basics
<1> QED
  BY <1>1, <1>2, <1>3, <1>4, <1>5, <1>6

(* An UPDATE with a good row, whether or not it is executed. *)
LEMMA RowWritten ==
  ASSUME IInv, NEW d \in Deliveries, NEW r, RowGood(r, tries[d], d \in accepted),
         row' = [row EXCEPT ![d] = r] \/ row' = row,
         tries' = tries, accepted' = accepted
  PROVE  RowsGood'
<1>1. row \in [Deliveries -> RowType] /\ r \in RowType
  BY DEF IInv, RowsGood, RowGood
<1>2. row' \in [Deliveries -> RowType]
  BY <1>1
<1>3. \A e \in Deliveries : row'[e] = row[e] \/ (e = d /\ row'[e] = r)
  BY <1>1
<1>4. \A e \in Deliveries : RowGood(row'[e], tries[e], e \in accepted)
  BY <1>3 DEF IInv, RowsGood
<1> QED
  BY <1>2, <1>4 DEF RowsGood

(* An UPDATE that is answered, and the step to the next delivery. *)
LEMMA UpdatePreserves ==
  ASSUME IInv, NEW l \in Loops, loop[l].pc \in {"delivered", "refused", "caught"},
         NEW r, RowGood(r, tries[Current(l).id], Current(l).id \in accepted),
         Update(l, r), UNCHANGED <<running, tries, accepted, overlap>>
  PROVE  IInv'
<1> DEFINE b == loop[l].batch
           d == Current(l).id
<1>1. b \in Seq(Copies) /\ b # <<>> /\ Good(loop[l], tries, accepted)
      /\ d = b[1].id /\ d \in Deliveries
  BY Posted
<1>2. row' = [row EXCEPT ![d] = r] /\ NextDelivery(l, Tail(b)) /\ faults' = faults
  BY DEF Update
<1>3. RowsGood'
  BY <1>1, <1>2, RowWritten
<1>4. Growing
  BY NothingGrows
<1>5. Tail(b) # <<>> => Good([pc |-> "channel", batch |-> Tail(b)], tries', accepted')
  BY <1>1, GoodTail
<1>6. ASSUME ~overlap, faults' = 0, NEW i \in 1 .. Len(Tail(b))
      PROVE  row'[Tail(b)[i].id].status \in Waiting
  <2>1. /\ Len(b) \in Nat \ {0}
        /\ Len(Tail(b)) = Len(b) - 1
        /\ i + 1 \in 1 .. Len(b)
        /\ Tail(b)[i] = b[i + 1]
    BY <1>1, TailFacts
  <2>2. 1 \in 1 .. Len(b) /\ i + 1 # 1
    BY <2>1
  <2>3. \A m, n \in 1 .. Len(b) : b[m].id = b[n].id => m = n
    BY <1>1 DEF Good
  <2>4. b[i + 1].id # d
    BY <1>1, <2>1, <2>2, <2>3
  <2>5. b[i + 1] \in Copies
    BY <1>1, <2>1, ElementOfSeq
  <2>6. row'[b[i + 1].id] = row[b[i + 1].id]
    BY <1>2, <2>4, <2>5 DEF IInv, RowsGood, Copies
  <2>7. row[b[i + 1].id].status \in Waiting
    BY <1>2, <1>6, <2>1 DEF IInv, Fresh
  <2> QED
    BY <2>1, <2>6, <2>7
<1>7. loop[l].pc # "off" /\ overlap' = overlap
  OBVIOUS
<1> HIDE DEF b, d
<1>8. LoopsGood' /\ Solo' /\ Fresh' /\ timer' \in Loops \cup {NoLoop}
  BY <1>2, <1>4, <1>5, <1>6, <1>7, NextDeliveryMoved
<1> QED
  BY <1>2, <1>3, <1>8 DEF IInv, Basics

(* An UPDATE that rejects, after which the catch block runs or the cycle ends. *)
LEMMA RejectPreserves ==
  ASSUME IInv, NEW l \in Loops, loop[l].pc \in {"delivered", "refused", "caught"},
         NEW r, RowGood(r, tries[Current(l).id], Current(l).id \in accepted),
         UpdateRejects(l, r), Goto(l, "caught") \/ EndCycle(l),
         UNCHANGED <<running, tries, accepted, overlap>>
  PROVE  IInv'
<1>1. /\ Good(loop[l], tries, accepted)
      /\ loop[l].batch # <<>>
      /\ Current(l) = loop[l].batch[1]
      /\ Current(l).id \in Deliveries
      /\ Current(l).attempts < tries[Current(l).id]
  BY Posted
<1>2. RowsGood'
  BY <1>1, RowWritten DEF UpdateRejects
<1>3. faults' \in 0 .. MaxFaults /\ faults' # 0
  BY FaultsAssumption DEF UpdateRejects, Fault, IInv, Basics
<1>4. Growing
  BY NothingGrows
<1>5. CASE EndCycle(l)
  <2>1. LoopsGood' /\ Solo' /\ Fresh' /\ timer' \in Loops \cup {NoLoop}
    BY <1>3, <1>4, <1>5, EndCycleMoved
  <2> QED
    BY <1>2, <1>3, <2>1 DEF IInv, Basics
<1>6. CASE Goto(l, "caught")
  <2> DEFINE q == [loop[l] EXCEPT !.pc = "caught"]
  <2>1. loop' = [loop EXCEPT ![l] = q] /\ timer' = timer
    BY <1>6 DEF Goto
  <2>2. Good(q, tries', accepted')
    BY <1>1, GoodPosted
  <2>3. loop[l].pc # "off"
    OBVIOUS
  <2> HIDE DEF q
  <2>4. LoopsGood' /\ Solo' /\ Fresh'
    BY <1>3, <1>4, <2>1, <2>2, <2>3, Moved
  <2> QED
    BY <1>2, <1>3, <2>1, <2>4 DEF IInv, Basics
<1> QED
  BY <1>5, <1>6

(* Recording a success: the loop was answered with 2xx. *)
LEMMA DeliveredPreserves ==
  ASSUME IInv, NEW l \in Loops, Delivered(l)
  PROVE  IInv'
<1> DEFINE d == Current(l).id
           r == [row[d] EXCEPT !.status = "delivered"]
<1>1. loop[l].pc = "delivered" /\ d \in Deliveries /\ d \in accepted
  BY Posted DEF Delivered, Good
<1>2. RowGood(row[d], tries[d], d \in accepted)
  BY <1>1 DEF IInv, RowsGood
<1>3. r \in RowType /\ r.status = "delivered" /\ r.attempts = row[d].attempts
  BY <1>2 DEF RowGood, RowType, Statuses
<1>4. Update(l, r) \/ (UpdateRejects(l, r) /\ Goto(l, "caught"))
  BY DEF Delivered
<1>5. UNCHANGED <<running, tries, accepted, overlap>>
  BY DEF Delivered
<1> HIDE DEF r
<1>6. RowGood(r, tries[d], d \in accepted)
  BY <1>1, <1>2, <1>3 DEF RowGood, Waiting
<1> QED
  BY <1>1, <1>4, <1>5, <1>6, UpdatePreserves, RejectPreserves

(* Recording a failure, in the try block and in its catch. *)
LEMMA FailurePreserves ==
  ASSUME IInv, NEW l \in Loops, Refused(l) \/ Caught(l)
  PROVE  IInv'
<1> DEFINE r == handleFailure(Current(l))
<1>1. loop[l].pc \in {"delivered", "refused", "caught"}
  BY DEF Refused, Caught
<1>2. RowGood(r, tries[Current(l).id], Current(l).id \in accepted)
  <2>1. RowGood(r, tries[Current(l).id], FALSE)
    BY <1>1, Posted, FailureRow
  <2> QED
    BY <2>1 DEF RowGood
<1>3. \/ Update(l, r)
      \/ UpdateRejects(l, r) /\ (Goto(l, "caught") \/ EndCycle(l))
  BY DEF Refused, Caught
<1>4. UNCHANGED <<running, tries, accepted, overlap>>
  BY DEF Refused, Caught
<1> HIDE DEF r
<1> QED
  BY <1>1, <1>2, <1>3, <1>4, UpdatePreserves, RejectPreserves

(***************************************************************************)
(* The other actions.                                                      *)
(***************************************************************************)
(* The timeout fires. *)
LEMMA WakePreserves ==
  ASSUME IInv, NEW l \in Loops, Wake(l)
  PROVE  IInv'
<1> DEFINE pc == IF running THEN "poll" ELSE "off"
           r == [loop[l] EXCEPT !.pc = pc]
<1>1. loop[l].pc # "off" /\ loop' = [loop EXCEPT ![l] = r]
      /\ UNCHANGED <<row, running, timer, tries, accepted, overlap, faults>>
  BY DEF Wake
<1>2. Good(loop[l], tries, accepted) /\ loop[l].batch = <<>>
  BY DEF Wake, IInv, LoopsGood, Good, Empty
<1>3. r = [pc |-> pc, batch |-> <<>>]
  BY <1>2 DEF Good, LoopType
<1>4. Good(r, tries', accepted')
  BY <1>3, GoodEmpty DEF Empty
<1>5. 1 .. Len(r.batch) = {}
  BY <1>3, EmptyFacts
<1>6. Growing
  BY <1>1, NothingGrows
<1> HIDE DEF r
<1>7. LoopsGood' /\ Solo' /\ Fresh'
  BY <1>1, <1>4, <1>5, <1>6, Moved
<1> QED
  BY <1>1, <1>7 DEF IInv, Basics, RowsGood

(* The table and the clock: a row that becomes pending, a retry that is due. *)
LEMMA TablePreserves ==
  ASSUME IInv, NEW d \in Deliveries, storeDelivery(d) \/ RetryDue(d)
  PROVE  IInv'
<1>1. UNCHANGED <<running, timer, loop, tries, accepted, overlap, faults>>
  BY DEF storeDelivery, RetryDue
<1>2. RowGood(row[d], tries[d], d \in accepted) /\ row \in [Deliveries -> RowType]
  BY DEF IInv, RowsGood
<1>3. PICK r : /\ row' = [row EXCEPT ![d] = r]
               /\ RowGood(r, tries[d], d \in accepted)
               /\ row[d].status \in Waiting => r.status \in Waiting
  <2>1. CASE storeDelivery(d)
    <3> DEFINE r == [row[d] EXCEPT !.status = "pending"]
    <3>1. row' = [row EXCEPT ![d] = r] /\ row[d].status = "absent"
      BY <2>1 DEF storeDelivery
    <3>2. r \in RowType /\ r.status = "pending" /\ r.attempts = row[d].attempts
      BY <1>2 DEF RowType, Statuses
    <3> HIDE DEF r
    <3> QED
      BY <1>2, <3>1, <3>2 DEF RowGood, Waiting
  <2>2. CASE RetryDue(d)
    <3> DEFINE r == [row[d] EXCEPT !.due = TRUE]
    <3>1. row' = [row EXCEPT ![d] = r]
      BY <2>2 DEF RetryDue
    <3>2. r \in RowType /\ r.status = row[d].status /\ r.attempts = row[d].attempts
      BY <1>2 DEF RowType, Statuses
    <3> HIDE DEF r
    <3> QED
      BY <1>2, <3>1, <3>2 DEF RowGood
  <2> QED
    BY <2>1, <2>2
<1>4. RowsGood'
  BY <1>1, <1>3, RowWritten
<1>5. \A e : row[e].status \in Waiting => row'[e].status \in Waiting \/ e \notin Deliveries
  BY <1>2, <1>3
<1>6. Fresh'
  <2> SUFFICES ASSUME ~overlap, faults = 0, NEW l \in Loops,
                      NEW i \in 1 .. Len(loop[l].batch)
               PROVE  row'[loop[l].batch[i].id].status \in Waiting
    BY <1>1 DEF Fresh
  <2>1. loop[l].batch \in Seq(Copies)
    BY DEF IInv, LoopsGood, LoopType
  <2>2. loop[l].batch[i] \in Copies
    BY <2>1, ElementOfSeq
  <2>3. loop[l].batch[i].id \in Deliveries
    BY <2>2 DEF Copies
  <2> QED
    BY <1>5, <2>3 DEF IInv, Fresh
<1> QED
  BY <1>1, <1>4, <1>6 DEF IInv, Basics, LoopsGood, Solo

(* A new loop, remembered as overlapping if another one is alive. *)
LEMMA StartPreserves ==
  ASSUME IInv, NEW l \in Loops, startWebhookWorker(l)
  PROVE  IInv'
<1> DEFINE r == [loop[l] EXCEPT !.pc = "poll"]
<1>1. /\ loop' = [loop EXCEPT ![l] = r]
      /\ loop[l].pc = "off"
      /\ running' = TRUE
      /\ overlap' = (overlap \/ Alive # {})
      /\ UNCHANGED <<row, timer, tries, accepted, faults>>
  BY DEF startWebhookWorker
<1>2. Good(loop[l], tries, accepted) /\ loop[l].batch = <<>>
  BY <1>1 DEF IInv, LoopsGood, Good, Empty
<1>3. r = [pc |-> "poll", batch |-> <<>>]
  BY <1>2 DEF Good, LoopType
<1>4. Good(r, tries, accepted)
  BY <1>3, GoodEmpty DEF Empty
<1>5. r \in LoopType /\ r.batch = <<>>
  BY <1>3, <1>4 DEF Good
<1> HIDE DEF r
<1>6. /\ loop' \in [Loops -> LoopType]
      /\ loop'[l] = r
      /\ \A k \in Loops \ {l} : loop'[k] = loop[k]
  BY <1>1, <1>5 DEF IInv, LoopsGood
<1>7. LoopsGood'
  BY <1>1, <1>4, <1>6 DEF IInv, LoopsGood
<1>8. Solo'
  <2> SUFFICES ASSUME ~overlap'
               PROVE  \A k \in Loops \ {l} : loop'[k].pc = "off"
    BY DEF Solo
  <2> QED
    BY <1>1, <1>6 DEF Alive
<1>9. Fresh'
  <2> SUFFICES ASSUME ~overlap', faults' = 0, NEW k \in Loops,
                      NEW i \in 1 .. Len(loop'[k].batch)
               PROVE  row'[loop'[k].batch[i].id].status \in Waiting
    BY DEF Fresh
  <2>1. k # l
    BY <1>5, <1>6, EmptyFacts
  <2> QED
    BY <1>1, <1>6, <2>1 DEF IInv, Fresh
<1>10. overlap' \in BOOLEAN /\ running' \in BOOLEAN
  BY <1>1 DEF IInv, Basics
<1> QED
  BY <1>1, <1>7, <1>8, <1>9, <1>10 DEF IInv, Basics, RowsGood

(* Loops that are switched off, by a stop or by the end of the process. *)
LEMMA StopPreserves ==
  ASSUME IInv, stopWebhookWorker \/ ProcessEnds
  PROVE  IInv'
<1>1. /\ running' = FALSE
      /\ timer' = NoLoop
      /\ UNCHANGED <<row, tries, accepted, overlap, faults>>
  BY DEF stopWebhookWorker, ProcessEnds
<1>2. \/ loop' = [l \in Loops |-> IF l = timer /\ loop[l].pc = "sleeping" THEN Off ELSE loop[l]]
      \/ loop' = [l \in Loops |-> Off]
  BY DEF stopWebhookWorker, ProcessEnds
<1>3. \A l \in Loops : loop'[l] = Off \/ loop'[l] = loop[l]
  BY <1>2
<1>4. Good(Off, tries, accepted)
  BY GoodEmpty DEF Off, Empty
<1>5. \A l \in Loops : Good(loop'[l], tries, accepted)
  BY <1>3, <1>4 DEF IInv, LoopsGood
<1>6. loop' \in [Loops -> LoopType]
  <2>1. \A l \in Loops : loop'[l] \in LoopType
    BY <1>5 DEF Good
  <2> QED
    BY <1>2, <2>1
<1>7. Off.pc = "off" /\ 1 .. Len(Off.batch) = {}
  BY EmptyFacts DEF Off
<1>8. Solo'
  BY <1>1, <1>3, <1>7 DEF IInv, Solo
<1>9. Fresh'
  <2> SUFFICES ASSUME ~overlap, faults = 0, NEW l \in Loops,
                      NEW i \in 1 .. Len(loop'[l].batch)
               PROVE  row[loop'[l].batch[i].id].status \in Waiting
    BY <1>1 DEF Fresh
  <2>1. loop'[l] = loop[l]
    BY <1>3, <1>7
  <2> QED
    BY <2>1 DEF IInv, Fresh
<1> QED
  BY <1>1, <1>5, <1>6, <1>8, <1>9 DEF IInv, Basics, RowsGood, LoopsGood

(***************************************************************************)
(* The invariant and what follows from it.                                 *)
(***************************************************************************)
(* No loop runs and nothing is stored at the start. *)
LEMMA InitInv == Init => IInv
<1> SUFFICES ASSUME Init PROVE IInv
  OBVIOUS
<1> DEFINE r0 == [status |-> "absent", attempts |-> 0, due |-> TRUE]
<1>1. Basics
  <2>1. running \in BOOLEAN /\ overlap \in BOOLEAN /\ timer \in Loops \cup {NoLoop}
    BY DEF Init
  <2>2. tries \in [Deliveries -> 0 .. maxAttempts] /\ faults \in 0 .. MaxFaults
    BY AttemptsAssumption, FaultsAssumption DEF Init
  <2>3. accepted \subseteq Deliveries
    BY DEF Init
  <2> QED
    BY <2>1, <2>2, <2>3 DEF Basics
<1>2. \A d \in Deliveries : row[d] = r0 /\ tries[d] = 0
  BY DEF Init
<1>3. r0 \in RowType /\ r0.status = "absent" /\ r0.attempts = 0
  BY AttemptsAssumption DEF RowType, Statuses
<1>4. row \in [Deliveries -> RowType]
  BY <1>3 DEF Init
<1> HIDE DEF r0
<1>5. RowsGood
  BY <1>2, <1>3, <1>4, AttemptsAssumption DEF RowsGood, RowGood, Waiting
<1>6. \A l \in Loops : loop[l] = Off
  BY DEF Init
<1>7. Good(Off, tries, accepted)
  BY GoodEmpty DEF Off, Empty
<1>8. LoopsGood
  <2>1. Off \in LoopType
    BY <1>7 DEF Good
  <2> QED
    BY <1>6, <1>7, <2>1 DEF Init, LoopsGood
<1>9. Off.pc = "off" /\ 1 .. Len(Off.batch) = {}
  BY EmptyFacts DEF Off
<1>10. Solo /\ Fresh
  BY <1>6, <1>9 DEF Solo, Fresh
<1> QED
  BY <1>1, <1>5, <1>8, <1>10 DEF IInv

(* Every step of every loop, of the table and of the process keeps it. *)
LEMMA NextInv == IInv /\ [Next]_vars => IInv'
<1> SUFFICES ASSUME IInv, [Next]_vars PROVE IInv'
  OBVIOUS
<1>1. ASSUME NEW l \in Loops, LoopStep(l) PROVE IInv'
  BY <1>1, PollPreserves, ChannelPreserves, PostPreserves, DeliveredPreserves,
     FailurePreserves, WakePreserves DEF LoopStep
<1>2. CASE UNCHANGED vars
  BY <1>2 DEF vars, IInv, Basics, RowsGood, LoopsGood, Solo, Fresh
<1> QED
  BY <1>1, <1>2, StartPreserves, TablePreserves, StopPreserves DEF Next

LEMMA Invariant == Spec => []IInv
BY InitInv, NextInv, PTL DEF Spec

(* Attempts stay within max_attempts although they are counted from        *)
(* copies, and a loop holds copies exactly while it works on them.         *)
THEOREM TypeCorrect == Spec => []TypeOK
<1>1. IInv => TypeOK
  BY DEF IInv, Basics, RowsGood, LoopsGood, Good, TypeOK, RowType, Statuses, LoopType,
         Places, Empty
<1> QED
  BY <1>1, Invariant, PTL

(* handleFailure gives a delivery up only after max_attempts posts, for    *)
(* any number of overlapping loops, failing queries and restarts.          *)
THEOREM AttemptsMade == Spec => []NotGivenUpEarly
<1>1. IInv => NotGivenUpEarly
  BY DEF IInv, RowsGood, RowGood, NotGivenUpEarly
<1> QED
  BY <1>1, Invariant, PTL

(* A row is marked delivered only after a 2xx answer; without overlapping  *)
(* loops and failing queries no loop still holds a copy of it.             *)
THEOREM DeliveredCorrect == Spec => []DeliveredOnce
<1>1. ASSUME IInv, NEW d \in Deliveries, row[d].status = "delivered"
      PROVE  d \in accepted
  BY <1>1 DEF IInv, RowsGood, RowGood
<1>2. ASSUME IInv, NEW d \in Deliveries, row[d].status = "delivered", ~overlap, faults = 0,
             NEW l \in Loops, NEW i \in 1 .. Len(loop[l].batch)
      PROVE  loop[l].batch[i].id # d
  BY <1>2 DEF IInv, Fresh, Waiting
<1>3. IInv => DeliveredOnce
  BY <1>1, <1>2 DEF DeliveredOnce
<1> QED
  BY <1>3, Invariant, PTL
=============================================================================
