------------------------ MODULE AsyncSemaphoreProofs ------------------------
(***************************************************************************)
(* Proofs about AsyncSemaphore for every set of callers and every max.     *)
(*                                                                         *)
(* The inductive invariant is the conjunction of the type invariant, the   *)
(* accounting of slots, the consistency of the queue and NoIdleSlot.  The  *)
(* accounting needs the queue's consistency (a slot handed over goes to a  *)
(* caller that did not hold one, and is counted once), and NoIdleSlot      *)
(* needs nothing but the shape of release: with callers queued the counter *)
(* does not move.                                                          *)
(***************************************************************************)
EXTENDS AsyncSemaphore, FiniteSetTheorems, TLAPS

(* The inductive invariant. *)
IInv == TypeOK /\ SlotAccounting /\ QueueConsistent /\ NoIdleSlot

-----------------------------------------------------------------------------
(* Splicing one entry out of a queue leaves a queue one shorter whose      *)
(* entries are the remaining ones, shifted (the timer's waiters.splice).   *)
LEMMA SpliceProperties ==
    ASSUME NEW S, NEW s \in Seq(S), NEW i \in 1 .. Len(s)
    PROVE  /\ Splice(s, i) \in Seq(S)
           /\ Len(Splice(s, i)) = Len(s) - 1
           /\ \A j \in 1 .. Len(s) - 1 :
                  Splice(s, i)[j] = IF j < i THEN s[j] ELSE s[j + 1]
<1> DEFINE n == Len(s) - 1
           t == [j \in 1 .. n |-> IF j < i THEN s[j] ELSE s[j + 1]]
<1>1. n \in Nat
  OBVIOUS
<1>2. \A j \in 1 .. n : (IF j < i THEN s[j] ELSE s[j + 1]) \in S
  OBVIOUS
<1>3. t \in [1 .. n -> S]
  BY <1>2
<1>4. t \in Seq(S) /\ Len(t) = n
  BY <1>1, <1>3
<1> QED
  BY <1>4 DEF Splice

(* The set of callers holding a slot is finite. *)
LEMMA HoldersFinite == IsFiniteSet(Holders)
BY ProcAssumption, FS_Subset DEF Holders

-----------------------------------------------------------------------------
(* The invariant holds initially: no caller holds a slot, none is queued. *)
LEMMA InitInv == Init => IInv
<1> SUFFICES ASSUME Init PROVE IInv
  OBVIOUS
<1>1. TypeOK
  BY MaxAssumption DEF Init, TypeOK, States
<1>2. SlotAccounting
  <2>1. Holders = {}
    BY DEF Init, Holders
  <2> QED
    BY <2>1, FS_EmptySet DEF Init, SlotAccounting
<1>3. QueueConsistent
  BY DEF Init, QueueConsistent
<1>4. NoIdleSlot
  BY DEF Init, NoIdleSlot
<1> QED
  BY <1>1, <1>2, <1>3, <1>4 DEF IInv

(* acquire() on a free slot keeps the invariant: the counter and the set   *)
(* of holders both grow by this caller.                                    *)
LEMMA AcquireFreeInv ==
    ASSUME IInv, NEW p \in Proc, AcquireFree(p)
    PROVE  IInv'
<1> USE DEF IInv
<1>1. TypeOK'
  BY MaxAssumption DEF TypeOK, AcquireFree, States
<1>2. SlotAccounting'
  <2>1. p \notin Holders /\ Holders' = Holders \cup {p}
    BY DEF TypeOK, AcquireFree, Holders
  <2>2. Cardinality(Holders') = Cardinality(Holders) + 1
    BY <2>1, HoldersFinite, FS_AddElement
  <2> QED
    BY <2>2 DEF SlotAccounting, AcquireFree
<1>3. QueueConsistent'
  BY DEF TypeOK, QueueConsistent, AcquireFree
<1>4. NoIdleSlot'
  BY MaxAssumption DEF TypeOK, NoIdleSlot, AcquireFree
<1> QED
  BY <1>1, <1>2, <1>3, <1>4

(* acquire() with every slot taken queues a caller that was not queued. *)
LEMMA AcquireBusyInv ==
    ASSUME IInv, NEW p \in Proc, AcquireBusy(p)
    PROVE  IInv'
<1> USE DEF IInv
<1>1. TypeOK'
  BY DEF TypeOK, AcquireBusy, States
<1>2. SlotAccounting'
  <2>1. Holders' = Holders
    BY DEF TypeOK, AcquireBusy, Holders
  <2> QED
    BY <2>1 DEF SlotAccounting, AcquireBusy
<1>3. QueueConsistent'
  <2>1. /\ Len(waiters') = Len(waiters) + 1
        /\ waiters'[Len(waiters) + 1] = p
        /\ \A i \in 1 .. Len(waiters) : waiters'[i] = waiters[i]
    BY DEF TypeOK, AcquireBusy
  <2>2. \A i \in 1 .. Len(waiters) : waiters[i] # p
    BY DEF TypeOK, QueueConsistent, AcquireBusy
  <2>3. \A q \in Proc : pc'[q] = IF q = p THEN "waiting" ELSE pc[q]
    BY DEF TypeOK, AcquireBusy
  <2>4. Len(waiters) \in Nat
    BY DEF TypeOK
  <2> QED
    BY <2>1, <2>2, <2>3, <2>4 DEF QueueConsistent
<1>4. NoIdleSlot'
  BY MaxAssumption DEF TypeOK, NoIdleSlot, AcquireBusy
<1> QED
  BY <1>1, <1>2, <1>3, <1>4

(* A time-out takes one queued caller out of the queue and touches no slot. *)
LEMMA TimerFiresInv ==
    ASSUME IInv, NEW p \in Proc, TimerFires(p)
    PROVE  IInv'
<1> USE DEF IInv
<1>1. PICK i \in 1 .. Len(waiters) : waiters[i] = p /\ waiters' = Splice(waiters, i)
  BY DEF TimerFires
<1>2. /\ waiters' \in Seq(Proc)
      /\ Len(waiters') = Len(waiters) - 1
      /\ \A j \in 1 .. Len(waiters) - 1 :
             waiters'[j] = IF j < i THEN waiters[j] ELSE waiters[j + 1]
  BY <1>1, SpliceProperties DEF TypeOK
<1>3. pc[p] = "waiting"
  BY <1>1 DEF QueueConsistent
<1>4. \A q \in Proc : pc'[q] = IF q = p THEN "refused" ELSE pc[q]
  BY DEF TypeOK, TimerFires
<1>5. Len(waiters) \in Nat
  BY DEF TypeOK
<1>6. TypeOK'
  BY <1>2 DEF TypeOK, TimerFires, States
<1>7. SlotAccounting'
  <2>1. Holders' = Holders
    BY <1>3, <1>4 DEF Holders
  <2> QED
    BY <2>1 DEF SlotAccounting, TimerFires
<1>8. QueueConsistent'
  <2>1. ASSUME NEW j \in 1 .. Len(waiters'), NEW k \in 1 .. Len(waiters'),
               waiters'[j] = waiters'[k]
        PROVE  j = k
    <3> DEFINE old(x) == IF x < i THEN x ELSE x + 1
    <3>1. /\ old(j) \in 1 .. Len(waiters) /\ waiters'[j] = waiters[old(j)]
          /\ old(k) \in 1 .. Len(waiters) /\ waiters'[k] = waiters[old(k)]
      BY <1>2, <1>5
    <3>2. old(j) = old(k)
      BY <3>1, <2>1 DEF QueueConsistent
    <3> QED
      BY <3>2, <1>5
  <2>2. \A j \in 1 .. Len(waiters') : waiters'[j] # p
    BY <1>1, <1>2, <1>5 DEF QueueConsistent
  <2>3. ASSUME NEW q \in Proc, q # p
        PROVE  (\E j \in 1 .. Len(waiters) : waiters[j] = q)
                  <=> (\E j \in 1 .. Len(waiters') : waiters'[j] = q)
    <3>1. ASSUME NEW j \in 1 .. Len(waiters), waiters[j] = q
          PROVE  \E k \in 1 .. Len(waiters') : waiters'[k] = q
      <4>1. CASE j < i
        BY <3>1, <4>1, <1>2, <1>5
      <4>2. CASE j > i
        <5>1. j - 1 \in 1 .. Len(waiters') /\ waiters'[j - 1] = waiters[j]
          BY <4>2, <1>2, <1>5
        <5> QED
          BY <5>1, <3>1
      <4> QED
        BY <4>1, <4>2, <3>1, <2>3, <1>1, <1>5
    <3>2. ASSUME NEW k \in 1 .. Len(waiters'), waiters'[k] = q
          PROVE  \E j \in 1 .. Len(waiters) : waiters[j] = q
      BY <3>2, <1>2, <1>5
    <3> QED
      BY <3>1, <3>2
  <2>4. ASSUME NEW q \in Proc
        PROVE  pc'[q] = "waiting" <=> \E j \in 1 .. Len(waiters') : waiters'[j] = q
    <3>1. CASE q = p
      BY <3>1, <2>2, <1>4
    <3>2. CASE q # p
      BY <3>2, <2>3, <1>4 DEF QueueConsistent
    <3> QED
      BY <3>1, <3>2
  <2> QED
    BY <2>1, <2>4 DEF QueueConsistent
<1>9. NoIdleSlot'
  BY <1>1 DEF NoIdleSlot, TimerFires, TypeOK
<1> QED
  BY <1>6, <1>7, <1>8, <1>9

(* release() to a queued caller: one holder out, another one in. *)
LEMMA ReleaseToWaiterInv ==
    ASSUME IInv, NEW p \in Proc, ReleaseToWaiter(p)
    PROVE  IInv'
<1> USE DEF IInv
<1> DEFINE h == Head(waiters)
<1>1. /\ Len(waiters) \in Nat /\ 1 \in 1 .. Len(waiters)
      /\ h = waiters[1] /\ h \in Proc
      /\ waiters' \in Seq(Proc)
      /\ Len(waiters') = Len(waiters) - 1
      /\ \A j \in 1 .. Len(waiters) - 1 : waiters'[j] = waiters[j + 1]
  BY DEF TypeOK, ReleaseToWaiter
<1>2. pc[h] = "waiting" /\ h # p
  BY <1>1 DEF QueueConsistent, ReleaseToWaiter
<1>3. \A q \in Proc : pc'[q] = IF q = h THEN "granted"
                               ELSE IF q = p THEN "idle" ELSE pc[q]
  BY <1>1, <1>2 DEF TypeOK, ReleaseToWaiter
<1>4. TypeOK'
  BY <1>1 DEF TypeOK, ReleaseToWaiter, States
<1>5. SlotAccounting'
  <2>1. p \in Holders /\ h \notin Holders
    BY <1>1, <1>2 DEF Holders, ReleaseToWaiter
  <2>2. Holders' = (Holders \ {p}) \cup {h}
    BY <1>1, <1>2, <1>3 DEF Holders
  <2>3. /\ IsFiniteSet(Holders \ {p})
        /\ Cardinality(Holders \ {p}) = Cardinality(Holders) - 1
    BY <2>1, HoldersFinite, FS_RemoveElement
  <2>4. Cardinality(Holders') = (Cardinality(Holders) - 1) + 1
    BY <2>1, <2>2, <2>3, FS_AddElement
  <2>5. Cardinality(Holders) \in Nat
    BY HoldersFinite, FS_CardinalityType
  <2> QED
    BY <2>4, <2>5 DEF SlotAccounting, ReleaseToWaiter
<1>6. QueueConsistent'
  <2>1. \A j, k \in 1 .. Len(waiters') : waiters'[j] = waiters'[k] => j = k
    BY <1>1 DEF QueueConsistent
  <2>2. \A j \in 1 .. Len(waiters') : waiters'[j] # h
    BY <1>1 DEF QueueConsistent
  <2>3. ASSUME NEW q \in Proc, q # h
        PROVE  (\E j \in 1 .. Len(waiters) : waiters[j] = q)
                  <=> (\E j \in 1 .. Len(waiters') : waiters'[j] = q)
    <3>1. ASSUME NEW j \in 1 .. Len(waiters), waiters[j] = q
          PROVE  \E k \in 1 .. Len(waiters') : waiters'[k] = q
      <4>1. j # 1
        BY <3>1, <2>3, <1>1
      <4>2. j - 1 \in 1 .. Len(waiters') /\ waiters'[j - 1] = waiters[j]
        BY <4>1, <1>1
      <4> QED
        BY <4>2, <3>1
    <3>2. ASSUME NEW k \in 1 .. Len(waiters'), waiters'[k] = q
          PROVE  \E j \in 1 .. Len(waiters) : waiters[j] = q
      BY <3>2, <1>1
    <3> QED
      BY <3>1, <3>2
  <2>4. ASSUME NEW q \in Proc
        PROVE  pc'[q] = "waiting" <=> \E j \in 1 .. Len(waiters') : waiters'[j] = q
    <3>1. CASE q = h
      BY <3>1, <2>2, <1>3
    <3>2. CASE q # h
      <4>1. pc'[q] = "waiting" <=> pc[q] = "waiting"
        <5>1. pc[p] = "running" /\ pc'[q] = IF q = p THEN "idle" ELSE pc[q]
          BY <3>2, <1>3 DEF ReleaseToWaiter
        <5> QED
          BY <5>1
      <4>2. pc[q] = "waiting" <=> \E j \in 1 .. Len(waiters) : waiters[j] = q
        BY DEF QueueConsistent
      <4> QED
        BY <3>2, <4>1, <4>2, <2>3
    <3> QED
      BY <3>1, <3>2
  <2> QED
    BY <2>1, <2>4 DEF QueueConsistent
<1>7. NoIdleSlot'
  BY DEF NoIdleSlot, ReleaseToWaiter
<1> QED
  BY <1>4, <1>5, <1>6, <1>7

(* release() with nobody queued: the counter and the holders both shrink;  *)
(* the counter is positive, so the guard of the decrement never hides one. *)
LEMMA ReleaseFreeInv ==
    ASSUME IInv, NEW p \in Proc, ReleaseFree(p)
    PROVE  IInv'
<1> USE DEF IInv
<1>1. p \in Holders /\ Holders' = Holders \ {p}
  BY DEF TypeOK, ReleaseFree, Holders
<1>2. Cardinality(Holders') = Cardinality(Holders) - 1
  BY <1>1, HoldersFinite, FS_RemoveElement
<1>3. Cardinality(Holders) \in Nat /\ Cardinality(Holders) # 0
  BY <1>1, HoldersFinite, FS_CardinalityType, FS_EmptySet
<1>4. current > 0 /\ current' = current - 1
  BY <1>3 DEF SlotAccounting, ReleaseFree
<1>5. TypeOK'
  BY <1>4, MaxAssumption DEF TypeOK, ReleaseFree, States
<1>6. SlotAccounting'
  BY <1>2, <1>4 DEF SlotAccounting
<1>7. QueueConsistent'
  BY DEF TypeOK, QueueConsistent, ReleaseFree
<1>8. NoIdleSlot'
  BY DEF NoIdleSlot, ReleaseFree
<1> QED
  BY <1>5, <1>6, <1>7, <1>8

(* A continuation moves its caller between states charged alike. *)
LEMMA ResumeInv ==
    ASSUME IInv, NEW p \in Proc, Resume(p)
    PROVE  IInv'
<1> USE DEF IInv
<1>1. TypeOK'
  BY DEF TypeOK, Resume, States
<1>2. SlotAccounting'
  <2>1. Holders' = Holders
    BY DEF TypeOK, Resume, Holders
  <2> QED
    BY <2>1 DEF SlotAccounting, Resume
<1>3. QueueConsistent'
  BY DEF TypeOK, QueueConsistent, Resume
<1>4. NoIdleSlot'
  BY DEF NoIdleSlot, Resume
<1> QED
  BY <1>1, <1>2, <1>3, <1>4

(* Stuttering keeps the invariant. *)
LEMMA StutterInv == IInv /\ UNCHANGED vars => IInv'
BY DEF IInv, TypeOK, SlotAccounting, QueueConsistent, NoIdleSlot, Holders, vars

(* Every step keeps the invariant. *)
LEMMA NextInv == IInv /\ [Next]_vars => IInv'
<1> SUFFICES ASSUME IInv, [Next]_vars PROVE IInv'
  OBVIOUS
<1>1. CASE UNCHANGED vars
  BY <1>1, StutterInv
<1>2. CASE Next
  <2> PICK p \in Proc :
        AcquireFree(p) \/ AcquireBusy(p) \/ TimerFires(p) \/ Release(p) \/ Resume(p)
    BY <1>2 DEF Next
  <2> QED
    BY AcquireFreeInv, AcquireBusyInv, TimerFiresInv, ReleaseToWaiterInv,
       ReleaseFreeInv, ResumeInv DEF Release
<1> QED
  BY <1>1, <1>2

(* The whole inductive invariant holds of every behaviour of acquire,      *)
(* release and the timers.                                                 *)
THEOREM Invariance == Spec => []IInv
BY InitInv, NextInv, PTL DEF Spec

-----------------------------------------------------------------------------
(* The type invariant: the counter never leaves 0 .. max. *)
THEOREM TypeCorrect == Spec => []TypeOK
<1>1. IInv => TypeOK
  BY DEF IInv
<1> QED
  BY <1>1, Invariance, PTL

(* The counter is the number of callers that own a slot. *)
THEOREM SlotsAccounted == Spec => []SlotAccounting
<1>1. IInv => SlotAccounting
  BY DEF IInv
<1> QED
  BY <1>1, Invariance, PTL

(* No caller waits while a slot is free. *)
THEOREM NoSlotIdles == Spec => []NoIdleSlot
<1>1. IInv => NoIdleSlot
  BY DEF IInv
<1> QED
  BY <1>1, Invariance, PTL

(* Nobody overtakes the queue: a caller served on arrival found it empty,  *)
(* because a queue means that no slot is free.                             *)
THEOREM NobodyBarges == Spec => NoBarging
<1> DEFINE A == \A p \in Proc : pc[p] = "idle" /\ pc'[p] = "granted" => waiters = <<>>
<1>1. IInv /\ [Next]_vars => [A]_vars
  <2> SUFFICES ASSUME IInv, Next, NEW q \in Proc, pc[q] = "idle", pc'[q] = "granted"
               PROVE  waiters = <<>>
    OBVIOUS
  <2> USE DEF IInv
  <2> PICK p \in Proc :
        AcquireFree(p) \/ AcquireBusy(p) \/ TimerFires(p) \/ Release(p) \/ Resume(p)
    BY DEF Next
  <2>1. CASE AcquireFree(p)
    BY <2>1, MaxAssumption DEF AcquireFree, NoIdleSlot, TypeOK
  <2>2. CASE AcquireBusy(p)
    BY <2>2 DEF AcquireBusy, TypeOK
  <2>3. CASE TimerFires(p)
    BY <2>3 DEF TimerFires, TypeOK
  <2>4. CASE ReleaseToWaiter(p)
    <3>1. 1 \in 1 .. Len(waiters) /\ Head(waiters) = waiters[1] /\ Head(waiters) \in Proc
      BY <2>4 DEF ReleaseToWaiter, TypeOK
    <3>2. pc[Head(waiters)] = "waiting"
      BY <3>1 DEF QueueConsistent
    <3> QED
      BY <2>4, <3>2 DEF ReleaseToWaiter, TypeOK
  <2>5. CASE ReleaseFree(p)
    BY <2>5 DEF ReleaseFree, TypeOK
  <2>6. CASE Resume(p)
    BY <2>6 DEF Resume, TypeOK
  <2> QED
    BY <2>1, <2>2, <2>3, <2>4, <2>5, <2>6 DEF Release
<1> QED
  BY <1>1, Invariance, PTL DEF Spec, NoBarging

-----------------------------------------------------------------------------
(* The semaphore implements the pool of slots: the initial state maps to   *)
(* the empty pool, and every step to Take, Give, Pass or a stutter.        *)
THEOREM Refinement == Spec => ImplementsSlotPool
<1>1. Init => Pool!Init
  BY DEF Init, Pool!Init, Holders
<1>2. IInv /\ [Next]_vars => [Pool!Next]_Holders
  <2> SUFFICES ASSUME IInv, Next PROVE Pool!Next \/ Holders' = Holders
    BY DEF Holders, vars
  <2> USE DEF IInv
  <2> PICK p \in Proc :
        AcquireFree(p) \/ AcquireBusy(p) \/ TimerFires(p) \/ Release(p) \/ Resume(p)
    BY DEF Next
  <2>1. CASE AcquireFree(p)
    <3>1. p \notin Holders /\ Holders' = Holders \cup {p}
      BY <2>1 DEF TypeOK, AcquireFree, Holders
    <3>2. Cardinality(Holders) < max
      BY <2>1 DEF AcquireFree, SlotAccounting
    <3> QED
      BY <3>1, <3>2 DEF Pool!Next, Pool!Take, Pool!Cardinality, Cardinality
  <2>2. CASE AcquireBusy(p)
    BY <2>2 DEF TypeOK, AcquireBusy, Holders
  <2>3. CASE TimerFires(p)
    <3>1. pc[p] = "waiting"
      BY <2>3 DEF TimerFires, QueueConsistent
    <3> QED
      BY <2>3, <3>1 DEF TypeOK, TimerFires, Holders
  <2>4. CASE ReleaseToWaiter(p)
    <3> DEFINE h == Head(waiters)
    <3>1. 1 \in 1 .. Len(waiters) /\ h = waiters[1] /\ h \in Proc
      BY <2>4 DEF ReleaseToWaiter, TypeOK
    <3>2. pc[h] = "waiting" /\ h # p
      BY <2>4, <3>1 DEF QueueConsistent, ReleaseToWaiter
    <3>3. \A q \in Proc : pc'[q] = IF q = h THEN "granted"
                                   ELSE IF q = p THEN "idle" ELSE pc[q]
      BY <2>4, <3>1, <3>2 DEF TypeOK, ReleaseToWaiter
    <3>4. p \in Holders /\ h \notin Holders
      BY <2>4, <3>1, <3>2 DEF ReleaseToWaiter, Holders
    <3>5. Holders' = (Holders \ {p}) \cup {h}
      BY <3>1, <3>2, <3>3 DEF Holders
    <3> HIDE DEF h
    <3>6. Pool!Pass(p, h)
      BY <3>4, <3>5 DEF Pool!Pass
    <3>7. h \in Proc
      BY <3>1
    <3> QED
      BY <3>6, <3>7, Zenon DEF Pool!Next
  <2>5. CASE ReleaseFree(p)
    <3>1. p \in Holders /\ Holders' = Holders \ {p}
      BY <2>5 DEF TypeOK, ReleaseFree, Holders
    <3> QED
      BY <3>1 DEF Pool!Next, Pool!Give
  <2>6. CASE Resume(p)
    BY <2>6 DEF TypeOK, Resume, Holders
  <2> QED
    BY <2>1, <2>2, <2>3, <2>4, <2>5, <2>6 DEF Release
<1> QED
  BY <1>1, <1>2, Invariance, PTL DEF Spec, ImplementsSlotPool, Pool!Spec
=============================================================================
