------------------------ MODULE SandboxRuntimeProofs ------------------------
(***************************************************************************)
(* Proofs about SandboxRuntime for every set of calls and every limit.     *)
(*                                                                         *)
(* The count of slots is right because each slot in use has one owner: a   *)
(* call between its acquisition and its answer, or an active container.    *)
(* The inductive invariant says that running counts these owners, that a   *)
(* queued call owns nothing yet (its slot is handed to it when it leaves   *)
(* the queue), that a container of a call that was not refused is owned,   *)
(* and that only answered containers are being terminated, so that a       *)
(* removal that succeeds gives back a slot that is still counted.          *)
(***************************************************************************)
EXTENDS SandboxRuntime, FiniteSetTheorems, TLAPS

States == {"new"} \cup Pending \cup Answered

(* The calls that own a slot. *)
Owners == {c \in Calls : create[c] \in HoldingSlot} \cup activeContainers

(* A queued call waits, and is queued once. *)
QueueWaits ==
    \A i, j \in 1 .. Len(waiters) :
        /\ create[waiters[i]] = "waiting"
        /\ waiters[i] = waiters[j] => i = j

(* Who owns what, until a shutdown or a restart. *)
Ownership ==
    /\ \A c \in Calls :
           /\ c \in activeContainers => create[c] \in {"inspect", "init", "replied"}
           /\ container[c] \in Exists =>
                  create[c] \in {"starting", "undo", "failed"} \/ c \in activeContainers
    /\ \A t \in Terminators : terminate[t] \in Calls => create[terminate[t]] = "replied"

Books == FirstLife => running = Cardinality(Owners) /\ Ownership

(* The inductive invariant. *)
IInv == TypeOK /\ QueueWaits /\ Books

-----------------------------------------------------------------------------
(* The owners are finitely many. *)
LEMMA OwnersFinite == TypeOK => IsFiniteSet(Owners)
<1> SUFFICES ASSUME TypeOK PROVE IsFiniteSet(Owners)
  OBVIOUS
<1>1. Owners \subseteq Calls
  BY DEF TypeOK, Owners
<1> QED
  BY <1>1, CallsAssumption, FS_Subset

(* What a release does to the queue and to the calls, f being the calls    *)
(* without it: the first waiter, if any, is granted the slot.              *)
LEMMA ReleaseGrants ==
    ASSUME TypeOK, QueueWaits, ReleaseContainerSlot,
           NEW f \in [Calls -> States], create' = Resolved(f),
           \A i \in 1 .. Len(waiters) : f[waiters[i]] = "waiting"
    PROVE  /\ waiters' \in Seq(Calls)
           /\ running' \in 0 .. maxContainers
           /\ create' \in [Calls -> States]
           /\ QueueWaits'
           /\ waiters = <<>> => create' = f
           /\ waiters # <<>> =>
                  /\ Head(waiters) \in Calls
                  /\ create[Head(waiters)] = "waiting"
                  /\ create' = [f EXCEPT ![Head(waiters)] = "granted"]
<1>1. running' \in 0 .. maxContainers
  BY SlotsAssumption DEF TypeOK, ReleaseContainerSlot
<1>2. CASE waiters = <<>>
  BY <1>1, <1>2 DEF TypeOK, ReleaseContainerSlot, Resolved, QueueWaits
<1>3. CASE waiters # <<>>
  <2>1. /\ Len(waiters) \in Nat /\ 1 \in 1 .. Len(waiters)
        /\ Head(waiters) = waiters[1] /\ waiters[1] \in Calls
        /\ waiters' \in Seq(Calls) /\ Len(waiters') = Len(waiters) - 1
        /\ \A i \in 1 .. Len(waiters') : waiters'[i] = waiters[i + 1]
    BY <1>3 DEF TypeOK, ReleaseContainerSlot
  <2>2. create' = [f EXCEPT ![Head(waiters)] = "granted"]
    BY <1>3 DEF Resolved
  <2>3. create' \in [Calls -> States]
    BY <2>1, <2>2 DEF States, Pending, HoldingSlot
  <2>4. ASSUME NEW i \in 1 .. Len(waiters'), NEW j \in 1 .. Len(waiters')
        PROVE  /\ create'[waiters'[i]] = "waiting"
               /\ waiters'[i] = waiters'[j] => i = j
    <3>1. /\ i + 1 \in 1 .. Len(waiters) /\ j + 1 \in 1 .. Len(waiters)
          /\ waiters'[i] = waiters[i + 1] /\ waiters'[j] = waiters[j + 1]
          /\ i + 1 # 1
      BY <2>1
    <3>2. waiters[i + 1] # waiters[1]
      BY <2>1, <3>1 DEF QueueWaits
    <3>3. create'[waiters[i + 1]] = "waiting"
      BY <2>1, <2>2, <3>1, <3>2
    <3> QED
      BY <3>1, <3>3 DEF QueueWaits
  <2>5. create[waiters[1]] = "waiting"
    BY <2>1 DEF QueueWaits
  <2> QED
    BY <1>1, <1>3, <2>1, <2>2, <2>3, <2>4, <2>5 DEF QueueWaits
<1> QED
  BY <1>2, <1>3

(* A release by the owner c keeps the count: c is an owner no more, and    *)
(* the first waiter, which was none, takes its place.                      *)
LEMMA ReleaseCounts ==
    ASSUME TypeOK, QueueWaits, Ownership, running = Cardinality(Owners),
           NEW c \in Owners, ReleaseContainerSlot,
           waiters = <<>> => Owners' = Owners \ {c},
           waiters # <<>> => Owners' = (Owners \ {c}) \cup {Head(waiters)}
    PROVE  running' = Cardinality(Owners')
<1>1. /\ IsFiniteSet(Owners \ {c})
      /\ Cardinality(Owners \ {c}) = Cardinality(Owners) - 1
  BY OwnersFinite, FS_RemoveElement
<1>2. CASE waiters = <<>>
  <2>1. running > 0
    BY <1>1, OwnersFinite, FS_CardinalityType DEF TypeOK
  <2> QED
    BY <1>1, <1>2, <2>1 DEF ReleaseContainerSlot
<1>3. CASE waiters # <<>>
  <2>1. Head(waiters) = waiters[1] /\ 1 \in 1 .. Len(waiters) /\ waiters[1] \in Calls
    BY <1>3 DEF TypeOK
  <2>2. create[Head(waiters)] = "waiting"
    BY <2>1 DEF QueueWaits
  <2>3. Head(waiters) \notin Owners
    BY <2>1, <2>2 DEF Owners, Ownership, HoldingSlot
  <2>4. Cardinality(Owners') = Cardinality(Owners \ {c}) + 1
    BY <1>1, <1>3, <2>3, FS_AddElement
  <2> QED
    BY <1>1, <1>3, <2>4 DEF ReleaseContainerSlot, TypeOK
<1> QED
  BY <1>2, <1>3

(* A step of one call that leaves the slots, the queue and the terminators *)
(* alone keeps the invariant if the call was not queued, if it stays an    *)
(* owner, and if what it says of its container is true.                    *)
LEMMA OwnStep ==
    ASSUME IInv, NEW c \in Calls, NEW s \in States,
           create[c] # "waiting", s # "waiting", create[c] # "replied",
           create' = [create EXCEPT ![c] = s],
           TypeOK', UNCHANGED <<slots, service, terminate>>,
           \A d \in Calls \ {c} : container'[d] = container[d],
           \A d \in Calls \ {c} : d \in activeContainers' <=> d \in activeContainers,
           FirstLife => (c \in Owners <=> c \in Owners'),
           FirstLife => (c \in activeContainers' => s \in {"inspect", "init", "replied"}),
           FirstLife => (container'[c] \in Exists =>
                            s \in {"starting", "undo", "failed"} \/ c \in activeContainers')
    PROVE  IInv'
<1>1. QueueWaits'
  <2>1. \A i \in 1 .. Len(waiters) : waiters[i] \in Calls
    BY DEF IInv, TypeOK
  <2> QED
    BY <2>1 DEF IInv, TypeOK, QueueWaits, slots
<1>2. Books'
  <2> SUFFICES ASSUME FirstLife' PROVE running' = Cardinality(Owners') /\ Ownership'
    BY DEF Books
  <2>1. FirstLife
    BY DEF FirstLife, service
  <2>2. running = Cardinality(Owners) /\ Ownership
    BY <2>1 DEF IInv, Books
  <2>3. \A d \in Calls \ {c} : create'[d] = create[d]
    BY DEF IInv, TypeOK
  <2>4. \A d \in Calls \ {c} : d \in Owners <=> d \in Owners'
    BY <2>3 DEF Owners
  <2>5. Owners \subseteq Calls /\ Owners' \subseteq Calls
    BY DEF IInv, TypeOK, Owners
  <2>6. Owners' = Owners
    BY <2>1, <2>4, <2>5
  <2>7. create'[c] = s
    BY DEF IInv, TypeOK
  <2>8. Ownership'
    BY <2>1, <2>2, <2>3, <2>7 DEF Ownership
  <2> QED
    BY <2>2, <2>6, <2>8 DEF slots
<1> QED
  BY <1>1, <1>2 DEF IInv

(* An answer with an error gives the slot back: the call owned it, and its *)
(* container, if there is one, is not owned by anybody any more.           *)
LEMMA GiveUpInv ==
    ASSUME IInv, NEW c \in Calls, create[c] \in {"granted", "creating", "undo"},
           GiveUp(c), container' \in [Calls -> {"absent", "removed"} \cup Exists],
           \A d \in Calls \ {c} : container'[d] = container[d]
    PROVE  IInv'
<1> DEFINE f == [create EXCEPT ![c] = "failed"]
<1>1. f \in [Calls -> States]
  BY DEF IInv, TypeOK, States, Answered
<1>2. \A i \in 1 .. Len(waiters) : waiters[i] \in Calls /\ f[waiters[i]] = "waiting"
  BY DEF IInv, TypeOK, QueueWaits
<1>3. create' = Resolved(f) /\ ReleaseContainerSlot
  BY DEF GiveUp
<1> HIDE DEF f
<1>4. /\ waiters' \in Seq(Calls)
      /\ running' \in 0 .. maxContainers
      /\ create' \in [Calls -> States]
      /\ QueueWaits'
      /\ waiters = <<>> => create' = f
      /\ waiters # <<>> =>
             /\ Head(waiters) \in Calls
             /\ create[Head(waiters)] = "waiting"
             /\ create' = [f EXCEPT ![Head(waiters)] = "granted"]
  BY <1>1, <1>2, <1>3, ReleaseGrants DEF IInv
<1>5. TypeOK'
  BY <1>4 DEF IInv, TypeOK, GiveUp, States, service
<1>6. f[c] = "failed" /\ \A d \in Calls \ {c} : f[d] = create[d]
  BY DEF f, IInv, TypeOK
<1>7. Books'
  <2> SUFFICES ASSUME FirstLife' PROVE running' = Cardinality(Owners') /\ Ownership'
    BY DEF Books
  <2>1. FirstLife
    BY DEF FirstLife, service, GiveUp
  <2>2. running = Cardinality(Owners) /\ Ownership
    BY <2>1 DEF IInv, Books
  <2>3. c \in Owners /\ c \notin activeContainers
    BY <2>2 DEF Owners, Ownership, HoldingSlot
  <2>4. activeContainers' = activeContainers /\ activeContainers \subseteq Calls
    BY DEF GiveUp, IInv, TypeOK
  <2>5. waiters = <<>> => Owners' = Owners \ {c}
    BY <1>1, <1>4, <1>6, <2>3, <2>4 DEF Owners, HoldingSlot
  <2>6. waiters # <<>> => Owners' = (Owners \ {c}) \cup {Head(waiters)}
    BY <1>1, <1>4, <1>6, <2>3, <2>4 DEF Owners, HoldingSlot
  <2>7. running' = Cardinality(Owners')
    BY <1>3, <2>2, <2>3, <2>5, <2>6, ReleaseCounts DEF IInv
  <2>8. /\ create'[c] = "failed"
        /\ \A d \in Calls : create[d] \notin {"waiting"} /\ d # c => create'[d] = create[d]
    BY <1>1, <1>4, <1>6
  <2>9. ASSUME NEW d \in Calls
        PROVE  /\ d \in activeContainers' => create'[d] \in {"inspect", "init", "replied"}
               /\ container'[d] \in Exists =>
                      create'[d] \in {"starting", "undo", "failed"} \/ d \in activeContainers'
    BY <2>2, <2>3, <2>4, <2>8 DEF Ownership
  <2>10. ASSUME NEW t \in Terminators, terminate'[t] \in Calls
         PROVE  create'[terminate'[t]] = "replied"
    BY <2>2, <2>8, <2>10 DEF Ownership, GiveUp
  <2> QED
    BY <2>7, <2>9, <2>10 DEF Ownership
<1> QED
  BY <1>4, <1>5, <1>7 DEF IInv

-----------------------------------------------------------------------------
(* Initially nobody owns a slot. *)
LEMMA InitInv == Init => IInv
<1> SUFFICES ASSUME Init PROVE IInv
  OBVIOUS
<1>1. TypeOK
  BY SlotsAssumption, RestartsAssumption DEF Init, TypeOK
<1>2. QueueWaits
  BY DEF Init, QueueWaits
<1>3. Owners = {} /\ Cardinality({}) = 0
  BY FS_EmptySet DEF Init, Owners, HoldingSlot
<1>4. Ownership
  BY CallsAssumption DEF Init, Ownership, Exists, Idle
<1> QED
  BY <1>1, <1>2, <1>3, <1>4 DEF IInv, Books, Init

(* A call that finds a free slot owns it; one that does not is queued. *)
LEMMA AcquireInv ==
    ASSUME IInv, NEW c \in Calls, Acquire(c)
    PROVE  IInv'
<1>1. TypeOK'
  BY SlotsAssumption DEF IInv, TypeOK, Acquire, service, Pending, HoldingSlot
<1>2. \A d \in Calls : d # c => create'[d] = create[d]
  BY DEF IInv, TypeOK, Acquire
<1>3. FirstLife' => FirstLife /\ running = Cardinality(Owners) /\ Ownership
  BY DEF FirstLife, Acquire, service, IInv, Books
<1>4. Ownership => c \notin Owners
  BY DEF Ownership, Owners, HoldingSlot, Acquire
<1>5. Ownership => Ownership'
  <2> SUFFICES ASSUME Ownership PROVE Ownership'
    OBVIOUS
  <2>1. c \notin activeContainers /\ container[c] \notin Exists
    BY DEF Acquire, Ownership
  <2>2. \A d \in Calls : create[d] = "replied" => create'[d] = "replied"
    BY <1>2 DEF Acquire
  <2> QED
    BY <1>2, <2>1, <2>2 DEF Ownership, Acquire
<1>6. CASE create'[c] = "granted" /\ UNCHANGED waiters /\ running' = running + 1
  <2>1. QueueWaits'
    BY <1>2, <1>6 DEF QueueWaits, IInv, TypeOK, Acquire
  <2>2. Owners' = Owners \cup {c}
    BY <1>2, <1>6 DEF Owners, HoldingSlot, Acquire, IInv, TypeOK
  <2>3. Ownership => Cardinality(Owners') = Cardinality(Owners) + 1
    BY <1>4, <2>2, OwnersFinite, FS_AddElement DEF IInv
  <2> QED
    BY <1>1, <1>3, <1>5, <1>6, <2>1, <2>3 DEF IInv, Books
<1>7. CASE create'[c] = "waiting" /\ waiters' = Append(waiters, c) /\ UNCHANGED running
  <2>1. QueueWaits'
    <3>1. /\ Len(waiters) \in Nat /\ Len(waiters') = Len(waiters) + 1
          /\ waiters'[Len(waiters) + 1] = c
          /\ \A i \in 1 .. Len(waiters) : waiters'[i] = waiters[i] /\ waiters[i] \in Calls
      BY <1>7 DEF IInv, TypeOK
    <3>2. \A i \in 1 .. Len(waiters) : waiters[i] # c
      BY DEF IInv, QueueWaits, Acquire
    <3> QED
      BY <1>2, <1>7, <3>1, <3>2 DEF IInv, QueueWaits
  <2>2. Owners' = Owners
    BY <1>2, <1>7 DEF Owners, HoldingSlot, Acquire, IInv, TypeOK
  <2> QED
    BY <1>1, <1>3, <1>5, <1>7, <2>1, <2>2 DEF IInv, Books
<1> QED
  BY <1>6, <1>7 DEF Acquire, IInv, TypeOK

(* A timer takes its call out of the queue; no slot moves. *)
LEMMA WaiterTimeoutInv ==
    ASSUME IInv, NEW c \in Calls, WaiterTimeout(c)
    PROVE  IInv'
<1>1. PICK i \in 1 .. Len(waiters) : waiters[i] = c /\ waiters' = Spliced(i)
  BY DEF WaiterTimeout
<1>2. Len(waiters) \in Nat /\ \A j \in 1 .. Len(waiters) : waiters[j] \in Calls
  BY DEF IInv, TypeOK
<1>3. /\ waiters' \in Seq(Calls) /\ Len(waiters') = Len(waiters) - 1
      /\ \A j \in 1 .. Len(waiters) - 1 :
             waiters'[j] = waiters[IF j < i THEN j ELSE j + 1]
  <2> DEFINE n == Len(waiters) - 1
             e(j) == waiters[IF j < i THEN j ELSE j + 1]
             t == [j \in 1 .. n |-> e(j)]
  <2>1. n \in Nat
    BY <1>2
  <2>2. \A j \in 1 .. n : e(j) \in Calls
    BY <1>2
  <2> HIDE DEF n, e
  <2>3. t \in [1 .. n -> Calls]
    BY <2>2
  <2>4. t \in Seq(Calls) /\ Len(t) = n /\ \A j \in 1 .. n : t[j] = e(j)
    BY <2>1, <2>3
  <2> USE DEF n, e
  <2> QED
    BY <1>1, <2>4 DEF Spliced
<1>4. create[c] = "waiting"
  BY <1>1 DEF IInv, QueueWaits
<1>5. /\ create'[c] = "failed"
      /\ \A d \in Calls : d # c => create'[d] = create[d]
  BY DEF IInv, TypeOK, WaiterTimeout
<1>6. TypeOK'
  BY <1>3 DEF IInv, TypeOK, WaiterTimeout, service, Answered
<1>7. QueueWaits'
  <2> DEFINE old(j) == IF j < i THEN j ELSE j + 1
  <2> SUFFICES ASSUME NEW j \in 1 .. Len(waiters'), NEW k \in 1 .. Len(waiters')
               PROVE  /\ create'[waiters'[j]] = "waiting"
                      /\ waiters'[j] = waiters'[k] => j = k
    BY DEF QueueWaits
  <2>1. /\ old(j) \in 1 .. Len(waiters) /\ old(j) # i
        /\ old(k) \in 1 .. Len(waiters)
        /\ old(j) = old(k) => j = k
    BY <1>2, <1>3
  <2>5. waiters'[j] = waiters[old(j)] /\ waiters'[k] = waiters[old(k)]
    BY <1>2, <1>3
  <2> HIDE DEF old
  <2>2. waiters[old(j)] # c /\ create[waiters[old(j)]] = "waiting"
    BY <1>1, <2>1 DEF IInv, QueueWaits
  <2>3. create'[waiters'[j]] = "waiting"
    BY <1>2, <1>5, <2>1, <2>2, <2>5
  <2>4. waiters'[j] = waiters'[k] => j = k
    BY <2>1, <2>5 DEF IInv, QueueWaits
  <2> QED
    BY <2>3, <2>4
<1>8. Books'
  <2> SUFFICES ASSUME FirstLife' PROVE running' = Cardinality(Owners') /\ Ownership'
    BY DEF Books
  <2>1. running = Cardinality(Owners) /\ Ownership
    BY DEF FirstLife, service, WaiterTimeout, IInv, Books
  <2>2. Owners' = Owners
    BY <1>4, <1>5 DEF Owners, HoldingSlot, WaiterTimeout
  <2>3. Ownership'
    BY <1>4, <1>5, <2>1 DEF Ownership, WaiterTimeout
  <2> QED
    BY <2>1, <2>2, <2>3 DEF WaiterTimeout
<1> QED
  BY <1>6, <1>7, <1>8 DEF IInv

-----------------------------------------------------------------------------
(* createSandbox between two awaits: the call owns its slot, then its      *)
(* container does.                                                         *)
LEMMA CheckImageInv ==
    ASSUME IInv, NEW c \in Calls, CheckImage(c)
    PROVE  IInv'
<1>1. create[c] = "granted"
  BY DEF CheckImage
<1>2. CASE GiveUp(c)
  <2>1. container' \in [Calls -> {"absent", "removed"} \cup Exists]
    BY DEF CheckImage, IInv, TypeOK
  <2> QED
    BY <1>1, <1>2, <2>1, GiveUpInv DEF CheckImage
<1>3. CASE ~GiveUp(c)
  <2>1. /\ create' = [create EXCEPT ![c] = "creating"]
        /\ UNCHANGED <<slots, service, terminate, activeContainers, sandboxNamespaces, container>>
    BY <1>3 DEF CheckImage
  <2>2. TypeOK'
    BY <2>1 DEF IInv, TypeOK, slots, service, Pending, HoldingSlot
  <2>3. create'[c] = "creating" /\ "creating" \in States
    BY <2>1 DEF IInv, TypeOK, States, Pending, HoldingSlot
  <2>4. FirstLife => (c \in Owners <=> c \in Owners')
    BY <1>1, <2>1, <2>3 DEF Owners, HoldingSlot
  <2>5. FirstLife => c \notin activeContainers /\ container[c] \notin Exists
    BY <1>1 DEF IInv, Books, Ownership
  <2> QED
    BY <1>1, <2>1, <2>2, <2>3, <2>4, <2>5, OwnStep
<1> QED
  BY <1>2, <1>3

LEMMA ContainerCreatedInv ==
    ASSUME IInv, NEW c \in Calls, ContainerCreated(c)
    PROVE  IInv'
<1>1. TypeOK'
  BY DEF IInv, TypeOK, ContainerCreated, slots, service, Pending, HoldingSlot, Exists
<1>2. create'[c] = "starting" /\ "starting" \in States
  BY DEF ContainerCreated, IInv, TypeOK, States, Pending, HoldingSlot
<1>3. FirstLife => (c \in Owners <=> c \in Owners')
  BY <1>2 DEF ContainerCreated, Owners, HoldingSlot
<1>4. FirstLife => c \notin activeContainers
  BY DEF ContainerCreated, IInv, Books, Ownership
<1>5. \A d \in Calls \ {c} : container'[d] = container[d]
  BY DEF ContainerCreated, IInv, TypeOK
<1>6. /\ create[c] = "creating" /\ create' = [create EXCEPT ![c] = "starting"]
      /\ UNCHANGED <<slots, service, terminate, activeContainers>>
  BY DEF ContainerCreated
<1> QED
  BY <1>1, <1>2, <1>3, <1>4, <1>5, <1>6, OwnStep

LEMMA CreateContainerFailsInv ==
    ASSUME IInv, NEW c \in Calls, CreateContainerFails(c)
    PROVE  IInv'
<1>1. container' \in [Calls -> {"absent", "removed"} \cup Exists]
  BY DEF CreateContainerFails, IInv, TypeOK, Exists
<1>2. \A d \in Calls \ {c} : container'[d] = container[d]
  BY DEF CreateContainerFails, IInv, TypeOK
<1> QED
  BY <1>1, <1>2, GiveUpInv DEF CreateContainerFails

LEMMA ContainerStartedInv ==
    ASSUME IInv, NEW c \in Calls, ContainerStarted(c)
    PROVE  IInv'
<1>1. TypeOK'
  BY DEF IInv, TypeOK, ContainerStarted, slots, service, Pending, Exists
<1>2. create'[c] = "inspect" /\ "inspect" \in States
  BY DEF ContainerStarted, IInv, TypeOK, States, Pending
<1>3. FirstLife => (c \in Owners <=> c \in Owners')
  BY <1>2 DEF ContainerStarted, Owners, HoldingSlot
<1>4. \A d \in Calls \ {c} : container'[d] = container[d]
  BY DEF ContainerStarted, IInv, TypeOK
<1>5. \A d \in Calls \ {c} : d \in activeContainers' <=> d \in activeContainers
  BY DEF ContainerStarted
<1>6. /\ create[c] = "starting" /\ create' = [create EXCEPT ![c] = "inspect"]
      /\ UNCHANGED <<slots, service, terminate>>
      /\ c \in activeContainers'
  BY DEF ContainerStarted
<1> QED
  BY <1>1, <1>2, <1>3, <1>4, <1>5, <1>6, OwnStep

LEMMA StartFailsInv ==
    ASSUME IInv, NEW c \in Calls, StartFails(c)
    PROVE  IInv'
<1>1. TypeOK'
  BY DEF IInv, TypeOK, StartFails, slots, service, Pending, HoldingSlot, Exists
<1>2. create'[c] = "undo" /\ "undo" \in States
  BY DEF StartFails, IInv, TypeOK, States, Pending, HoldingSlot
<1>3. FirstLife => (c \in Owners <=> c \in Owners')
  BY <1>2 DEF StartFails, Owners, HoldingSlot
<1>4. FirstLife => c \notin activeContainers
  BY DEF StartFails, IInv, Books, Ownership
<1>5. \A d \in Calls \ {c} : container'[d] = container[d]
  BY DEF StartFails, IInv, TypeOK
<1>6. /\ create[c] = "starting" /\ create' = [create EXCEPT ![c] = "undo"]
      /\ UNCHANGED <<slots, service, terminate, activeContainers>>
  BY DEF StartFails
<1> QED
  BY <1>1, <1>2, <1>3, <1>4, <1>5, <1>6, OwnStep

LEMMA UndoInv ==
    ASSUME IInv, NEW c \in Calls, Undo(c)
    PROVE  IInv'
<1>1. container' \in [Calls -> {"absent", "removed"} \cup Exists]
  BY DEF Undo, IInv, TypeOK
<1>2. \A d \in Calls \ {c} : container'[d] = container[d]
  BY DEF Undo, IInv, TypeOK
<1> QED
  BY <1>1, <1>2, GiveUpInv DEF Undo

(* The call goes from an active container to the next stage of one. *)
LEMMA ServedInv ==
    ASSUME IInv, NEW c \in Calls, Inspected(c) \/ InitDone(c)
    PROVE  IInv'
<1> DEFINE s == create'[c]
<1>1. /\ create[c] \in {"inspect", "init"} /\ s \in {"init", "replied"}
      /\ create' = [create EXCEPT ![c] = s]
      /\ UNCHANGED <<slots, service, terminate, activeContainers, container>>
  BY DEF Inspected, InitDone, CreateSandbox, IInv, TypeOK
<1>2. TypeOK'
  BY DEF IInv, TypeOK, Inspected, InitDone, CreateSandbox, slots, service, Pending, Answered
<1>3. s \in States
  BY <1>1 DEF States, Pending, Answered
<1>4. FirstLife => (c \in Owners <=> c \in Owners')
  BY <1>1 DEF Owners, HoldingSlot
<1>5. FirstLife => (container[c] \in Exists => c \in activeContainers)
  BY <1>1 DEF IInv, Books, Ownership
<1> HIDE DEF s
<1> QED
  BY <1>1, <1>2, <1>3, <1>4, <1>5, OwnStep

-----------------------------------------------------------------------------
(* Terminations.  Only an answered container is asked for. *)
LEMMA TerminateInv ==
    ASSUME IInv, NEW t \in Terminators, NEW c \in Calls, Terminate(t, c)
    PROVE  IInv'
<1>1. TypeOK'
  BY DEF IInv, TypeOK, Terminate, slots, service
<1>2. QueueWaits'
  BY DEF IInv, QueueWaits, Terminate, slots
<1>3. Owners' = Owners
  BY DEF Owners, Terminate
<1>4. Ownership => Ownership'
  <2>1. \A u \in Terminators : terminate'[u] \in {terminate[u], c, Done}
    BY DEF IInv, TypeOK, Terminate
  <2>2. create[c] = "replied" /\ Done \notin Calls
    BY CallsAssumption DEF Terminate, Done
  <2> QED
    BY <2>1, <2>2 DEF Ownership, Terminate
<1> QED
  BY <1>1, <1>2, <1>3, <1>4 DEF IInv, Books, FirstLife, Terminate, service, slots

(* A removal that succeeds: the container owned a slot, because a          *)
(* container that exists and whose call was answered is an active one.     *)
LEMMA RemovedInv ==
    ASSUME IInv, NEW t \in Terminators, Removed(t)
    PROVE  IInv'
<1> DEFINE c == terminate[t]
<1>1. /\ c \in Calls /\ container[c] \in Exists
      /\ container' = [container EXCEPT ![c] = "removed"]
      /\ activeContainers' = activeContainers \ {c}
      /\ sandboxNamespaces' = sandboxNamespaces \ {c}
      /\ terminate' = [terminate EXCEPT ![t] = Done]
      /\ ReleaseContainerSlot /\ create' = Resolved(create) /\ UNCHANGED service
  BY DEF Removed
<1>2. /\ create \in [Calls -> States]
      /\ \A i \in 1 .. Len(waiters) : create[waiters[i]] = "waiting"
  BY DEF IInv, TypeOK, States, QueueWaits
<1>3. /\ waiters' \in Seq(Calls)
      /\ running' \in 0 .. maxContainers
      /\ create' \in [Calls -> States]
      /\ QueueWaits'
      /\ waiters = <<>> => create' = create
      /\ waiters # <<>> =>
             /\ Head(waiters) \in Calls
             /\ create[Head(waiters)] = "waiting"
             /\ create' = [create EXCEPT ![Head(waiters)] = "granted"]
  BY <1>1, <1>2, ReleaseGrants DEF IInv
<1> HIDE DEF c
<1>4. TypeOK'
  BY <1>1, <1>3 DEF IInv, TypeOK, States, service, Done
<1>5. Books'
  <2> SUFFICES ASSUME FirstLife' PROVE running' = Cardinality(Owners') /\ Ownership'
    BY DEF Books
  <2>1. running = Cardinality(Owners) /\ Ownership
    BY <1>1 DEF FirstLife, service, IInv, Books
  <2>2. create[c] = "replied"
    BY <1>1, <2>1 DEF Ownership, c
  <2>3. c \in activeContainers /\ c \in Owners
    BY <1>1, <2>1, <2>2 DEF Ownership, Owners
  <2>4. \A d \in Calls : create[d] # "waiting" => create'[d] = create[d]
    BY <1>2, <1>3
  <2>5. waiters = <<>> => Owners' = Owners \ {c}
    BY <1>1, <1>3, <2>2 DEF Owners, HoldingSlot
  <2>6. waiters # <<>> => Owners' = (Owners \ {c}) \cup {Head(waiters)}
    BY <1>1, <1>2, <1>3, <2>2 DEF Owners, HoldingSlot
  <2>7. running' = Cardinality(Owners')
    BY <1>1, <2>1, <2>3, <2>5, <2>6, ReleaseCounts DEF IInv
  <2>8. ASSUME NEW d \in Calls
        PROVE  /\ d \in activeContainers' => create'[d] \in {"inspect", "init", "replied"}
               /\ container'[d] \in Exists =>
                      create'[d] \in {"starting", "undo", "failed"} \/ d \in activeContainers'
    <3>1. CASE d = c
      BY <1>1, <3>1 DEF IInv, TypeOK, Exists
    <3>2. CASE d # c
      <4>1. container'[d] = container[d] /\ (d \in activeContainers' <=> d \in activeContainers)
        BY <1>1, <3>2 DEF IInv, TypeOK
      <4> QED
        BY <2>1, <2>4, <4>1 DEF Ownership
    <3> QED
      BY <3>1, <3>2
  <2>9. ASSUME NEW u \in Terminators, terminate'[u] \in Calls
        PROVE  create'[terminate'[u]] = "replied"
    <3>1. terminate'[u] = terminate[u]
      BY <1>1, <2>9, CallsAssumption DEF IInv, TypeOK, Done
    <3> QED
      BY <2>1, <2>4, <2>9, <3>1 DEF Ownership
  <2> QED
    BY <2>7, <2>8, <2>9 DEF Ownership
<1> QED
  BY <1>3, <1>4, <1>5 DEF IInv

(* A removal that is refused moves no slot. *)
LEMMA RemoveFailsInv ==
    ASSUME IInv, NEW t \in Terminators, RemoveFails(t)
    PROVE  IInv'
<1>1. TypeOK'
  BY DEF IInv, TypeOK, RemoveFails, slots, service, Exists
<1>2. QueueWaits'
  BY DEF IInv, QueueWaits, RemoveFails, slots
<1>3. Owners' = Owners
  BY DEF Owners, RemoveFails
<1>4. Ownership => Ownership'
  <2>1. \A d \in Calls : container'[d] \in Exists => container[d] \in Exists
    BY DEF IInv, TypeOK, RemoveFails, Exists
  <2>2. \A u \in Terminators : terminate'[u] \in Calls => terminate'[u] = terminate[u]
    BY CallsAssumption DEF IInv, TypeOK, RemoveFails, Done
  <2> QED
    BY <2>1, <2>2 DEF Ownership, RemoveFails
<1> QED
  BY <1>1, <1>2, <1>3, <1>4 DEF IInv, Books, FirstLife, RemoveFails, service, slots

(* Shutdown and restart end the first life; the queue stays in order. *)
LEMMA CleanupInv ==
    ASSUME IInv, NEW c \in Calls, CleanupOne(c)
    PROVE  IInv'
<1>1. /\ create \in [Calls -> States]
      /\ \A i \in 1 .. Len(waiters) : create[waiters[i]] = "waiting"
  BY DEF IInv, TypeOK, States, QueueWaits
<1>2. waiters' \in Seq(Calls) /\ running' \in 0 .. maxContainers
      /\ create' \in [Calls -> States] /\ QueueWaits'
  BY <1>1, ReleaseGrants DEF IInv, CleanupOne
<1>3. TypeOK'
  BY <1>2 DEF IInv, TypeOK, CleanupOne, States
<1>4. ~FirstLife'
  BY DEF CleanupOne, FirstLife
<1> QED
  BY <1>2, <1>3, <1>4 DEF IInv, Books

LEMMA ProcessInv ==
    ASSUME IInv, Shutdown \/ Exit \/ Restart
    PROVE  IInv'
<1>1. TypeOK'
  <2>1. CASE Shutdown
    BY <2>1 DEF IInv, TypeOK, Shutdown, slots
  <2>2. CASE Exit
    BY <2>2 DEF IInv, TypeOK, Exit, slots
  <2>3. CASE Restart
    BY <2>3, SlotsAssumption, RestartsAssumption DEF IInv, TypeOK, Restart, Answered, Done
  <2> QED
    BY <2>1, <2>2, <2>3
<1>2. QueueWaits'
  BY DEF IInv, QueueWaits, Shutdown, Exit, Restart, slots
<1>3. ~FirstLife'
  BY RestartsAssumption DEF IInv, TypeOK, FirstLife, Shutdown, Exit, Restart
<1> QED
  BY <1>1, <1>2, <1>3 DEF IInv, Books

-----------------------------------------------------------------------------
(* Every step keeps the invariant. *)
LEMMA NextInv == IInv /\ [Next]_vars => IInv'
<1> SUFFICES ASSUME IInv, [Next]_vars PROVE IInv'
  OBVIOUS
<1>1. ASSUME NEW c \in Calls, Acquire(c) \/ CreateStep(c) \/ CleanupOne(c)
      PROVE  IInv'
  BY <1>1, AcquireInv, WaiterTimeoutInv, CheckImageInv, ContainerCreatedInv,
     CreateContainerFailsInv, ContainerStartedInv, StartFailsInv, UndoInv, ServedInv,
     CleanupInv DEF CreateStep
<1>2. ASSUME NEW t \in Terminators,
             Removed(t) \/ RemoveFails(t) \/ \E c \in Calls : Terminate(t, c)
      PROVE  IInv'
  BY <1>2, RemovedInv, RemoveFailsInv, TerminateInv
<1>3. CASE UNCHANGED vars
  BY <1>3 DEF vars, slots, service, IInv, TypeOK, QueueWaits, Books, FirstLife, Owners, Ownership
<1> QED
  BY <1>1, <1>2, <1>3, ProcessInv DEF Next

(* The inductive invariant holds in every reachable state. *)
THEOREM Invariance == Spec => []IInv
BY InitInv, NextInv, PTL DEF Spec

(* The owners are the calls being served and the active containers, and no *)
(* call is both, so that running is the sum of the two.                    *)
LEMMA BooksBalance == IInv => SlotsAccounted
<1> SUFFICES ASSUME IInv, FirstLife
             PROVE  running = Cardinality({c \in Calls : create[c] \in HoldingSlot})
                              + Cardinality(activeContainers)
  BY DEF SlotsAccounted
<1> DEFINE H == {c \in Calls : create[c] \in HoldingSlot}
<1>1. IsFiniteSet(H) /\ IsFiniteSet(activeContainers)
  BY CallsAssumption, FS_Subset DEF IInv, TypeOK
<1>2. H \cap activeContainers = {}
  BY DEF IInv, Books, Ownership, HoldingSlot
<1>3. Cardinality(H \cup activeContainers)
          = Cardinality(H) + Cardinality(activeContainers) - Cardinality(H \cap activeContainers)
  BY <1>1, FS_Union
<1>4. Cardinality(H \cap activeContainers) = 0
  BY <1>2, FS_EmptySet
<1>5. Cardinality(H) \in Nat /\ Cardinality(activeContainers) \in Nat
  BY <1>1, FS_CardinalityType
<1>6. running = Cardinality(H \cup activeContainers)
  BY DEF IInv, Books, Owners
<1> QED
  BY <1>3, <1>4, <1>5, <1>6

(* A container that runs and whose call was not refused has an owner, so   *)
(* there are no more of them than slots.                                   *)
LEMMA OwnersBoundLive == IInv => WithinLimit
<1> SUFFICES ASSUME IInv, FirstLife PROVE Cardinality(Live) <= maxContainers
  BY DEF WithinLimit
<1>1. Live \subseteq Owners
  BY DEF Live, IInv, Books, Ownership, Owners, HoldingSlot, Exists
<1>2. IsFiniteSet(Owners) /\ Cardinality(Live) <= Cardinality(Owners)
  BY <1>1, OwnersFinite, FS_Subset DEF IInv
<1>3. Cardinality(Owners) <= maxContainers
  BY SlotsAssumption DEF IInv, Books, TypeOK
<1>4. Cardinality(Live) \in Nat /\ Cardinality(Owners) \in Nat
  BY <1>1, <1>2, FS_Subset, FS_CardinalityType
<1> QED
  BY <1>2, <1>3, <1>4, SlotsAssumption

(* The container limit, in the books and in the daemon: every slot in use  *)
(* belongs to one call being served or one active container, whatever      *)
(* fails on the way, and no more than maxContainers containers run until a *)
(* shutdown or a restart.                                                  *)
THEOREM LimitKept == Spec => []LimitHolds
<1>1. IInv => LimitHolds
  BY BooksBalance, OwnersBoundLive DEF LimitHolds, IInv
<1> QED
  BY <1>1, Invariance, PTL
=============================================================================
