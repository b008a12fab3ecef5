--------------------------- MODULE SandboxRuntime ---------------------------
(***************************************************************************)
(* The sandbox runtime: the CreateSandbox and TerminateSandbox handlers    *)
(* (sandbox-runtime, index.ts) over DockerSandboxDriver (docker-driver.ts) *)
(* and the Docker daemon.                                                  *)
(*                                                                         *)
(* Each CreateSandbox call takes a container slot, waiting five seconds    *)
(* for one at most, and then awaits the daemon several times; the slot     *)
(* stays with the container until it is terminated.  Calls interleave at   *)
(* every await, with each other, with terminations and with the cleanup    *)
(* loop of a shutdown.  Slots, active containers and owners are in memory  *)
(* and a restart forgets them; the containers themselves survive it.       *)
(*                                                                         *)
(* A container is named by the call that created it.  A daemon request can *)
(* fail with or without having had its effect.                             *)
(***************************************************************************)
EXTENDS Integers, Sequences, FiniteSets

CONSTANTS
    Calls,          \* CreateSandbox calls
    Execution,      \* the execution_id of each, which names its container
    Namespace,      \* the namespace of each caller
    Terminators,    \* TerminateSandbox calls
    TNamespace,     \* the namespace of each of their callers
    maxContainers,
    MaxRestarts     \* bound: restarts of the service

ASSUME CallsAssumption ==
    IsFiniteSet(Calls) /\ IsFiniteSet(Terminators) /\ {"idle", "done"} \cap Calls = {}
ASSUME SlotsAssumption == maxContainers \in Nat \ {0}
ASSUME RestartsAssumption == MaxRestarts \in Nat

VARIABLES
    create,             \* where each CreateSandbox call is
    terminate,          \* where each TerminateSandbox call is
    running,            \* running.current
    waiters,            \* the calls waiting for a slot
    activeContainers,
    sandboxNamespaces,  \* the containers whose owner is known
    process,            \* "up", "cleaning" (cleanup loop), "closing" (tryShutdown), "exited"
    cleanupIds,         \* what the cleanup loop still has to remove
    restarts,
    container           \* the daemon's view of the container of each call

slots == <<running, waiters>>
service == <<process, cleanupIds, restarts>>
vars == <<create, terminate, slots, activeContainers, sandboxNamespaces, service,
          container>>

(* "granted": holds a slot, the image is not checked yet; the next three   *)
(* await createContainer, start and the removal after a failed start; the  *)
(* container of one in "inspect" or "init" is active: inspect, and the     *)
(* init commands.                                                          *)
HoldingSlot == {"granted", "creating", "starting", "undo"}
Pending == {"waiting", "inspect", "init"} \cup HoldingSlot
Answered == {"replied", "failed", "lost"}
Exists == {"created", "running"}
Idle == "idle"
Done == "done"

Init ==
    /\ create = [c \in Calls |-> "new"]
    /\ terminate = [t \in Terminators |-> Idle]
    /\ running = 0
    /\ waiters = <<>>
    /\ activeContainers = {}
    /\ sandboxNamespaces = {}
    /\ process = "up"
    /\ cleanupIds = {}
    /\ restarts = 0
    /\ container = [c \in Calls |-> "absent"]

(***************************************************************************)
(* The container slots.                                                    *)
(***************************************************************************)
(* The first waiter inherits the slot; without waiters it is freed. *)
ReleaseContainerSlot ==
    /\ waiters' = IF waiters = <<>> THEN waiters ELSE Tail(waiters)
    /\ running' = IF waiters = <<>> /\ running > 0 THEN running - 1 ELSE running

(* The calls of f once releaseContainerSlot has resolved the first waiter. *)
Resolved(f) == IF waiters = <<>> THEN f ELSE [f EXCEPT ![Head(waiters)] = "granted"]

(* acquireContainerSlot(5000): a slot at once, or a place in the queue. *)
Acquire(c) ==
    /\ process \in {"up", "cleaning"}
    /\ create[c] = "new"
    /\ \/ /\ running < maxContainers
          /\ running' = running + 1
          /\ create' = [create EXCEPT ![c] = "granted"]
          /\ UNCHANGED waiters
       \/ /\ running >= maxContainers
          /\ waiters' = Append(waiters, c)
          /\ create' = [create EXCEPT ![c] = "waiting"]
          /\ UNCHANGED running
    /\ UNCHANGED <<terminate, activeContainers, sandboxNamespaces, service, container>>

(* Mutation: the timer gives up only when nobody else waits. *)
WaiterTimeout_HeadOnly(c) ==
    /\ waiters = <<c>>
    /\ waiters' = <<>>
    /\ create' = [create EXCEPT ![c] = "failed"]
    /\ UNCHANGED <<terminate, running, activeContainers, sandboxNamespaces, service, container>>

(* waiters.splice(i - 1, 1) *)
Spliced(i) == [j \in 1 .. Len(waiters) - 1 |-> waiters[IF j < i THEN j ELSE j + 1]]

(* The waiter's timer: it leaves the queue and the call is refused. *)
WaiterTimeout(c) ==
    /\ \E i \in 1 .. Len(waiters) : waiters[i] = c /\ waiters' = Spliced(i)
    /\ create' = [create EXCEPT ![c] = "failed"]
    /\ UNCHANGED <<terminate, running, activeContainers, sandboxNamespaces, service, container>>

(* releaseContainerSlot, and the call answers with an error. *)
GiveUp(c) ==
    /\ ReleaseContainerSlot
    /\ create' = Resolved([create EXCEPT ![c] = "failed"])
    /\ UNCHANGED <<terminate, activeContainers, sandboxNamespaces, service>>

(***************************************************************************)
(* createSandbox.                                                          *)
(***************************************************************************)
(* The image allowlist, then docker.createContainer is called. *)
CheckImage(c) ==
    /\ create[c] = "granted"
    /\ \/ /\ create' = [create EXCEPT ![c] = "creating"]
          /\ UNCHANGED <<terminate, slots, activeContainers, sandboxNamespaces, service>>
       \/ GiveUp(c)
    /\ UNCHANGED container

NameTaken(c) ==
    \E d \in Calls : Execution[d] = Execution[c] /\ container[d] \in Exists

ContainerCreated(c) ==
    /\ create[c] = "creating"
    /\ ~NameTaken(c)
    /\ container' = [container EXCEPT ![c] = "created"]
    /\ create' = [create EXCEPT ![c] = "starting"]
    /\ UNCHANGED <<terminate, slots, activeContainers, sandboxNamespaces, service>>

(* The daemon refused, always when the name is taken, or its answer was    *)
(* lost; the driver has no handle to remove anything with.                 *)
CreateContainerFails(c) ==
    /\ create[c] = "creating"
    /\ \/ UNCHANGED container
       \/ ~NameTaken(c) /\ container' = [container EXCEPT ![c] = "created"]
    /\ GiveUp(c)

ContainerStarted(c) ==
    /\ create[c] = "starting"
    /\ container' = [container EXCEPT ![c] = "running"]
    /\ activeContainers' = activeContainers \cup {c}
    /\ create' = [create EXCEPT ![c] = "inspect"]
    /\ UNCHANGED <<terminate, slots, sandboxNamespaces, service>>

(* start() rejects; the container may be running all the same. *)
StartFails(c) ==
    /\ create[c] = "starting"
    /\ container[c] = "created"
    /\ container' = [container EXCEPT ![c] = "running"] \/ UNCHANGED container
    /\ create' = [create EXCEPT ![c] = "undo"]
    /\ UNCHANGED <<terminate, slots, activeContainers, sandboxNamespaces, service>>

(* The catch block: remove the container, whether that works or not. *)
Undo(c) ==
    /\ create[c] = "undo"
    /\ container' = [container EXCEPT ![c] = "removed"] \/ UNCHANGED container
    /\ GiveUp(c)

(* inspect answers or fails, which is not fatal: the address is "unknown". *)
Inspected(c) ==
    /\ create[c] = "inspect"
    /\ create' = [create EXCEPT ![c] = "init"]
    /\ UNCHANGED <<terminate, slots, activeContainers, sandboxNamespaces, service, container>>

(* The handler notes the owner and answers. *)
CreateSandbox(c) ==
    /\ create' = [create EXCEPT ![c] = "replied"]
    /\ sandboxNamespaces' = sandboxNamespaces \cup {c}

(* The last init command is done.  A command that is refused or fails, in  *)
(* a container that has been removed for example, only adds to the output. *)
InitDone(c) ==
    /\ create[c] = "init"
    /\ CreateSandbox(c)
    /\ UNCHANGED <<terminate, slots, activeContainers, service, container>>

(***************************************************************************)
(* TerminateSandbox.                                                       *)
(***************************************************************************)
(* The owner check; a sandbox without a known owner may be terminated. *)
MayTerminate(t, c) == c \notin sandboxNamespaces \/ Namespace[c] = TNamespace[t]

(* The caller knows the identifier from an answer. *)
Terminate(t, c) ==
    /\ process \in {"up", "cleaning"}
    /\ terminate[t] = Idle
    /\ create[c] = "replied"
    /\ terminate' = [terminate EXCEPT ![t] = IF MayTerminate(t, c) THEN c ELSE Done]
    /\ UNCHANGED <<create, slots, activeContainers, sandboxNamespaces, service, container>>

(* container.remove resolves: the slot of the container is released. *)
Removed(t) ==
    /\ terminate[t] \in Calls
    /\ LET c == terminate[t] IN
           /\ container[c] \in Exists
           /\ container' = [container EXCEPT ![c] = "removed"]
           /\ activeContainers' = activeContainers \ {c}
           /\ sandboxNamespaces' = sandboxNamespaces \ {c}
    /\ ReleaseContainerSlot
    /\ create' = Resolved(create)
    /\ terminate' = [terminate EXCEPT ![t] = Done]
    /\ UNCHANGED service

(* Mutation: the slot is released also when the removal was refused. *)
RemoveFails_Releases(t) ==
    /\ terminate[t] \in Calls
    /\ ReleaseContainerSlot
    /\ create' = Resolved(create)
    /\ terminate' = [terminate EXCEPT ![t] = Done]
    /\ UNCHANGED <<activeContainers, sandboxNamespaces, service, container>>

(* container.remove rejects, always for a container that is gone; it may   *)
(* have had its effect.  The answer is success: false.                     *)
RemoveFails(t) ==
    /\ terminate[t] \in Calls
    /\ LET c == terminate[t] IN
           \/ UNCHANGED container
           \/ container[c] \in Exists /\ container' = [container EXCEPT ![c] = "removed"]
    /\ terminate' = [terminate EXCEPT ![t] = Done]
    /\ UNCHANGED <<create, slots, activeContainers, sandboxNamespaces, service>>

(***************************************************************************)
(* Shutdown and restart.                                                   *)
(***************************************************************************)
(* SIGTERM: cleanup() takes a copy of the active containers; with nothing  *)
(* to remove the server is closed to new calls at once.                    *)
Shutdown ==
    /\ process = "up"
    /\ process' = IF activeContainers = {} THEN "closing" ELSE "cleaning"
    /\ cleanupIds' = activeContainers
    /\ UNCHANGED <<create, terminate, slots, activeContainers, sandboxNamespaces,
                   restarts, container>>

(* One round of the cleanup loop: a failed removal is ignored.  After the  *)
(* last one tryShutdown closes the server to new calls.                    *)
CleanupOne(c) ==
    /\ process = "cleaning"
    /\ c \in cleanupIds
    /\ cleanupIds' = cleanupIds \ {c}
    /\ process' = IF cleanupIds' = {} THEN "closing" ELSE process
    /\ activeContainers' = activeContainers \ {c}
    /\ \/ UNCHANGED container
       \/ container[c] \in Exists /\ container' = [container EXCEPT ![c] = "removed"]
    /\ ReleaseContainerSlot
    /\ create' = Resolved(create)
    /\ UNCHANGED <<terminate, sandboxNamespaces, restarts>>

(* tryShutdown calls back when no call is in progress: process.exit(0). *)
Exit ==
    /\ process = "closing"
    /\ \A c \in Calls : create[c] \notin Pending
    /\ \A t \in Terminators : terminate[t] \notin Calls
    /\ process' = "exited"
    /\ UNCHANGED <<create, terminate, slots, activeContainers, sandboxNamespaces,
                   cleanupIds, restarts, container>>

(* The process ended, by an exit, the forced exit five seconds after       *)
(* SIGTERM or a crash, and starts again with nothing in memory; calls in   *)
(* progress have no answer.                                                *)
Restart ==
    /\ restarts < MaxRestarts
    /\ restarts' = restarts + 1
    /\ process' = "up"
    /\ cleanupIds' = {}
    /\ running' = 0
    /\ waiters' = <<>>
    /\ activeContainers' = {}
    /\ sandboxNamespaces' = {}
    /\ create' = [c \in Calls |-> IF create[c] \in Pending THEN "lost" ELSE create[c]]
    /\ terminate' = [t \in Terminators |-> IF terminate[t] \in Calls THEN Done ELSE terminate[t]]
    /\ UNCHANGED container

CreateStep(c) ==
    \/ WaiterTimeout(c) \/ CheckImage(c) \/ ContainerCreated(c) \/ CreateContainerFails(c)
    \/ ContainerStarted(c) \/ StartFails(c) \/ Undo(c)
    \/ Inspected(c) \/ InitDone(c)

Next ==
    \/ \E c \in Calls : Acquire(c) \/ CreateStep(c) \/ CleanupOne(c)
    \/ \E t \in Terminators : Removed(t) \/ RemoveFails(t) \/ \E c \in Calls : Terminate(t, c)
    \/ Shutdown \/ Exit \/ Restart

(* Docker answers or the request fails, init commands end, timers fire. *)
Fairness == \A c \in Calls : WF_vars(CreateStep(c))

Spec == Init /\ [][Next]_vars /\ Fairness

(***************************************************************************)
(* Properties.                                                             *)
(***************************************************************************)
(* The type invariant; the count of slots stays within the limit. *)
TypeOK ==
    /\ create \in [Calls -> {"new"} \cup Pending \cup Answered]
    /\ terminate \in [Terminators -> {Idle, Done} \cup Calls]
    /\ running \in 0 .. maxContainers
    /\ waiters \in Seq(Calls)
    /\ activeContainers \subseteq Calls
    /\ sandboxNamespaces \subseteq Calls
    /\ process \in {"up", "cleaning", "closing", "exited"}
    /\ cleanupIds \subseteq Calls
    /\ restarts \in 0 .. MaxRestarts
    /\ container \in [Calls -> {"absent", "removed"} \cup Exists]

(* Before any shutdown or restart. *)
FirstLife == restarts = 0 /\ process = "up"

(* Every slot in use belongs to a call being served or to an active        *)
(* container: no error path of createSandbox or terminateSandbox loses a   *)
(* slot or releases it twice.                                              *)
SlotsAccounted ==
    FirstLife =>
        running = Cardinality({c \in Calls : create[c] \in HoldingSlot})
                  + Cardinality(activeContainers)

(* The running containers, without those of calls that answered an error   *)
(* and whose removal failed.                                               *)
Live == {c \in Calls : container[c] = "running" /\ create[c] # "failed"}

(* Until a shutdown or a restart no more than maxContainers containers run. *)
WithinLimit == FirstLife => Cardinality(Live) <= maxContainers

(* The limit on containers is kept in the books and in the daemon.         *)
LimitHolds == TypeOK /\ SlotsAccounted /\ WithinLimit

(* Every CreateSandbox call is answered, however long the queue, unless    *)
(* the process ends first.                                                 *)
EveryCreateAnswered ==
    \A c \in Calls : create[c] \in Pending ~> create[c] \in Answered
=============================================================================
