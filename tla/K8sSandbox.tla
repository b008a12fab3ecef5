------------------------------ MODULE K8sSandbox ------------------------------
(***************************************************************************)
(* The Kubernetes sandbox driver (packages/shared/src/sandbox): a pod per  *)
(* execution, named after it.  createSandbox posts the pod, polls it until *)
(* it runs or the attempts are used up, runs the init commands and answers *)
(* "Running"; terminateSandbox deletes the pod and always succeeds.  Every *)
(* request to the API server of the cluster is a step; the phases of a pod *)
(* are the cluster's.                                                      *)
(***************************************************************************)
EXTENDS Naturals, FiniteSets

CONSTANTS
  Executions,     \* execution ids
  Creates,        \* createSandbox calls in flight
  PollLimit,      \* attempts of the poll loop (30)
  InitCommands,   \* initCommands of a call
  MaxPods,        \* bound on the pods created
  MaxK8sRestarts  \* bound on the restarts of the sandbox runtime

ASSUME K8sAssumption ==
  /\ IsFiniteSet(Executions) /\ IsFiniteSet(Creates)
  /\ PollLimit \in Nat \ {0} /\ InitCommands \in Nat
  /\ MaxPods \in Nat \ {0} /\ MaxK8sRestarts \in Nat

VARIABLES
  pod,         \* per execution, the pod of its name: whether there is one, its phase, being deleted
  create,      \* per call: step, execution, attempts, commands left
  podsMade, k8sRestarts   \* pods created and restarts so far

k8sVars == <<pod, create, podsMade, k8sRestarts>>

Phases == {"Pending", "Running", "Succeeded", "Failed", "Unknown"}
NoPod == [there |-> FALSE, phase |-> "Pending", deleting |-> FALSE]
NoCreate == [pc |-> "idle", exec |-> CHOOSE e \in Executions : TRUE, tries |-> 0, left |-> 0]
Exists(e) == pod[e].there

K8sTypeOK ==
  /\ pod \in [Executions -> [there : BOOLEAN, phase : Phases, deleting : BOOLEAN]]
  /\ create \in [Creates -> [pc : {"idle", "post", "poll", "exec", "hung", "done", "failed"}, exec : Executions,
                             tries : 0 .. PollLimit, left : 0 .. InitCommands]]
  /\ podsMade \in 0 .. MaxPods /\ k8sRestarts \in 0 .. MaxK8sRestarts

K8sInit ==
  /\ pod = [e \in Executions |-> NoPod]
  /\ create = [c \in Creates |-> NoCreate]
  /\ podsMade = 0 /\ k8sRestarts = 0

-----------------------------------------------------------------------------
(* createSandbox. *)

At(c, pc) == create[c].pc = pc
To(c, pc) == create' = [create EXCEPT ![c].pc = pc]

CreateSandbox(c, e) ==
  /\ At(c, "idle") /\ podsMade + Cardinality({d \in Creates : At(d, "post")}) < MaxPods
  /\ create' = [create EXCEPT ![c] = [NoCreate EXCEPT !.pc = "post", !.exec = e, !.left = InitCommands]]
  /\ UNCHANGED <<pod, podsMade, k8sRestarts>>

PostPod(c) ==
  LET e == create[c].exec IN
  /\ At(c, "post")
  /\ IF Exists(e) THEN To(c, "failed") /\ UNCHANGED <<pod, podsMade>>      \* 409
     ELSE /\ podsMade' = podsMade + 1
          /\ pod' = [pod EXCEPT ![e] = [NoPod EXCEPT !.there = TRUE]]
          /\ \E pc \in {"poll", "failed"} : To(c, pc)      \* created, but the answer may be lost
  /\ UNCHANGED k8sRestarts

(* The request never reaches the cluster, or its read is answered with an error. *)
RequestFails(c) ==
  /\ create[c].pc \in {"post", "poll"}
  /\ To(c, "failed") /\ UNCHANGED <<pod, podsMade, k8sRestarts>>

CountAttempt_Missing(c) == create[c].tries
CountAttempt(c) == create[c].tries + 1

(* One turn of the poll loop: a missing pod and a failed one end the call, and the pod is *)
(* left behind; after the last attempt the call goes on though the pod still waits.        *)
PollPod(c) ==
  LET p == pod[create[c].exec] IN
  /\ At(c, "poll")
  /\ \/ /\ ~p.there \/ p.phase \in {"Failed", "Unknown"}
        /\ To(c, "failed")
     \/ /\ p.there /\ p.phase \in {"Running", "Succeeded"}
        /\ To(c, "exec")
     \/ /\ p.there /\ p.phase = "Pending"
        /\ create' = [create EXCEPT ![c].tries = CountAttempt(c),
                                    ![c].pc = IF CountAttempt(c) >= PollLimit THEN "exec" ELSE "poll"]
  /\ UNCHANGED <<pod, podsMade, k8sRestarts>>

(* One init command: refused, run or failed, its output is recorded and the next one runs. *)
ExecInPod(c) ==
  /\ At(c, "exec")
  /\ IF create[c].left = 0 THEN To(c, "done")
     ELSE create' = [create EXCEPT ![c].left = @ - 1]
  /\ UNCHANGED <<pod, podsMade, k8sRestarts>>

(* The connection of a command fails: exec's promise is rejected but only its status *)
(* callback is listened to, so the call waits for good.                                *)
ExecHangs(c) ==
  /\ At(c, "exec") /\ create[c].left > 0
  /\ To(c, "hung") /\ UNCHANGED <<pod, podsMade, k8sRestarts>>

(* The caller has its answer. *)
Collect(c) ==
  /\ create[c].pc \in {"done", "failed"}
  /\ create' = [create EXCEPT ![c] = NoCreate]
  /\ UNCHANGED <<pod, podsMade, k8sRestarts>>

-----------------------------------------------------------------------------
(* terminateSandbox: the pod is deleted after a grace period; when the request fails the *)
(* answer is the same and nothing changed.                                               *)
TerminateSandbox(e) ==
  /\ Exists(e)
  /\ pod' = [pod EXCEPT ![e].deleting = TRUE]
  /\ UNCHANGED <<create, podsMade, k8sRestarts>>

(* A restart of the sandbox runtime drops the calls; the pods stay. *)
RuntimeRestart ==
  /\ k8sRestarts < MaxK8sRestarts /\ k8sRestarts' = k8sRestarts + 1
  /\ create' = [c \in Creates |-> NoCreate]
  /\ UNCHANGED <<pod, podsMade>>

(* The cluster: a pod starts, ends (restartPolicy Never), is lost with its node, is removed. *)
PodPhase(e, p) ==
  /\ Exists(e)
  /\ \/ pod[e].phase = "Pending" /\ p \in {"Running", "Failed"}
     \/ pod[e].phase = "Running" /\ p \in {"Succeeded", "Failed"}
     \/ pod[e].phase \in {"Pending", "Running"} /\ p = "Unknown"
  /\ pod' = [pod EXCEPT ![e].phase = p]
  /\ UNCHANGED <<create, podsMade, k8sRestarts>>

PodGone(e) ==
  /\ Exists(e) /\ pod[e].deleting
  /\ pod' = [pod EXCEPT ![e] = NoPod]
  /\ UNCHANGED <<create, podsMade, k8sRestarts>>

(* The cluster answers every request. *)
Answered(c) == PostPod(c) \/ PollPod(c) \/ ExecInPod(c)

K8sNext ==
  \/ \E c \in Creates : \/ \E e \in Executions : CreateSandbox(c, e)
                        \/ Answered(c) \/ RequestFails(c) \/ ExecHangs(c) \/ Collect(c)
  \/ \E e \in Executions : TerminateSandbox(e) \/ PodGone(e) \/ \E p \in Phases : PodPhase(e, p)
  \/ RuntimeRestart

-----------------------------------------------------------------------------
(* A pod the cluster never schedules does not hold its caller in the poll loop for ever:  *)
(* with a cluster that answers requests, every call gets past it or fails, whatever other  *)
(* calls and deletions do to the pod of its name.                                          *)
PollingEnds ==
  /\ []K8sTypeOK
  /\ \A c \in Creates : create[c].pc \in {"post", "poll"} ~> create[c].pc \notin {"post", "poll"}
=============================================================================
