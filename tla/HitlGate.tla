------------------------------ MODULE HitlGate ------------------------------
(***************************************************************************)
(* hitlApprovalGate (workflow-engine, hitl-gate.ts): the workflow that     *)
(* holds a tool call until a human decides or a timer runs out.            *)
(*                                                                         *)
(* The approval signal's handler stays registered for the whole life of    *)
(* the workflow and overwrites the one variable the body reads before each *)
(* of its last three uses, so the interleaving that matters is a signal   *)
(* arriving while one of the two activities after the wait is running.     *)
(***************************************************************************)
EXTENDS Integers

CONSTANTS
    Approvers,      \* the people who can send the signal
    MaxSignals      \* bound: signals sent to one gate

ASSUME ApproversAssumption == "system" \notin Approvers
ASSUME SignalsAssumption == MaxSignals \in Nat

VARIABLES
    gatePc,         \* the activity or condition awaited, or how the gate closed
    decision,       \* null or the ApprovalDecision last assigned
    decisionReceived,
    recorded,       \* the decision handed to the recordObservability call
    persisted,      \* the decision handed to the persistMemory call
    approvals,      \* history: the approvers whose approval arrived
    timedOut,       \* history: condition() returned false
    lateSignal,     \* history: a signal arrived after the wait was over
    signals         \* the number of signals sent

gateHistory == <<approvals, timedOut, lateSignal>>
gateVars == <<gatePc, decision, decisionReceived, recorded, persisted, gateHistory, signals>>

NoDecision == [approver |-> "nobody", decision |-> "none"]
TimeoutDecision == [approver |-> "system", decision |-> "reject"]
HumanDecisions == [approver : Approvers, decision : {"approve", "reject"}]
Decisions == HumanDecisions \cup {NoDecision, TimeoutDecision}

(* After the wait: the activities that record and persist the decision. *)
Deciding == {"record", "persist"}
GateOpen == {"announce", "persistRequest", "wait"} \cup Deciding
GateClosed == {"approved", "rejected", "failed"}

GateInit ==
    /\ gatePc = "announce"
    /\ decision = NoDecision
    /\ decisionReceived = FALSE
    /\ recorded = NoDecision
    /\ persisted = NoDecision
    /\ approvals = {}
    /\ timedOut = FALSE
    /\ lateSignal = FALSE
    /\ signals = 0

(* The signal handler: the last signal wins, whenever it arrives. *)
ApprovalSignal(d) ==
    /\ gatePc \in GateOpen
    /\ signals < MaxSignals
    /\ signals' = signals + 1
    /\ decision' = d
    /\ decisionReceived' = TRUE
    /\ approvals' = IF d.decision = "approve" THEN approvals \cup {d.approver} ELSE approvals
    /\ lateSignal' = (lateSignal \/ gatePc \in Deciding)
    /\ UNCHANGED <<gatePc, recorded, persisted, timedOut>>

(* recordObservability of the request; both attempts lost fails the gate. *)
Announce ==
    /\ gatePc = "announce"
    /\ gatePc' \in {"persistRequest", "failed"}
    /\ UNCHANGED <<decision, decisionReceived, recorded, persisted, gateHistory, signals>>

(* persistMemory of the request: a failure is not fatal. *)
PersistRequest ==
    /\ gatePc = "persistRequest"
    /\ gatePc' = "wait"
    /\ UNCHANGED <<decision, decisionReceived, recorded, persisted, gateHistory, signals>>

(* Mutation: the decision is recorded as the one the timer would take. *)
WaitOver_RecordsDefault ==
    /\ gatePc = "wait"
    /\ decisionReceived
    /\ gatePc' = "record"
    /\ recorded' = TimeoutDecision
    /\ UNCHANGED <<decision, decisionReceived, persisted, gateHistory, signals>>

(* condition() is true: recordObservability is called with the decision.   *)
WaitOver ==
    /\ gatePc = "wait"
    /\ decisionReceived
    /\ gatePc' = "record"
    /\ recorded' = decision
    /\ UNCHANGED <<decision, decisionReceived, persisted, gateHistory, signals>>

(* Mutation: the timer approves. *)
WaitTimeout_Approves ==
    /\ gatePc = "wait"
    /\ ~decisionReceived
    /\ gatePc' = "record"
    /\ decision' = [approver |-> "system", decision |-> "approve"]
    /\ recorded' = decision'
    /\ timedOut' = TRUE
    /\ UNCHANGED <<decisionReceived, persisted, approvals, lateSignal, signals>>

(* condition() timed out: auto-reject, and record that. *)
WaitTimeout ==
    /\ gatePc = "wait"
    /\ ~decisionReceived
    /\ gatePc' = "record"
    /\ decision' = TimeoutDecision
    /\ recorded' = TimeoutDecision
    /\ timedOut' = TRUE
    /\ UNCHANGED <<decisionReceived, persisted, approvals, lateSignal, signals>>

(* The record is done (both attempts lost fails the gate): persistMemory   *)
(* is called with the decision as it is now.                               *)
RecordDone ==
    /\ gatePc = "record"
    /\ \/ gatePc' = "persist" /\ persisted' = decision
       \/ gatePc' = "failed" /\ UNCHANGED persisted
    /\ UNCHANGED <<decision, decisionReceived, recorded, gateHistory, signals>>

(* persistMemory is done, or failed, which is not fatal; the final test    *)
(* throws on a rejection and returns otherwise.                            *)
Verdict ==
    /\ gatePc = "persist"
    /\ gatePc' = IF decision.decision = "reject" THEN "rejected" ELSE "approved"
    /\ UNCHANGED <<decision, decisionReceived, recorded, persisted, gateHistory, signals>>

(* workflowExecutionTimeout of startHITLApproval (25 hours). *)
ExecutionTimeout ==
    /\ gatePc \in GateOpen
    /\ gatePc' = "failed"
    /\ UNCHANGED <<decision, decisionReceived, recorded, persisted, gateHistory, signals>>

GateStep == Announce \/ PersistRequest \/ WaitOver \/ WaitTimeout \/ RecordDone \/ Verdict

GateNext == GateStep \/ (\E d \in HumanDecisions : ApprovalSignal(d)) \/ ExecutionTimeout

(***************************************************************************)
(* Properties.                                                             *)
(***************************************************************************)
(* The type invariant. *)
GateTypeOK ==
    /\ gatePc \in GateOpen \cup GateClosed
    /\ decision \in Decisions
    /\ decisionReceived \in BOOLEAN
    /\ recorded \in Decisions
    /\ persisted \in Decisions
    /\ approvals \subseteq Approvers
    /\ timedOut \in BOOLEAN
    /\ lateSignal \in BOOLEAN
    /\ signals \in 0 .. MaxSignals

(* The gate never opens by itself: an approved execution was approved by a *)
(* human whose approval is the decision returned.                          *)
ApprovedByHuman ==
    gatePc = "approved" => decision.decision = "approve" /\ decision.approver \in approvals

(* Without a signal after the wait, the trace, session memory and outcome  *)
(* tell the same story, also when several people answered during the wait. *)
RecordsAgree ==
    gatePc \in {"approved", "rejected"} /\ ~lateSignal => recorded = decision /\ persisted = decision

(* What a gate returns and records is what a human decided, or the timer's *)
(* rejection, however many signals arrive around the timeout.              *)
GateTruthful == GateTypeOK /\ ApprovedByHuman /\ RecordsAgree
=============================================================================
