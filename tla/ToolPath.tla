------------------------------ MODULE ToolPath ------------------------------
(***************************************************************************)
(* The path of a tool call: the workflow engine asks the policy plane      *)
(* (evaluatePolicy) and, when allowed, calls the tool proxy; anything else *)
(* ends the attempt.  Policy plane and proxy share the clock.              *)
(***************************************************************************)
EXTENDS PolicyPlane, ToolProxy

ASSUME CallersCallTools == ToolCalls = Callers

pathVars == <<policyVars, toolVars>>

PathInit == InitPolicy /\ InitTools

(* executeTool, for a workflow that was allowed and has no call in progress. *)
CallTool(c) ==
    /\ evals[c].pc = "allowed" /\ toolCalls[c].pc = "idle"
    /\ CallLimited(c) \/ CallAdmitted(c)
    /\ UNCHANGED policyVars

(* The answer, or the denial, is the end of the attempt. *)
Finish(c) ==
    /\ \/ TakeAnswer(c)
       \/ evals[c].pc = "denied" /\ toolCalls[c].pc = "idle" /\ UNCHANGED toolVars
    /\ evals' = [evals EXCEPT ![c] = NoEval]
    /\ UNCHANGED <<breaker, cache, opaSaid>>

PathTick == AgePolicy /\ AgeTools

PathNext ==
    \/ \E c \in Callers, q \in Requests : Evaluate(c, q) /\ UNCHANGED toolVars
    \/ \E c \in Callers : (RejectRequest(c) \/ OpaStep(c)) /\ UNCHANGED toolVars
    \/ EvictExpired /\ UNCHANGED toolVars
    \/ \E c \in Callers : CallTool(c)
    \/ \E c \in ToolCalls : (FetchStep(c) \/ SignalFires(c)) /\ UNCHANGED policyVars
    \/ Cleanup /\ UNCHANGED policyVars
    \/ \E c \in Callers : Finish(c)
    \/ PathTick

(* Time passes; OPA answers or times out; a fetch ends, at the latest by   *)
(* the 30 s signal; the back-off timer fires.                              *)
PathSpec ==
    /\ PathInit
    /\ [][PathNext]_pathVars
    /\ WF_pathVars(PathTick)
    /\ \A c \in Callers :
          /\ WF_pathVars(OpaStep(c) /\ UNCHANGED toolVars)
          /\ WF_pathVars(FetchStep(c) /\ UNCHANGED policyVars)

(***************************************************************************)
(* Properties.                                                             *)
(***************************************************************************)
(* The type invariant of the path. *)
PathTypeOK == PolicyTypeOK /\ ToolTypeOK

(* Every call of a tool is answered: the retries end, also when each       *)
(* attempt fails and when the signal has fired.                            *)
EveryCallAnswered ==
    /\ []PathTypeOK
    /\ \A c \in ToolCalls : toolCalls[c].pc = "fetching" ~> toolCalls[c].pc \in FinalAnswers

(* An outage of OPA is not for ever: if from some point on OPA does not    *)
(* fail and requests keep coming, the breaker closes again.                *)
BreakerRecovers ==
    (/\ []<><<\E c \in Callers, q \in Requests : Evaluate(c, q)>>_pathVars
     /\ <>[][\A c \in Callers : ~OpaFails(c)]_pathVars)
       => []<>(breaker.state = "CLOSED")
=============================================================================
