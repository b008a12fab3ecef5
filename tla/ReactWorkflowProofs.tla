------------------------ MODULE ReactWorkflowProofs ------------------------
(***************************************************************************)
(* Proofs about ReactWorkflow for every set of calls and costs, every      *)
(* number of iterations and attempts and every budget.                     *)
(*                                                                         *)
(* The properties speak of the end of an execution or of its effects, and  *)
(* are not inductive as they stand: the workflow may be anywhere on one of *)
(* its error paths.  The inductive invariant says what each stage may rely *)
(* on.  Before the policy's answer nothing has been done; from the answer  *)
(* on it was "allow".  Until the finally block there is no result, and the *)
(* calls recorded are the calls seen, but for the one being executed,      *)
(* which is new and was sent less often than there were attempts.  Before  *)
(* the loop no sandbox is known, after the finally block a known one has   *)
(* been asked to terminate.                                                *)
(***************************************************************************)
EXTENDS ReactWorkflow, FiniteSetTheorems, TLAPS

(* The stages before the finally block, and those the policy has allowed. *)
Working == Setup \cup Body
Permitted == {"create"} \cup Body \cup {"finally", "report"}

Permission ==
    /\ pc \in {"admit", "policy"} =>
           /\ policyAnswer = "unasked"
           /\ container = "absent" /\ spent = 0
           /\ \A k \in CallKeys : dispatched[k] = 0
    /\ pc \in Permitted => policyAnswer = "allow"
    /\ EffectsNeedPermission
    /\ ErrorsReported

Budget == OverBudget(totalCost) => pc \notin Working

Calls ==
    /\ pc # "report" => attempt <= MaxAttempts
    /\ pc \in Body \ {"loop"} => currentIteration # 0
    /\ \A i \in 1 .. Len(toolCalls) : toolCalls[i].key \in seenToolCalls
    /\ \A k \in CallKeys \ seenToolCalls : dispatched[k] = 0
    /\ pc = "tool" =>
           /\ call \in seenToolCalls
           /\ \A i \in 1 .. Len(toolCalls) : toolCalls[i].key # call
           /\ dispatched[call] < attempt
    /\ CallsExecutedOnce

Accounts ==
    /\ pc \in Working => result = NoResult
    /\ pc \in Working =>
           Cardinality(seenToolCalls) = Len(toolCalls) + (IF pc = "tool" THEN 1 ELSE 0)
    /\ ResultAccounts

Sandbox ==
    /\ pc \in Setup => ~sandboxId
    /\ pc \in {"report", "returned", "failed"} /\ sandboxId => terminateTried

(* The inductive invariant. *)
IInv == TypeOK /\ Permission /\ Budget /\ Calls /\ Accounts /\ Sandbox

(* What can follow a generation of cost c. *)
Generation(c) ==
    \/ LlmOverBudget(c) \/ LlmFinalAnswer(c) \/ LlmNothing(c) \/ LlmReplyLost(c)
    \/ \E k \in CallKeys : LlmRepeatedCall(c, k)

-----------------------------------------------------------------------------
(* Nothing has been done initially. *)
LEMMA InitInv == Init => IInv
<1> SUFFICES ASSUME Init PROVE IInv
  OBVIOUS
<1>1. TypeOK
  <2>1. attempt \in 1 .. (IF MaxAttempts < 2 THEN 2 ELSE MaxAttempts)
    BY AttemptsAssumption DEF Init
  <2>2. toolCalls \in Seq([iteration : 1 .. maxIterations, key : CallKeys,
                           status : {"succeeded", "failed"}])
    BY DEF Init
  <2>3. currentIteration \in 0 .. maxIterations
    BY IterationsAssumption DEF Init
  <2>4. dispatched \in [CallKeys -> Nat] /\ dlq \in [present : BOOLEAN, replay_count : Nat]
    BY DEF Init
  <2>5. result \in [status : Statuses \cup {"null"}, iterations : Nat, totalCost : Nat,
                    calls : Nat]
    BY DEF Init, NoResult
  <2> QED
    BY <2>1, <2>2, <2>3, <2>4, <2>5 DEF Init, TypeOK, Open, Setup
<1>2. Permission
  BY DEF Init, Permission, Permitted, Body, EffectsNeedPermission, ErrorsReported
<1>3. Budget
  BY BudgetAssumption DEF Init, Budget, OverBudget
<1>4. Calls
  BY AttemptsAssumption DEF Init, Calls, Body, CallsExecutedOnce
<1>5. Accounts
  BY FS_EmptySet DEF Init, Accounts, ResultAccounts
<1>6. Sandbox
  BY DEF Init, Sandbox
<1> QED
  BY <1>1, <1>2, <1>3, <1>4, <1>5, <1>6 DEF IInv

-----------------------------------------------------------------------------
(* The type invariant. *)
Results == [status : Statuses \cup {"null"}, iterations : Nat, totalCost : Nat, calls : Nat]
Records == [iteration : 1 .. maxIterations, key : CallKeys, status : {"succeeded", "failed"}]
Attempts == 1 .. (IF MaxAttempts < 2 THEN 2 ELSE MaxAttempts)

(* Every result the workflow can set is one. *)
LEMMA ResultTypes ==
    ASSUME TypeOK
    PROVE  /\ NoResult \in Results /\ BareError \in Results
           /\ \A s \in Statuses, n \in Nat : LoopResult(s, n) \in Results
<1>1. Len(toolCalls) \in Nat /\ currentIteration \in Nat
  BY IterationsAssumption DEF TypeOK
<1> QED
  BY <1>1 DEF NoResult, BareError, LoopResult, Results, Statuses

(* Control keeps the types: a new stage starts with the first attempt, and *)
(* an attempt is repeated only below the limit.                            *)
LEMMA ControlTypes ==
    ASSUME TypeOK
    PROVE  /\ \A s \in Open \cup Closed :
                  Goto(s) => pc' \in Open \cup Closed /\ attempt' \in Attempts
           /\ Again => pc' \in Open \cup Closed /\ attempt' \in Attempts
           /\ ReturnEarly =>
                  pc' \in Open \cup Closed /\ attempt' \in Attempts /\ result' \in Results
           /\ CatchError =>
                  pc' \in Open \cup Closed /\ attempt' \in Attempts /\ result' \in Results
           /\ AfterFinally => pc' \in Open \cup Closed /\ attempt' \in Attempts
           /\ \A r \in Results : Break(r) =>
                  pc' \in Open \cup Closed /\ attempt' \in Attempts /\ result' \in Results
<1>1. 1 \in Attempts /\ (attempt < MaxAttempts => attempt + 1 \in Attempts)
  BY AttemptsAssumption DEF TypeOK, Attempts
<1>2. {"returned", "failed", "finally", "report"} \subseteq Open \cup Closed
  BY DEF Open, Closed
<1>3. result \in Results /\ pc \in Open \cup Closed
  BY DEF TypeOK, Results
<1> QED
  BY <1>1, <1>2, <1>3, ResultTypes
     DEF Goto, Again, ReturnEarly, CatchError, AfterFinally, Break

(* The stages named in the actions. *)
LEMMA StageNames ==
    {"policy", "create", "loop", "llm", "tool", "remember", "finish", "timedOut", "failed",
     "returned", "finally"} \subseteq Open \cup Closed
BY DEF Open, Closed, Setup, Body

LEMMA TypeStep == IInv /\ [Next]_vars => TypeOK'
<1> SUFFICES ASSUME TypeOK, Calls, [Next]_vars PROVE TypeOK'
  BY DEF IInv
<1> USE ControlTypes, StageNames, ResultTypes
<1> DEFINE ControlOK == pc' \in Open \cup Closed /\ attempt' \in Attempts /\ result' \in Results
<1>0. ControlOK => pc' \in Open \cup Closed /\ attempt' \in Attempts
                   /\ result' \in [status : Statuses \cup {"null"}, iterations : Nat,
                                   totalCost : Nat, calls : Nat]
                   /\ attempt' \in 1 .. (IF MaxAttempts < 2 THEN 2 ELSE MaxAttempts)
  BY DEF Results, Attempts
<1>a. result \in Results /\ pc \in Open \cup Closed /\ attempt \in Attempts
  BY DEF TypeOK, Results, Attempts
<1>b. {"SUCCEEDED", "ERROR", "CANCELLED", "MAX_ITERATIONS_REACHED"} \subseteq Statuses
      /\ totalCost \in Nat
  BY DEF Statuses, TypeOK
<1>c. \A c \in Costs : c \in Nat /\ totalCost + c \in Nat /\ spent + c \in Nat
  BY CostsAssumption DEF TypeOK
<1>1. CASE AdmitReply \/ AdmitThrows
  <2>1. ControlOK
    BY <1>1, <1>a DEF AdmitReply, AdmitThrows
  <2> QED
    BY <1>1, <1>0, <2>1 DEF TypeOK, AdmitReply, AdmitThrows, loopState, sandbox, outcome
<1>2. CASE PolicyReply \/ PolicyLost
  <2>1. ControlOK
    BY <1>2, <1>a DEF PolicyReply, PolicyLost
  <2>2. policyAnswer' \in {"unasked", "allow", "deny", "unreachable"}
    BY <1>2 DEF PolicyReply, PolicyLost, TypeOK
  <2> QED
    BY <1>2, <1>0, <2>1, <2>2 DEF TypeOK, PolicyReply, PolicyLost, loopState, sandbox, outcome
<1>3. CASE CreateReply \/ CreateLost \/ CreateFails
  <2>1. ControlOK
    BY <1>3, <1>a DEF CreateReply, CreateLost, CreateFails
  <2> QED
    BY <1>3, <1>0, <2>1
       DEF TypeOK, CreateReply, CreateLost, CreateFails, loopState, sandbox, outcome
<1>4. CASE LoopHead
  <2>1. ControlOK
    BY <1>4, <1>a, <1>b DEF LoopHead
  <2>2. currentIteration' \in 0 .. maxIterations
    BY <1>4, IterationsAssumption DEF TypeOK, LoopHead
  <2> QED
    BY <1>4, <1>0, <2>1, <2>2 DEF TypeOK, LoopHead, loopState, sandbox, outcome
<1>5. ASSUME NEW c \in Costs, Generation(c) PROVE TypeOK'
  <2>1. ControlOK
    BY <1>5, <1>a, <1>b, <1>c
       DEF Generation, LlmOverBudget, LlmFinalAnswer, LlmNothing, LlmReplyLost, LlmRepeatedCall
  <2>2. /\ totalCost' \in Nat /\ spent' \in Nat
        /\ UNCHANGED <<cancellationRequested, currentIteration, seenToolCalls, call, toolCalls,
                       sandbox, policyAnswer, dispatched, memory, outcome>>
    BY <1>5, <1>b, <1>c
       DEF Generation, LlmOverBudget, LlmFinalAnswer, LlmNothing, LlmReplyLost, LlmRepeatedCall,
           Billed, loopState
  <2> QED
    BY <1>0, <2>1, <2>2 DEF TypeOK, sandbox, outcome
<1>6. ASSUME NEW c \in Costs, NEW k \in CallKeys, LlmToolCall(c, k) PROVE TypeOK'
  <2>1. ControlOK
    BY <1>6, <1>a DEF LlmToolCall
  <2>2. totalCost' \in Nat /\ spent' \in Nat
    BY <1>6, <1>c DEF LlmToolCall, Billed
  <2> QED
    BY <1>6, <1>0, <2>1, <2>2 DEF TypeOK, LlmToolCall, sandbox, outcome
<1>7. CASE LlmFails
  <2>1. ControlOK
    BY <1>7, <1>a, <1>b DEF LlmFails
  <2> QED
    BY <1>7, <1>0, <2>1 DEF TypeOK, LlmFails, loopState, sandbox, outcome
<1>8. CASE ToolReply \/ ToolBlocked \/ ToolLost
  <2>0. ASSUME NEW s \in {"succeeded", "failed"}, Record(s)
        PROVE  toolCalls' \in Seq(Records) /\ pc' \in Open \cup Closed /\ attempt' \in Attempts
    <3>1. call \in CallKeys /\ currentIteration \in 1 .. maxIterations
      BY <1>8, IterationsAssumption DEF TypeOK, Calls, ToolReply, ToolBlocked, ToolLost, Body
    <3>2. [iteration |-> currentIteration, key |-> call, status |-> s] \in Records
      BY <3>1 DEF Records
    <3> QED
      BY <2>0, <3>2 DEF Record, TypeOK, Records
  <2>1. ControlOK /\ toolCalls' \in Seq(Records)
    BY <1>8, <1>a, <1>b, <2>0 DEF ToolReply, ToolBlocked, ToolLost, TypeOK, Records
  <2>2. dispatched' \in [CallKeys -> Nat]
    BY <1>8 DEF ToolReply, ToolBlocked, ToolLost, Dispatch, TypeOK
  <2> QED
    BY <1>8, <1>0, <2>1, <2>2
       DEF TypeOK, ToolReply, ToolBlocked, ToolLost, loopState, sandbox, outcome, Records
<1>9. CASE Remember \/ Finish
  <2>1. ControlOK
    BY <1>9, <1>a, <1>b DEF Remember, Finish
  <2>2. memory' \subseteq 0 .. maxIterations
    <3>1. {currentIteration, ResultKey} \subseteq 0 .. maxIterations
      BY IterationsAssumption DEF TypeOK, ResultKey
    <3>2. memory' \subseteq memory \cup {currentIteration, ResultKey}
      BY <1>9 DEF Remember, Finish
    <3> QED
      BY <3>1, <3>2 DEF TypeOK
  <2> QED
    BY <1>9, <1>0, <2>1, <2>2 DEF TypeOK, Remember, Finish, loopState, sandbox, outcome
<1>10. CASE ObservabilityLost
  <2>1. ControlOK
    BY <1>10, <1>a DEF ObservabilityLost
  <2> QED
    BY <1>10, <1>0, <2>1 DEF TypeOK, ObservabilityLost, loopState, sandbox, outcome
<1>11. CASE NoSandbox \/ TerminateReply \/ TerminateLost
  <2>1. ControlOK
    BY <1>11, <1>a DEF NoSandbox, TerminateReply, TerminateLost
  <2> QED
    BY <1>11, <1>0, <2>1
       DEF TypeOK, NoSandbox, TerminateReply, TerminateLost, loopState, sandbox, outcome
<1>12. CASE Report \/ ReportLost
  <2>1. attempt < 2 => attempt + 1 \in Attempts
    BY <1>a, AttemptsAssumption DEF Attempts
  <2>2. ControlOK
    BY <1>12, <1>a, <2>1 DEF Report, ReportLost
  <2>3. dlq' \in [present : BOOLEAN, replay_count : Nat]
    BY <1>12 DEF Report, ReportLost, Upsert, TypeOK
  <2> QED
    BY <1>12, <1>0, <2>2, <2>3 DEF TypeOK, Report, ReportLost, loopState, sandbox, outcome
<1>13. CASE Cancel \/ ExecutionTimeout \/ DlqReplay
  <2>1. ControlOK
    BY <1>13, <1>a DEF Cancel, ExecutionTimeout, DlqReplay
  <2>2. dlq' \in [present : BOOLEAN, replay_count : Nat]
    BY <1>13 DEF Cancel, ExecutionTimeout, DlqReplay, TypeOK, outcome
  <2> QED
    BY <1>13, <1>0, <2>1, <2>2
       DEF TypeOK, Cancel, ExecutionTimeout, DlqReplay, loopState, sandbox, outcome
<1>14. CASE UNCHANGED vars
  BY <1>14 DEF vars, TypeOK, loopState, sandbox, outcome
<1> QED
  BY <1>1, <1>2, <1>3, <1>4, <1>5, <1>6, <1>7, <1>8, <1>9, <1>10, <1>11, <1>12, <1>13, <1>14
     DEF Next, Step, Generation

-----------------------------------------------------------------------------
(* The sandbox: each way out of the setup leaves none known, and the       *)
(* finally block is left only after a known one was asked to terminate.    *)
LEMMA SandboxStep == IInv /\ [Next]_vars => Sandbox'
<1> SUFFICES ASSUME Sandbox, [Next]_vars PROVE Sandbox'
  BY DEF IInv
<1> USE DEF Sandbox, Goto, Setup
<1>1. CASE AdmitReply \/ AdmitThrows
  BY <1>1 DEF AdmitReply, AdmitThrows, ReturnEarly, Again, sandbox
<1>2. CASE PolicyReply \/ PolicyLost
  BY <1>2 DEF PolicyReply, PolicyLost, ReturnEarly, Again, sandbox
<1>3. CASE CreateReply \/ CreateLost \/ CreateFails
  BY <1>3 DEF CreateReply, CreateLost, CreateFails, CatchError, Again, sandbox
<1>4. CASE LoopHead
  BY <1>4 DEF LoopHead, Break, CatchError, sandbox
<1>5. ASSUME NEW c \in Costs, Generation(c) PROVE Sandbox'
  BY <1>5 DEF Generation, LlmOverBudget, LlmFinalAnswer, LlmNothing, LlmReplyLost,
              LlmRepeatedCall, Break, CatchError, Again, sandbox
<1>6. ASSUME NEW c \in Costs, NEW k \in CallKeys, LlmToolCall(c, k) PROVE Sandbox'
  BY <1>6 DEF LlmToolCall, sandbox
<1>7. CASE LlmFails
  BY <1>7 DEF LlmFails, Break, CatchError, Again, sandbox
<1>8. CASE ToolReply \/ ToolBlocked \/ ToolLost
  BY <1>8 DEF ToolReply, ToolBlocked, ToolLost, Record, Break, CatchError, Again, sandbox
<1>9. CASE Remember \/ Finish
  BY <1>9 DEF Remember, Finish, Break, CatchError, sandbox
<1>10. CASE ObservabilityLost
  BY <1>10 DEF ObservabilityLost, CatchError, sandbox
<1>11. CASE NoSandbox \/ TerminateReply \/ TerminateLost
  BY <1>11 DEF NoSandbox, TerminateReply, TerminateLost, AfterFinally, Again, sandbox
<1>12. CASE Report \/ ReportLost
  BY <1>12 DEF Report, ReportLost, sandbox
<1>13. CASE Cancel \/ ExecutionTimeout \/ DlqReplay
  BY <1>13 DEF Cancel, ExecutionTimeout, DlqReplay, sandbox
<1>14. CASE UNCHANGED vars
  BY <1>14 DEF vars, sandbox
<1> QED
  BY <1>1, <1>2, <1>3, <1>4, <1>5, <1>6, <1>7, <1>8, <1>9, <1>10, <1>11, <1>12, <1>13, <1>14
     DEF Next, Step, Generation

(* The budget: a reply that crosses it leaves the loop, and nothing else   *)
(* adds to the accounts or comes back to the loop.                         *)
LEMMA BudgetStep == IInv /\ [Next]_vars => Budget'
<1> SUFFICES ASSUME Budget, [Next]_vars PROVE Budget'
  BY DEF IInv
<1> USE DEF Budget, Goto, Working, Setup, Body
<1>1. CASE AdmitReply \/ AdmitThrows
  BY <1>1 DEF AdmitReply, AdmitThrows, ReturnEarly, Again, loopState, OverBudget
<1>2. CASE PolicyReply \/ PolicyLost
  BY <1>2 DEF PolicyReply, PolicyLost, ReturnEarly, Again, loopState, OverBudget
<1>3. CASE CreateReply \/ CreateLost \/ CreateFails
  BY <1>3 DEF CreateReply, CreateLost, CreateFails, CatchError, Again, loopState, OverBudget
<1>4. CASE LoopHead
  BY <1>4 DEF LoopHead, Break, CatchError, OverBudget
<1>5. ASSUME NEW c \in Costs, Generation(c) PROVE Budget'
  BY <1>5 DEF Generation, LlmOverBudget, LlmFinalAnswer, LlmNothing, LlmReplyLost, Billed,
              LlmRepeatedCall, Break, CatchError, Again, loopState, OverBudget
<1>6. ASSUME NEW c \in Costs, NEW k \in CallKeys, LlmToolCall(c, k) PROVE Budget'
  BY <1>6 DEF LlmToolCall, Billed, OverBudget
<1>7. CASE LlmFails
  BY <1>7 DEF LlmFails, Break, CatchError, Again, loopState, OverBudget
<1>8. CASE ToolReply \/ ToolBlocked \/ ToolLost
  BY <1>8 DEF ToolReply, ToolBlocked, ToolLost, Record, Break, CatchError, Again, OverBudget
<1>9. CASE Remember \/ Finish
  BY <1>9 DEF Remember, Finish, Break, CatchError, loopState, OverBudget
<1>10. CASE ObservabilityLost
  BY <1>10 DEF ObservabilityLost, CatchError, loopState, OverBudget
<1>11. CASE NoSandbox \/ TerminateReply \/ TerminateLost
  BY <1>11 DEF NoSandbox, TerminateReply, TerminateLost, AfterFinally, Again, loopState,
               OverBudget
<1>12. CASE Report \/ ReportLost
  BY <1>12 DEF Report, ReportLost, loopState, OverBudget
<1>13. CASE Cancel \/ ExecutionTimeout \/ DlqReplay
  BY <1>13 DEF Cancel, ExecutionTimeout, DlqReplay, loopState, OverBudget
<1>14. CASE UNCHANGED vars
  BY <1>14 DEF vars, loopState, OverBudget
<1> QED
  BY <1>1, <1>2, <1>3, <1>4, <1>5, <1>6, <1>7, <1>8, <1>9, <1>10, <1>11, <1>12, <1>13, <1>14
     DEF Next, Step, Generation

(* Permission: only an "allow" leads out of the setup, effects are had     *)
(* after it, and a result after it is returned only by the report.         *)
LEMMA PermissionStep == IInv /\ [Next]_vars => Permission'
<1> SUFFICES ASSUME TypeOK, Permission, [Next]_vars PROVE Permission'
  BY DEF IInv
<1> USE DEF Permission, Permitted, EffectsNeedPermission, ErrorsReported, Goto, Body
<1>1. CASE AdmitReply \/ AdmitThrows
  BY <1>1 DEF AdmitReply, AdmitThrows, ReturnEarly, Again, sandbox, outcome
<1>2. CASE PolicyReply \/ PolicyLost
  BY <1>2 DEF PolicyReply, PolicyLost, Allows, ReturnEarly, Again, sandbox, outcome
<1>3. CASE CreateReply \/ CreateLost \/ CreateFails
  BY <1>3 DEF CreateReply, CreateLost, CreateFails, CatchError, Again, sandbox, outcome
<1>4. CASE LoopHead
  BY <1>4 DEF LoopHead, Break, CatchError, sandbox, outcome
<1>5. ASSUME NEW c \in Costs, Generation(c) PROVE Permission'
  BY <1>5 DEF Generation, LlmOverBudget, LlmFinalAnswer, LlmNothing, LlmReplyLost,
              LlmRepeatedCall, Break, CatchError, Again, sandbox, outcome
<1>6. ASSUME NEW c \in Costs, NEW k \in CallKeys, LlmToolCall(c, k) PROVE Permission'
  BY <1>6 DEF LlmToolCall, sandbox, outcome
<1>7. CASE LlmFails
  BY <1>7 DEF LlmFails, Break, CatchError, Again, sandbox, outcome
<1>8. CASE ToolReply \/ ToolBlocked \/ ToolLost
  BY <1>8 DEF ToolReply, ToolBlocked, ToolLost, Record, Break, CatchError, Again, sandbox, outcome
<1>9. CASE Remember \/ Finish
  BY <1>9 DEF Remember, Finish, Break, CatchError, sandbox, outcome
<1>10. CASE ObservabilityLost
  BY <1>10 DEF ObservabilityLost, CatchError, Setup, sandbox, outcome
<1>11. CASE NoSandbox \/ TerminateReply \/ TerminateLost
  BY <1>11 DEF NoSandbox, TerminateReply, TerminateLost, AfterFinally, Again, sandbox, outcome
<1>12. CASE Report \/ ReportLost
  BY <1>12 DEF Report, ReportLost, sandbox
<1>13. CASE Cancel \/ ExecutionTimeout \/ DlqReplay
  BY <1>13 DEF Cancel, ExecutionTimeout, DlqReplay, sandbox, outcome
<1>14. CASE UNCHANGED vars
  BY <1>14 DEF vars, sandbox, outcome
<1> QED
  BY <1>1, <1>2, <1>3, <1>4, <1>5, <1>6, <1>7, <1>8, <1>9, <1>10, <1>11, <1>12, <1>13, <1>14
     DEF Next, Step, Generation

(* The calls: the model can only ask for a call not seen before; it is     *)
(* sent at most once per attempt, and recorded when it leaves the stage.   *)
LEMMA CallsStep == IInv /\ [Next]_vars => Calls'
<1> SUFFICES ASSUME TypeOK, Calls, [Next]_vars PROVE Calls'
  BY DEF IInv
<1> USE DEF Goto, Body
<1>a. 1 <= MaxAttempts /\ MaxAttempts \in Nat /\ attempt \in Int
  BY AttemptsAssumption DEF TypeOK
<1>b. ASSUME UNCHANGED <<seenToolCalls, toolCalls, dispatched>>,
             pc' # "tool", pc' # "report" => attempt' <= MaxAttempts,
             pc' \in Body \ {"loop"} => currentIteration' # 0
      PROVE  Calls'
  BY <1>b DEF Calls, CallsExecutedOnce
<1>1. CASE AdmitReply \/ AdmitThrows
  BY <1>1, <1>a, <1>b DEF AdmitReply, AdmitThrows, ReturnEarly, Again, loopState
<1>2. CASE PolicyReply \/ PolicyLost
  BY <1>2, <1>a, <1>b DEF PolicyReply, PolicyLost, ReturnEarly, Again, loopState
<1>3. CASE CreateReply \/ CreateLost \/ CreateFails
  BY <1>3, <1>a, <1>b DEF CreateReply, CreateLost, CreateFails, CatchError, Again, loopState
<1>4. CASE LoopHead
  <2>1. currentIteration' \in Nat /\ (pc' = "llm" => currentIteration' # 0)
    BY <1>4, IterationsAssumption DEF LoopHead, Break, CatchError, TypeOK
  <2> QED
    BY <1>4, <1>a, <1>b, <2>1 DEF LoopHead, Break, CatchError
<1>5. ASSUME NEW c \in Costs, Generation(c) PROVE Calls'
  <2>1. currentIteration' # 0
    BY <1>5 DEF Generation, LlmOverBudget, LlmFinalAnswer, LlmNothing, LlmReplyLost,
                LlmRepeatedCall, loopState, Calls
  <2> QED
    BY <1>5, <1>a, <1>b, <2>1
       DEF Generation, LlmOverBudget, LlmFinalAnswer, LlmNothing, LlmReplyLost,
           LlmRepeatedCall, Break, CatchError, Again, loopState
<1>6. ASSUME NEW c \in Costs, NEW k \in CallKeys, LlmToolCall(c, k) PROVE Calls'
  <2>1. \A i \in 1 .. Len(toolCalls) : toolCalls[i].key # k
    BY <1>6 DEF LlmToolCall, Calls
  <2>2. dispatched[k] = 0 /\ dispatched[k] \in Nat
    BY <1>6 DEF LlmToolCall, Calls, TypeOK
  <2> QED
    BY <1>6, <1>a, <2>1, <2>2 DEF LlmToolCall, Calls, CallsExecutedOnce
<1>7. CASE LlmFails
  BY <1>7, <1>a, <1>b DEF LlmFails, Break, CatchError, Again, loopState, Calls
<1>8. CASE ToolReply \/ ToolBlocked \/ ToolLost
  <2>1. /\ pc = "tool" /\ call \in CallKeys /\ call \in seenToolCalls
        /\ dispatched[call] < attempt /\ attempt <= MaxAttempts
        /\ currentIteration # 0
        /\ UNCHANGED <<seenToolCalls, call, currentIteration>>
    BY <1>8 DEF ToolReply, ToolBlocked, ToolLost, Calls, TypeOK
  <2>2. /\ dispatched'[call] \in Nat /\ dispatched'[call] <= attempt
        /\ \A k \in CallKeys \ {call} : dispatched'[k] = dispatched[k]
    BY <1>8, <2>1 DEF ToolReply, ToolBlocked, ToolLost, Dispatch, TypeOK
  <2>3. \A k \in CallKeys : dispatched'[k] <= MaxAttempts
    BY <1>a, <2>1, <2>2 DEF Calls, CallsExecutedOnce
  <2>4. CASE Again /\ UNCHANGED toolCalls
    BY <1>a, <2>1, <2>2, <2>3, <2>4 DEF Again, Calls, CallsExecutedOnce
  <2>5. ASSUME NEW s \in {"succeeded", "failed"}, Record(s)
        PROVE  Calls'
    <3>1. /\ Len(toolCalls) \in Nat /\ Len(toolCalls') = Len(toolCalls) + 1
          /\ toolCalls'[Len(toolCalls) + 1].key = call
          /\ \A i \in 1 .. Len(toolCalls) : toolCalls'[i] = toolCalls[i]
      BY <2>5 DEF Record, TypeOK
    <3>2. \A i \in 1 .. Len(toolCalls) : toolCalls[i].key # call
      BY <2>1 DEF Calls
    <3>3. \A i, j \in 1 .. Len(toolCalls') : toolCalls'[i].key = toolCalls'[j].key => i = j
      BY <3>1, <3>2 DEF Calls, CallsExecutedOnce
    <3> QED
      BY <1>a, <2>1, <2>2, <2>3, <2>5, <3>1, <3>3 DEF Record, Calls, CallsExecutedOnce
  <2>6. CASE pc' = "finally" /\ attempt' = 1 /\ UNCHANGED toolCalls
    BY <1>a, <2>1, <2>2, <2>3, <2>6 DEF Calls, CallsExecutedOnce
  <2> QED
    BY <1>8, <2>4, <2>5, <2>6 DEF ToolReply, ToolBlocked, ToolLost, Break, CatchError
<1>9. CASE Remember \/ Finish
  BY <1>9, <1>a, <1>b DEF Remember, Finish, Break, CatchError, loopState
<1>10. CASE ObservabilityLost
  BY <1>10, <1>a, <1>b DEF ObservabilityLost, CatchError, loopState
<1>11. CASE NoSandbox \/ TerminateReply \/ TerminateLost
  BY <1>11, <1>a, <1>b DEF NoSandbox, TerminateReply, TerminateLost, AfterFinally, Again, loopState
<1>12. CASE Report \/ ReportLost
  BY <1>12, <1>a, <1>b DEF Report, ReportLost, loopState
<1>13. CASE Cancel \/ ExecutionTimeout \/ DlqReplay
  BY <1>13, <1>a DEF Cancel, ExecutionTimeout, DlqReplay, loopState, Calls, CallsExecutedOnce
<1>14. CASE UNCHANGED vars
  BY <1>14 DEF vars, loopState, Calls, CallsExecutedOnce
<1> QED
  BY <1>1, <1>2, <1>3, <1>4, <1>5, <1>6, <1>7, <1>8, <1>9, <1>10, <1>11, <1>12, <1>13, <1>14
     DEF Next, Step, Generation

(* The accounts: a call seen is a call recorded once its stage is left,    *)
(* the result is made from the accounts, and nothing moves afterwards.     *)
LEMMA AccountsStep == IInv /\ [Next]_vars => Accounts'
<1> SUFFICES ASSUME TypeOK, Calls, Accounts, [Next]_vars PROVE Accounts'
  BY DEF IInv
<1> USE DEF Goto, Working, Setup, Body
<1> DEFINE Same == UNCHANGED <<currentIteration, totalCost, seenToolCalls, toolCalls>>
<1>a. ASSUME Same, UNCHANGED result, pc' \in Working \ {"tool"}, pc \in Working \ {"tool"}
      PROVE  Accounts'
  BY <1>a DEF Accounts, ResultAccounts
<1>b. ASSUME Same, UNCHANGED result, pc' \notin Working
      PROVE  Accounts'
  BY <1>b DEF Accounts, ResultAccounts
<1>c. ASSUME result' = NoResult \/ result'.status = "ERROR", pc' \notin Working
      PROVE  Accounts'
  BY <1>c DEF Accounts, ResultAccounts
<1>d. /\ BareError.status = "ERROR"
      /\ \A s \in Statuses, n \in Nat :
             /\ LoopResult(s, n).status = s
             /\ LoopResult(s, n).iterations = currentIteration
             /\ LoopResult(s, n).totalCost = n
             /\ LoopResult(s, n).calls = Len(toolCalls)
  BY DEF BareError, LoopResult
<1>e. CatchError => Accounts'
  BY <1>c, <1>d DEF CatchError
<1>f. totalCost \in Nat /\ {"SUCCEEDED", "ERROR", "CANCELLED", "MAX_ITERATIONS_REACHED"} \subseteq Statuses
  BY DEF TypeOK, Statuses
<1>g. ASSUME NEW n \in Nat, Break(LoopResult("ERROR", n)) PROVE Accounts'
  BY <1>c, <1>d, <1>e, <1>f, <1>g DEF Break
<1>h. ASSUME NEW s \in Statuses, Break(LoopResult(s, totalCost)), Same,
             pc \in Working \ {"tool"}
      PROVE  Accounts'
  <2>1. Cardinality(seenToolCalls) = Len(toolCalls)
    BY <1>h DEF Accounts, TypeOK
  <2> QED
    BY <1>d, <1>e, <1>f, <1>h, <2>1 DEF Break, Accounts, ResultAccounts
<1>i. pc \in Working => result = NoResult
  BY DEF Accounts
<1>1. CASE AdmitReply \/ AdmitThrows
  BY <1>1, <1>a, <1>b, <1>c, <1>d DEF AdmitReply, AdmitThrows, ReturnEarly, Again, loopState
<1>2. CASE PolicyReply \/ PolicyLost
  BY <1>2, <1>a, <1>b, <1>c, <1>d DEF PolicyReply, PolicyLost, ReturnEarly, Again, loopState
<1>3. CASE CreateReply \/ CreateLost \/ CreateFails
  BY <1>3, <1>a, <1>e DEF CreateReply, CreateLost, CreateFails, Again, loopState
<1>4. CASE LoopHead
  <2>1. CASE pc' = "llm" /\ UNCHANGED <<result, seenToolCalls, toolCalls>>
    BY <1>4, <1>i, <2>1 DEF LoopHead, Accounts, ResultAccounts
  <2> QED
    BY <1>4, <1>f, <1>h, <2>1 DEF LoopHead
<1>5. ASSUME NEW c \in Costs, Generation(c) PROVE Accounts'
  <2>1. totalCost + c \in Nat
    BY CostsAssumption DEF TypeOK
  <2>2. CASE pc' \in {"loop", "llm", "finish"} /\ UNCHANGED <<result, seenToolCalls, toolCalls>>
    <3>1. pc = "llm"
      BY <1>5 DEF Generation, LlmOverBudget, LlmFinalAnswer, LlmNothing, LlmReplyLost,
                  LlmRepeatedCall
    <3> QED
      BY <1>i, <2>2, <3>1 DEF Accounts, ResultAccounts
  <2> QED
    BY <1>5, <1>f, <1>g, <2>1, <2>2
       DEF Generation, LlmOverBudget, LlmFinalAnswer, LlmNothing, LlmReplyLost,
           LlmRepeatedCall, Again, loopState
<1>6. ASSUME NEW c \in Costs, NEW k \in CallKeys, LlmToolCall(c, k) PROVE Accounts'
  <2>1. IsFiniteSet(seenToolCalls)
    BY KeysAssumption, FS_Subset DEF TypeOK
  <2>2. Cardinality(seenToolCalls') = Cardinality(seenToolCalls) + 1
    BY <1>6, <2>1, FS_AddElement DEF LlmToolCall
  <2>3. Cardinality(seenToolCalls) = Len(toolCalls) /\ Len(toolCalls) \in Nat
    BY <1>6 DEF LlmToolCall, Accounts, TypeOK
  <2> QED
    BY <1>6, <1>i, <2>2, <2>3 DEF LlmToolCall, Accounts, ResultAccounts
<1>7. CASE LlmFails
  BY <1>7, <1>a, <1>f, <1>g DEF LlmFails, Again, loopState
<1>8. CASE ToolReply \/ ToolBlocked \/ ToolLost
  <2>1. pc = "tool" /\ UNCHANGED <<seenToolCalls, currentIteration, totalCost>>
    BY <1>8 DEF ToolReply, ToolBlocked, ToolLost
  <2>2. Cardinality(seenToolCalls) = Len(toolCalls) + 1 /\ Len(toolCalls) \in Nat
    BY <2>1 DEF Accounts, TypeOK
  <2>3. CASE Again /\ UNCHANGED <<toolCalls, result>>
    BY <2>1, <2>3 DEF Again, Accounts, ResultAccounts
  <2>4. ASSUME NEW s \in {"succeeded", "failed"}, Record(s), UNCHANGED result
        PROVE  Accounts'
    <3>1. Len(toolCalls') = Len(toolCalls) + 1
      BY <2>4 DEF Record, TypeOK
    <3> QED
      BY <1>i, <2>1, <2>2, <2>4, <3>1 DEF Record, Accounts, ResultAccounts
  <2> QED
    BY <1>8, <1>f, <1>g, <2>3, <2>4 DEF ToolReply, ToolBlocked, ToolLost
<1>9. CASE Remember \/ Finish
  BY <1>9, <1>a, <1>f, <1>h, <1>i DEF Remember, Finish, loopState, Accounts, ResultAccounts
<1>10. CASE ObservabilityLost
  BY <1>10, <1>b, <1>e DEF ObservabilityLost, loopState
<1>11. CASE NoSandbox \/ TerminateReply \/ TerminateLost
  BY <1>11, <1>b DEF NoSandbox, TerminateReply, TerminateLost, AfterFinally, Again, loopState
<1>12. CASE Report \/ ReportLost
  BY <1>12, <1>b DEF Report, ReportLost, loopState
<1>13. CASE Cancel \/ ExecutionTimeout \/ DlqReplay
  BY <1>13 DEF Cancel, ExecutionTimeout, DlqReplay, loopState, Accounts, ResultAccounts
<1>14. CASE UNCHANGED vars
  BY <1>14 DEF vars, loopState, Accounts, ResultAccounts
<1> QED
  BY <1>1, <1>2, <1>3, <1>4, <1>5, <1>6, <1>7, <1>8, <1>9, <1>10, <1>11, <1>12, <1>13, <1>14
     DEF Next, Step, Generation

-----------------------------------------------------------------------------
(* The inductive invariant holds in every reachable state. *)
THEOREM Invariance == Spec => []IInv
<1>1. IInv /\ [Next]_vars => IInv'
  BY TypeStep, PermissionStep, BudgetStep, CallsStep, AccountsStep, SandboxStep DEF IInv
<1> QED
  BY <1>1, InitInv, PTL DEF Spec

(* An execution's effects are permitted by the policy plane, within the    *)
(* budget but for the reply that crosses it, and made once for each call   *)
(* the model asks for, however it repeats itself and whatever is lost.     *)
THEOREM EffectsAreSound == Spec => []EffectsSound
<1>1. IInv => EffectsSound
  BY DEF IInv, EffectsSound, Permission, Calls, Budget, BudgetStops, Working
<1> QED
  BY <1>1, Invariance, PTL

(* On every error path the workflow asks the sandbox it knows to           *)
(* terminate, hands an ERROR to the dead-letter queue's report, and        *)
(* returns a result that accounts for all it did.                          *)
THEOREM DutiesDone == Spec => []ClosingDuties
<1>1. IInv => ClosingDuties
  BY DEF IInv, ClosingDuties, KnownSandboxTerminated, Permission, Accounts, Sandbox
<1> QED
  BY <1>1, Invariance, PTL

(* After a cancellation no further iteration starts, whatever the stage    *)
(* the signal finds the workflow in.                                       *)
THEOREM CancelIsHeeded == Spec => CancelStopsLoop
<1> DEFINE A == cancellationRequested => currentIteration' = currentIteration
<1>1. [Next]_vars => [A]_vars
  <2> SUFFICES ASSUME Next, cancellationRequested PROVE currentIteration' = currentIteration
    OBVIOUS
  <2> USE DEF loopState
  <2>1. CASE LoopHead
    BY <2>1 DEF LoopHead
  <2>2. ASSUME NEW c \in Costs, Generation(c) \/ \E k \in CallKeys : LlmToolCall(c, k)
        PROVE  currentIteration' = currentIteration
    BY <2>2 DEF Generation, LlmOverBudget, LlmFinalAnswer, LlmNothing, LlmReplyLost,
                LlmRepeatedCall, LlmToolCall
  <2>3. CASE \/ AdmitReply \/ AdmitThrows \/ PolicyReply \/ PolicyLost
             \/ CreateReply \/ CreateLost \/ CreateFails
    BY <2>3 DEF AdmitReply, AdmitThrows, PolicyReply, PolicyLost, CreateReply, CreateLost,
                CreateFails
  <2>4. CASE \/ LlmFails \/ ToolReply \/ ToolBlocked \/ ToolLost \/ Remember \/ Finish
             \/ ObservabilityLost
    BY <2>4 DEF LlmFails, ToolReply, ToolBlocked, ToolLost, Remember, Finish, ObservabilityLost
  <2>5. CASE \/ NoSandbox \/ TerminateReply \/ TerminateLost \/ Report \/ ReportLost
             \/ Cancel \/ ExecutionTimeout \/ DlqReplay
    BY <2>5 DEF NoSandbox, TerminateReply, TerminateLost, Report, ReportLost, Cancel,
                ExecutionTimeout, DlqReplay
  <2> QED
    BY <2>1, <2>2, <2>3, <2>4, <2>5 DEF Next, Step, Generation
<1> QED
  BY <1>1, PTL DEF Spec, CancelStopsLoop
=============================================================================
