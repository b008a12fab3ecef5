---------------------------- MODULE ReactWorkflow ----------------------------
(***************************************************************************)
(* One execution of reactWorkflow (workflow-engine, react-workflow.ts)     *)
(* with the activities it awaits (activities/index.ts) and what they do to *)
(* the services behind them: the sandbox container of the execution, the   *)
(* provider's bill, the tool dispatched, session memory and the dead-letter     *)
(* queue.  The workflow itself is durable and single-threaded; what        *)
(* interleaves with it are the attempts of its activities, which Temporal  *)
(* repeats when an attempt throws or never answers, the cancel signal, the *)
(* 30-minute execution timeout of the client and the admin's DLQ replay.   *)
(*                                                                         *)
(* An attempt that never answers may have had its effect: every activity   *)
(* with an outside effect therefore has a "lost" outcome beside its reply  *)
(* and its error.  Wording, span names and message texts are left out.     *)
(***************************************************************************)
EXTENDS Integers, Sequences, FiniteSets

CONSTANTS
    CallKeys,       \* the toolName::args pairs the model may ask for
    maxIterations,  \* min(input.maxIterations ?? 20, 100)
    costBudget,     \* input.costBudgetUsd, 0 when there is none
    Costs,          \* what one generation may cost
    MaxAttempts,    \* maximumAttempts of TRANSIENT_RETRY_POLICY
    MaxReplays      \* bound: DLQ replays the admin asks for

ASSUME KeysAssumption == IsFiniteSet(CallKeys)
ASSUME IterationsAssumption == maxIterations \in 0 .. 100
ASSUME BudgetAssumption == costBudget \in Nat
ASSUME CostsAssumption == Costs \subseteq Nat
ASSUME AttemptsAssumption == MaxAttempts \in Nat \ {0}
ASSUME ReplaysAssumption == MaxReplays \in Nat

VARIABLES
    pc,                     \* the activity awaited, or how the workflow closed
    attempt,                \* the attempt of that activity, from 1
    cancellationRequested,  \* set by the signal handler
    currentIteration,
    totalCost,              \* the cost the workflow has added up
    seenToolCalls,          \* the loop detection's keys
    call,                   \* the key being executed
    toolCalls,              \* the records of the result
    result,                 \* null or the AgentResult
    sandboxId,              \* whether the workflow knows a sandbox
    container,              \* the container named after the execution
    policyAnswer,           \* what the policy plane said, if it was asked
    spent,                  \* what the provider billed
    dispatched,             \* how often each call reached the tool proxy
    terminateTried,         \* whether terminateSandbox was attempted
    memory,                 \* what persistMemory stored
    dlq,                    \* the dead_letter_queue row of the execution
    reported                \* whether reportOutcome was attempted

loopState == <<currentIteration, totalCost, seenToolCalls, call, toolCalls>>
sandbox == <<sandboxId, container, terminateTried>>
outcome == <<dlq, reported>>
vars == <<pc, attempt, cancellationRequested, loopState, result, sandbox,
          policyAnswer, spent, dispatched, memory, outcome>>

(* The open stages: the activity each awaits is admitAgent, evaluatePolicy, *)
(* createSandbox, none (the loop's head), callLLM, executeTool,             *)
(* persistMemory (working), persistMemory (session), terminateSandbox and   *)
(* reportOutcome.                                                           *)
Setup == {"admit", "policy", "create"}
Body == {"loop", "llm", "tool", "remember", "finish"}
Open == Setup \cup Body \cup {"finally", "report"}
Closed == {"returned", "failed", "timedOut"}

Statuses == {"SUCCEEDED", "ERROR", "CANCELLED", "MAX_ITERATIONS_REACHED"}
NoCall == "no call"
NoResult == [status |-> "null", iterations |-> 0, totalCost |-> 0, calls |-> 0]
ResultKey == 0  \* the session key of the answer; an iteration's key is its number

(* The AgentResult of the loop, with the accounts as they stand. *)
LoopResult(status, cost) ==
    [status |-> status, iterations |-> currentIteration, totalCost |-> cost,
     calls |-> Len(toolCalls)]

(* The AgentResult of the early returns and of the catch block. *)
BareError == [status |-> "ERROR", iterations |-> 0, totalCost |-> 0, calls |-> 0]

(***************************************************************************)
(* Control: scheduling the next activity, repeating the current one.       *)
(***************************************************************************)
Goto(stage) == pc' = stage /\ attempt' = 1

(* Temporal schedules another attempt of the activity. *)
Again == attempt < MaxAttempts /\ attempt' = attempt + 1 /\ UNCHANGED pc

(* The attempts are used up: the await throws an ActivityFailure. *)
Exhausted == attempt >= MaxAttempts

(* return before the try block.  The record written just before can be     *)
(* lost, and then the workflow fails.                                      *)
ReturnEarly ==
    \/ result' = BareError /\ Goto("returned")
    \/ UNCHANGED result /\ Goto("failed")

(* The catch block: its own record can be lost too, and then the exception *)
(* leaves through the finally block without a result.                      *)
CatchError ==
    /\ \/ result' = BareError
       \/ result' = NoResult
    /\ Goto("finally")

(* result = r; break.  Every break of the loop comes after a record whose  *)
(* loss throws into the catch block.                                       *)
Break(r) ==
    \/ result' = r /\ Goto("finally")
    \/ CatchError

Init ==
    /\ pc = "admit"
    /\ attempt = 1
    /\ cancellationRequested = FALSE
    /\ currentIteration = 0
    /\ totalCost = 0
    /\ seenToolCalls = {}
    /\ call = NoCall
    /\ toolCalls = <<>>
    /\ result = NoResult
    /\ sandboxId = FALSE
    /\ container = "absent"
    /\ policyAnswer = "unasked"
    /\ spent = 0
    /\ dispatched = [k \in CallKeys |-> 0]
    /\ terminateTried = FALSE
    /\ memory = {}
    /\ dlq = [present |-> FALSE, replay_count |-> 0]
    /\ reported = FALSE

(***************************************************************************)
(* Admission and policy.                                                   *)
(***************************************************************************)
(* admitAgent: CreateAgent answered with a phase, or "already exists". *)
AdmitReply ==
    /\ pc = "admit"
    /\ \/ Goto("policy") /\ UNCHANGED result
       \/ ReturnEarly
    /\ UNCHANGED <<cancellationRequested, loopState, sandbox, policyAnswer, spent,
                   dispatched, memory, outcome>>

AdmitThrows ==
    /\ pc = "admit"
    /\ \/ Again /\ UNCHANGED result
       \/ Exhausted /\ ReturnEarly
    /\ UNCHANGED <<cancellationRequested, loopState, sandbox, policyAnswer, spent,
                   dispatched, memory, outcome>>

(* Mutation: evaluatePolicy allows when the policy plane is unreachable. *)
Allows_FailOpen(answer) == answer # "deny"

(* evaluatePolicy fails closed: an error, a timeout, an HTTP failure and a *)
(* malformed answer are all a denial.                                      *)
Allows(answer) == answer = "allow"

PolicyReply ==
    /\ pc = "policy"
    /\ \E answer \in {"allow", "deny", "unreachable"} :
           /\ policyAnswer' = answer
           /\ \/ Allows(answer) /\ Goto("create") /\ UNCHANGED result
              \/ ~Allows(answer) /\ ReturnEarly
    /\ UNCHANGED <<cancellationRequested, loopState, sandbox, spent, dispatched, memory,
                   outcome>>

(* No attempt answers: the await throws outside any try, and so does the   *)
(* workflow.                                                               *)
PolicyLost ==
    /\ pc = "policy"
    /\ \/ Again
       \/ Exhausted /\ Goto("failed")
    /\ UNCHANGED <<cancellationRequested, loopState, result, sandbox, policyAnswer,
                   spent, dispatched, memory, outcome>>

(***************************************************************************)
(* The sandbox is created.                                                 *)
(***************************************************************************)
CreateReply ==
    /\ pc = "create"
    /\ container = "absent"
    /\ container' = "live"
    /\ sandboxId' = TRUE
    /\ Goto("loop")
    /\ UNCHANGED <<cancellationRequested, loopState, result, terminateTried,
                   policyAnswer, spent, dispatched, memory, outcome>>

(* The container was started but the reply missed the 10-second deadline,  *)
(* or the worker died: the workflow never learns the identifier.           *)
CreateLost ==
    /\ pc = "create"
    /\ container = "absent"
    /\ container' = "live"
    /\ \/ Again /\ UNCHANGED result
       \/ Exhausted /\ CatchError
    /\ UNCHANGED <<cancellationRequested, loopState, sandboxId, terminateTried,
                   policyAnswer, spent, dispatched, memory, outcome>>

(* The runtime refused; always so while the name is taken by the container *)
(* of an earlier attempt.                                                  *)
CreateFails ==
    /\ pc = "create"
    /\ \/ Again /\ UNCHANGED result
       \/ Exhausted /\ CatchError
    /\ UNCHANGED <<cancellationRequested, loopState, sandbox, policyAnswer, spent,
                   dispatched, memory, outcome>>

(***************************************************************************)
(* The ReAct loop.                                                         *)
(***************************************************************************)
(* Mutation: currentIteration++ is lost. *)
LoopHead_NoIncrement ==
    /\ pc = "loop"
    /\ \/ currentIteration < maxIterations /\ Goto("llm") /\ UNCHANGED result
       \/ /\ currentIteration >= maxIterations
          /\ Break(LoopResult("MAX_ITERATIONS_REACHED", totalCost))
    /\ UNCHANGED <<cancellationRequested, loopState, sandbox, policyAnswer, spent,
                   dispatched, memory, outcome>>

(* Mutation: the loop's head does not look at the cancellation flag. *)
LoopHead_NoCancelCheck ==
    /\ pc = "loop"
    /\ \/ /\ currentIteration < maxIterations
          /\ currentIteration' = currentIteration + 1
          /\ Goto("llm")
          /\ UNCHANGED result
       \/ /\ currentIteration >= maxIterations
          /\ Break(LoopResult("MAX_ITERATIONS_REACHED", totalCost))
          /\ UNCHANGED currentIteration
    /\ UNCHANGED <<cancellationRequested, totalCost, seenToolCalls, call, toolCalls,
                   sandbox, policyAnswer, spent, dispatched, memory, outcome>>

(* The loop's head: the bound, then the cancellation flag, then the next   *)
(* iteration.  A cancellation during the last iteration is not looked at.  *)
LoopHead ==
    /\ pc = "loop"
    /\ \/ /\ currentIteration < maxIterations
          /\ ~cancellationRequested
          /\ currentIteration' = currentIteration + 1
          /\ Goto("llm")
          /\ UNCHANGED result
       \/ /\ currentIteration < maxIterations
          /\ cancellationRequested
          /\ Break(LoopResult("CANCELLED", totalCost))
          /\ UNCHANGED currentIteration
       \/ /\ currentIteration >= maxIterations
          /\ Break(LoopResult("MAX_ITERATIONS_REACHED", totalCost))
          /\ UNCHANGED currentIteration
    /\ UNCHANGED <<cancellationRequested, totalCost, seenToolCalls, call, toolCalls,
                   sandbox, policyAnswer, spent, dispatched, memory, outcome>>

OverBudget(cost) == costBudget > 0 /\ cost > costBudget

(* The provider bills c and the reply arrives: totalCost += costValue. *)
Billed(c) == spent' = spent + c /\ totalCost' = totalCost + c

(* The reply that crosses the budget ends the execution. *)
LlmOverBudget(c) ==
    /\ pc = "llm"
    /\ Billed(c)
    /\ OverBudget(totalCost + c)
    /\ Break(LoopResult("ERROR", totalCost + c))
    /\ UNCHANGED <<cancellationRequested, currentIteration, seenToolCalls, call,
                   toolCalls, sandbox, policyAnswer, dispatched, memory, outcome>>

LlmFinalAnswer(c) ==
    /\ pc = "llm"
    /\ Billed(c)
    /\ ~OverBudget(totalCost + c)
    /\ Goto("finish")
    /\ UNCHANGED <<cancellationRequested, currentIteration, seenToolCalls, call,
                   toolCalls, result, sandbox, policyAnswer, dispatched, memory, outcome>>

(* A tool call not seen before is executed next. *)
LlmToolCall(c, k) ==
    /\ pc = "llm"
    /\ Billed(c)
    /\ ~OverBudget(totalCost + c)
    /\ k \notin seenToolCalls
    /\ seenToolCalls' = seenToolCalls \cup {k}
    /\ call' = k
    /\ Goto("tool")
    /\ UNCHANGED <<cancellationRequested, currentIteration, toolCalls, result, sandbox,
                   policyAnswer, dispatched, memory, outcome>>

(* Mutation: loop detection only adds a message and executes all the same. *)
LlmRepeatedCall_Executes(c, k) ==
    /\ pc = "llm"
    /\ Billed(c)
    /\ ~OverBudget(totalCost + c)
    /\ k \in seenToolCalls
    /\ call' = k
    /\ Goto("tool")
    /\ UNCHANGED <<cancellationRequested, currentIteration, seenToolCalls, toolCalls,
                   result, sandbox, policyAnswer, dispatched, memory, outcome>>

(* Loop detection: a call seen before is answered with a message. *)
LlmRepeatedCall(c, k) ==
    /\ pc = "llm"
    /\ Billed(c)
    /\ ~OverBudget(totalCost + c)
    /\ k \in seenToolCalls
    /\ Goto("loop")
    /\ UNCHANGED <<cancellationRequested, currentIteration, seenToolCalls, call,
                   toolCalls, result, sandbox, policyAnswer, dispatched, memory, outcome>>

(* A tool call without a name: the model is asked to continue. *)
LlmNothing(c) ==
    /\ pc = "llm"
    /\ Billed(c)
    /\ ~OverBudget(totalCost + c)
    /\ Goto("loop")
    /\ UNCHANGED <<cancellationRequested, currentIteration, seenToolCalls, call,
                   toolCalls, result, sandbox, policyAnswer, dispatched, memory, outcome>>

(* The provider answered and billed, but the reply missed the activity's   *)
(* 10-second deadline (the router itself waits 30 seconds) or its worker   *)
(* died: the cost is not in totalCost, and the attempt is repeated.        *)
LlmReplyLost(c) ==
    /\ pc = "llm"
    /\ spent' = spent + c
    /\ \/ Again /\ UNCHANGED result
       \/ Exhausted /\ Break(LoopResult("ERROR", totalCost))
    /\ UNCHANGED <<cancellationRequested, loopState, sandbox, policyAnswer, dispatched,
                   memory, outcome>>

(* Mutation: an LLM error returns from the workflow instead of breaking. *)
LlmFails_Returns ==
    /\ pc = "llm"
    /\ result' = LoopResult("ERROR", totalCost)
    /\ Goto("returned")
    /\ UNCHANGED <<cancellationRequested, loopState, sandbox, policyAnswer, spent,
                   dispatched, memory, outcome>>

(* An error without a bill: repeated, or final at once when its type is    *)
(* one of nonRetryableErrorTypes (QuotaExceededError).                     *)
LlmFails ==
    /\ pc = "llm"
    /\ \/ Again /\ UNCHANGED result
       \/ Break(LoopResult("ERROR", totalCost))
    /\ UNCHANGED <<cancellationRequested, loopState, sandbox, policyAnswer, spent,
                   dispatched, memory, outcome>>

(***************************************************************************)
(* executeTool.                                                            *)
(***************************************************************************)
(* toolCalls.push(...) *)
Record(status) ==
    /\ toolCalls' = Append(toolCalls,
           [iteration |-> currentIteration, key |-> call, status |-> status])
    /\ Goto("remember")

Dispatch == dispatched' = [dispatched EXCEPT ![call] = @ + 1]

(* The proxy answered, or the gRPC call failed in a way the activity turns *)
(* into a failed result, or the arguments were not worth dispatching.      *)
ToolReply ==
    /\ pc = "tool"
    /\ \/ Dispatch /\ Record("succeeded")
       \/ Dispatch /\ Record("failed")
       \/ UNCHANGED dispatched /\ Record("failed")
    /\ UNCHANGED <<cancellationRequested, currentIteration, totalCost, seenToolCalls,
                   call, result, sandbox, policyAnswer, spent, memory, outcome>>

(* PII_VIOLATION or POLICY_DENIED: the activity throws a plain Error, whose *)
(* type is none of TOOL_RETRY_POLICY's, so Temporal repeats it.  After the  *)
(* last attempt the workflow stops if the failure Temporal hands it still   *)
(* carries the marker in its message, and records a failed call if not.     *)
ToolBlocked ==
    /\ pc = "tool"
    /\ Dispatch
    /\ \/ Again /\ UNCHANGED <<result, toolCalls>>
       \/ Exhausted /\ Break(LoopResult("ERROR", totalCost)) /\ UNCHANGED toolCalls
       \/ Exhausted /\ Record("failed") /\ UNCHANGED result
    /\ UNCHANGED <<cancellationRequested, currentIteration, totalCost, seenToolCalls,
                   call, sandbox, policyAnswer, spent, memory, outcome>>

(* The attempt throws before the dispatch (quota) or its worker dies, maybe *)
(* after the dispatch: repeated, and a failed result after the last one.    *)
ToolLost ==
    /\ pc = "tool"
    /\ Dispatch \/ UNCHANGED dispatched
    /\ \/ Again /\ UNCHANGED toolCalls
       \/ Exhausted /\ Record("failed")
    /\ UNCHANGED <<cancellationRequested, currentIteration, totalCost, seenToolCalls,
                   call, result, sandbox, policyAnswer, spent, memory, outcome>>

(* persistMemory of the iteration: a failure is not fatal. *)
Remember ==
    /\ pc = "remember"
    /\ memory' = memory \cup {currentIteration} \/ UNCHANGED memory
    /\ Goto("loop")
    /\ UNCHANGED <<cancellationRequested, loopState, result, sandbox, policyAnswer,
                   spent, dispatched, outcome>>

(* persistMemory of the final answer, then the result. *)
Finish ==
    /\ pc = "finish"
    /\ memory' = memory \cup {ResultKey} \/ UNCHANGED memory
    /\ Break(LoopResult("SUCCEEDED", totalCost))
    /\ UNCHANGED <<cancellationRequested, loopState, sandbox, policyAnswer, spent,
                   dispatched, outcome>>

(* No attempt of the recordObservability before or after an activity       *)
(* answers (it never throws itself): the workflow fails before the try     *)
(* block, and inside it goes to the catch block.                           *)
ObservabilityLost ==
    /\ attempt = 1
    /\ \/ pc \in Setup /\ Goto("failed") /\ UNCHANGED result
       \/ pc \in {"loop", "llm", "tool"} /\ CatchError
    /\ UNCHANGED <<cancellationRequested, loopState, sandbox, policyAnswer, spent,
                   dispatched, memory, outcome>>

(***************************************************************************)
(* The finally block and the report.                                       *)
(***************************************************************************)
(* A pending exception leaves the workflow, a result is reported. *)
AfterFinally == Goto(IF result = NoResult THEN "failed" ELSE "report")

NoSandbox ==
    /\ pc = "finally"
    /\ ~sandboxId
    /\ AfterFinally
    /\ UNCHANGED <<cancellationRequested, loopState, result, sandbox, policyAnswer,
                   spent, dispatched, memory, outcome>>

(* The runtime removed the container, or answered success: false, which is *)
(* not an error and is not repeated.                                       *)
TerminateReply ==
    /\ pc = "finally"
    /\ sandboxId
    /\ terminateTried' = TRUE
    /\ container' = "gone" \/ UNCHANGED container
    /\ AfterFinally
    /\ UNCHANGED <<cancellationRequested, loopState, result, sandboxId, policyAnswer,
                   spent, dispatched, memory, outcome>>

(* The call failed or its reply was lost; the last failure is swallowed. *)
TerminateLost ==
    /\ pc = "finally"
    /\ sandboxId
    /\ terminateTried' = TRUE
    /\ container' = "gone" \/ UNCHANGED container
    /\ \/ Again
       \/ Exhausted /\ AfterFinally
    /\ UNCHANGED <<cancellationRequested, loopState, result, sandboxId, policyAnswer,
                   spent, dispatched, memory, outcome>>

(* INSERT ... ON CONFLICT (execution_id) keeps replay_count; only ERROR    *)
(* outcomes are written.                                                   *)
Upsert ==
    dlq' = IF result.status = "ERROR" THEN [dlq EXCEPT !.present = TRUE] ELSE dlq

(* reportOutcome: a database error is swallowed. *)
Report ==
    /\ pc = "report"
    /\ reported' = TRUE
    /\ Upsert \/ UNCHANGED dlq
    /\ Goto("returned")
    /\ UNCHANGED <<cancellationRequested, loopState, result, sandbox, policyAnswer,
                   spent, dispatched, memory>>

(* The row was written but the attempt did not answer: one more attempt    *)
(* (its policy allows two), then .catch(() => {}).                         *)
ReportLost ==
    /\ pc = "report"
    /\ reported' = TRUE
    /\ Upsert
    /\ \/ attempt < 2 /\ attempt' = attempt + 1 /\ UNCHANGED pc
       \/ attempt >= 2 /\ Goto("returned")
    /\ UNCHANGED <<cancellationRequested, loopState, result, sandbox, policyAnswer,
                   spent, dispatched, memory>>

(***************************************************************************)
(* The environment.                                                        *)
(***************************************************************************)
(* cancelExecution: the signal handler runs while the workflow is open. *)
Cancel ==
    /\ pc \in Open
    /\ cancellationRequested' = TRUE
    /\ UNCHANGED <<pc, attempt, loopState, result, sandbox, policyAnswer, spent, dispatched,
                   memory, outcome>>

(* workflowExecutionTimeout: Temporal closes the workflow where it is; no  *)
(* finally block runs.                                                     *)
ExecutionTimeout ==
    /\ pc \in Open
    /\ Goto("timedOut")
    /\ UNCHANGED <<cancellationRequested, loopState, result, sandbox, policyAnswer,
                   spent, dispatched, memory, outcome>>

(* POST /dlq/:id/replay: counts the replay. *)
DlqReplay ==
    /\ dlq.present
    /\ dlq.replay_count < MaxReplays
    /\ dlq' = [dlq EXCEPT !.replay_count = @ + 1]
    /\ UNCHANGED <<pc, attempt, cancellationRequested, loopState, result, sandbox,
                   policyAnswer, spent, dispatched, memory, reported>>

Step ==
    \/ AdmitReply \/ AdmitThrows \/ PolicyReply \/ PolicyLost
    \/ CreateReply \/ CreateLost \/ CreateFails
    \/ LoopHead
    \/ \E c \in Costs :
          \/ LlmOverBudget(c) \/ LlmFinalAnswer(c) \/ LlmNothing(c) \/ LlmReplyLost(c)
          \/ \E k \in CallKeys : LlmToolCall(c, k) \/ LlmRepeatedCall(c, k)
    \/ LlmFails
    \/ ToolReply \/ ToolBlocked \/ ToolLost
    \/ Remember \/ Finish \/ ObservabilityLost
    \/ NoSandbox \/ TerminateReply \/ TerminateLost
    \/ Report \/ ReportLost

Next == Step \/ Cancel \/ ExecutionTimeout \/ DlqReplay

(* Temporal keeps scheduling an open workflow; nothing obliges a user to   *)
(* cancel, an admin to replay or the clock to run out.                     *)
Spec == Init /\ [][Next]_vars /\ WF_vars(Step)

(***************************************************************************)
(* Properties.                                                             *)
(***************************************************************************)
(* The type invariant. *)
TypeOK ==
    /\ pc \in Open \cup Closed
    /\ attempt \in 1 .. (IF MaxAttempts < 2 THEN 2 ELSE MaxAttempts)
    /\ cancellationRequested \in BOOLEAN
    /\ currentIteration \in 0 .. maxIterations
    /\ totalCost \in Nat
    /\ seenToolCalls \subseteq CallKeys
    /\ call \in CallKeys \cup {NoCall}
    /\ toolCalls \in Seq([iteration : 1 .. maxIterations, key : CallKeys,
                          status : {"succeeded", "failed"}])
    /\ result \in [status : Statuses \cup {"null"}, iterations : Nat, totalCost : Nat,
                   calls : Nat]
    /\ sandboxId \in BOOLEAN
    /\ container \in {"absent", "live", "gone"}
    /\ policyAnswer \in {"unasked", "allow", "deny", "unreachable"}
    /\ spent \in Nat
    /\ dispatched \in [CallKeys -> Nat]
    /\ terminateTried \in BOOLEAN
    /\ memory \subseteq 0 .. maxIterations
    /\ dlq \in [present : BOOLEAN, replay_count : Nat]
    /\ reported \in BOOLEAN

(* Fail closed: no container, no provider call and no tool call without an *)
(* explicit "allow" of the policy plane, retries and failures included.    *)
EffectsNeedPermission ==
    \/ container # "absent"
    \/ spent > 0
    \/ \E k \in CallKeys : dispatched[k] > 0
    => policyAnswer = "allow"

(* Once the accounts are over the budget no further generation, tool call  *)
(* or answer happens: at most one reply crosses the budget.                *)
BudgetStops == OverBudget(totalCost) => pc \notin Body

(* Loop detection: however often the model repeats itself, a call is       *)
(* recorded once and reaches the tool proxy only by Temporal's retries.    *)
CallsExecutedOnce ==
    /\ \A i, j \in 1 .. Len(toolCalls) : toolCalls[i].key = toolCalls[j].key => i = j
    /\ \A k \in CallKeys : dispatched[k] <= MaxAttempts

(* An execution's effects on the world are permitted, paid for and made    *)
(* once, whatever the model replies and whichever reply is lost.           *)
EffectsSound == TypeOK /\ EffectsNeedPermission /\ BudgetStops /\ CallsExecutedOnce

(* A result that is not an ERROR accounts for every tool call the workflow *)
(* let through, for all its iterations and for the cost it added up.       *)
ResultAccounts ==
    result # NoResult /\ result.status # "ERROR" =>
        /\ result.calls = Cardinality(seenToolCalls)
        /\ result.iterations = currentIteration
        /\ result.totalCost = totalCost

(* A sandbox the workflow knows is asked to terminate before the workflow  *)
(* returns or fails, whichever error path it took.                         *)
KnownSandboxTerminated == pc \in {"returned", "failed"} /\ sandboxId => terminateTried

(* Past the policy check every ERROR result is handed to reportOutcome     *)
(* before the workflow returns it, so that it can enter the dead-letter    *)
(* queue.                                                                  *)
ErrorsReported ==
    pc = "returned" /\ result.status = "ERROR" /\ policyAnswer = "allow" => reported

(* What the workflow owes when it closes, on every one of its error paths. *)
ClosingDuties == KnownSandboxTerminated /\ ErrorsReported /\ ResultAccounts

(* After a cancellation no further iteration starts. *)
CancelStopsLoop ==
    [][cancellationRequested => currentIteration' = currentIteration]_vars

(* Every execution closes: retries, repeated calls and lost replies are    *)
(* all bounded.                                                            *)
EventuallyCloses == <>(pc \in Closed)

(* The loop ends: at once after a cancellation, and otherwise in time.     *)
LoopEnds == CancelStopsLoop /\ EventuallyCloses

(***************************************************************************)
(* What the repository says, and the code does not do.                     *)
(***************************************************************************)
(* react-workflow.ts: "Always terminate the sandbox if one was created". *)
CreatedSandboxTerminated ==
    pc = "returned" /\ container # "absent" => terminateTried
=============================================================================
