-------------------------------- MODULE Quotas --------------------------------
(***************************************************************************)
(* QuotaEnforcer (packages/shared/src/quotas/enforcer.ts) as the activities*)
(* of the workflow engine use it (waitForQuota), for one namespace.        *)
(*                                                                         *)
(* getRedis never answers a client: import("redis") has a default export,  *)
(* the module's object, which is not a function.  Every check and release  *)
(* therefore works on fallbackCounts, in the memory of the process and in  *)
(* one step.  "conc" (concurrent_executions) is held by callLLM while its  *)
(* gRPC call lasts, at most up to the deadline; "rate"                     *)
(* (tool_calls_per_minute) lets executeTool through.  Time is kept as ages.*)
(***************************************************************************)
EXTENDS Integers, Sequences, FiniteSets, Subsequences

CONSTANTS
  Workers,       \* activities running at the same time
  QuotaLimit,    \* getTierLimit of either resource
  WindowTicks,   \* windowSeconds
  WaitTicks,     \* maxWaitMs of waitForQuota
  MaxLosses      \* bound on the restarts of the workers' process

ASSUME QuotaAssumption ==
  IsFiniteSet(Workers) /\ QuotaLimit \in Nat \ {0} /\ WindowTicks \in Nat \ {0}
  /\ WaitTicks \in Nat /\ MaxLosses \in Nat

VARIABLES
  slots,      \* the count of "conc"
  calls,      \* the count of "rate", and the age of its windowStart
  job,        \* per worker, where its activity stands, and how long it has waited
  through,    \* history: ages of the tool calls let through, oldest first, up to WindowTicks
  losses      \* restarts so far

quotaVars == <<slots, calls, job, through, losses>>

NoJob == [pc |-> "idle", waited |-> 0]
Holders == {w \in Workers : job[w].pc = "hold"}
Waiting(w) == job[w].pc \in {"waitConc", "waitRate"}

QuotaTypeOK ==
  /\ slots \in 0 .. QuotaLimit
  /\ calls.count \in 0 .. QuotaLimit /\ calls.age \in 0 .. WindowTicks + 1
  /\ \A w \in Workers :
       /\ job[w].pc \in {"idle", "waitConc", "waitRate", "hold"}
       /\ job[w].waited \in 0 .. WaitTicks
  /\ \A i \in DOMAIN through : through[i] \in 0 .. WindowTicks
  /\ losses \in 0 .. MaxLosses

(* No entry yet counts like one whose window is over. *)
NoWindow == [count |-> 0, age |-> WindowTicks + 1]

QuotaInit ==
  /\ slots = 0 /\ calls = NoWindow /\ through = <<>>
  /\ job = [w \in Workers |-> NoJob]
  /\ losses = 0

Set(w, pc) == job' = [job EXCEPT ![w] = [NoJob EXCEPT !.pc = pc]]

-----------------------------------------------------------------------------
(* waitForQuota: check, sleep at most ten seconds, check again; the check after maxWaitMs    *)
(* is the last.  A refused check leaves the counts as they were.                              *)

WaitForQuota(w, pc) ==
  /\ job[w].pc = "idle"
  /\ Set(w, pc)
  /\ UNCHANGED <<slots, calls, through, losses>>

WaitedOn_Anew(w) == 0
WaitedOn(w) == job[w].waited

Refused(w) ==
  /\ IF job[w].waited >= WaitTicks THEN Set(w, "idle")
     ELSE job' = [job EXCEPT ![w].waited = WaitedOn(w)]
  /\ UNCHANGED <<slots, calls, through, losses>>

(* checkFallback, concurrent: below the limit, count one. *)
CheckConc(w) ==
  /\ job[w].pc = "waitConc"
  /\ \/ slots >= QuotaLimit /\ Refused(w)
     \/ /\ slots < QuotaLimit
        /\ slots' = slots + 1 /\ Set(w, "hold")
        /\ UNCHANGED <<calls, through, losses>>

(* checkFallback, rate: the first call after a window is over begins the next. *)
Anew_Always == TRUE
Anew == calls.age > WindowTicks
WindowNow == IF Anew THEN [count |-> 0, age |-> 0] ELSE calls

CheckRate(w) ==
  /\ job[w].pc = "waitRate"
  /\ \/ WindowNow.count >= QuotaLimit /\ Refused(w)
     \/ /\ WindowNow.count < QuotaLimit
        /\ calls' = [WindowNow EXCEPT !.count = @ + 1]
        /\ through' = Append(through, 0) /\ Set(w, "idle")
        /\ UNCHANGED <<slots, losses>>

(* The finally block of callLLM: whether the call was answered or failed. *)
Released_OnSuccess(ok) == IF ok THEN slots - 1 ELSE slots
Released(ok) == IF slots > 0 THEN slots - 1 ELSE 0

Release(w, ok) ==
  /\ job[w].pc = "hold"
  /\ slots' = Released(ok) /\ Set(w, "idle")
  /\ UNCHANGED <<calls, through, losses>>

-----------------------------------------------------------------------------
(* A restart of the process drops the counts with the activities that explain them; the     *)
(* tool calls let through were let through.                                                   *)
WorkerRestart ==
  /\ losses < MaxLosses /\ losses' = losses + 1
  /\ job' = [w \in Workers |-> NoJob]
  /\ slots' = 0 /\ calls' = NoWindow
  /\ UNCHANGED through

UpTo(n, bound) == IF n < bound THEN n ELSE bound
QuotaTick ==
  /\ calls' = [calls EXCEPT !.age = UpTo(@ + 1, WindowTicks + 1)]
  /\ job' = [w \in Workers |-> [job[w] EXCEPT !.waited = IF Waiting(w) THEN UpTo(@ + 1, WaitTicks) ELSE @]]
  /\ LET recent == Keep(through, {i \in DOMAIN through : through[i] < WindowTicks})
     IN through' = [i \in DOMAIN recent |-> recent[i] + 1]
  /\ UNCHANGED <<slots, losses>>

QuotaCheck(w) == CheckConc(w) \/ CheckRate(w)

QuotaNext ==
  \/ \E w \in Workers :
       \/ WaitForQuota(w, "waitConc") \/ WaitForQuota(w, "waitRate")
       \/ QuotaCheck(w)
       \/ \E ok \in BOOLEAN : Release(w, ok)
  \/ WorkerRestart \/ QuotaTick

-----------------------------------------------------------------------------
(* The slots counted are those held, never more than the limit, through calls that fail,     *)
(* refusals and restarts: none leaks, none is given out twice.  And no span as long as the    *)
(* window lets more tool calls through than twice the limit (two windows touch it, for the    *)
(* window does not slide), and the limit once more per restart.                               *)
QuotaHolds ==
  /\ QuotaTypeOK
  /\ slots = Cardinality(Holders)
  /\ Len(through) <= QuotaLimit * (2 + losses)

(* So the quotas hold while they serve: an activity that waits is let through or, after       *)
(* maxWaitMs, given up, however busy the others keep it, and full slots do not stay full.     *)
QuotaServes ==
  /\ []QuotaHolds
  /\ \A w \in Workers : Waiting(w) ~> ~Waiting(w)
  /\ slots = QuotaLimit ~> slots < QuotaLimit
=============================================================================
