-------------------------------- MODULE Budgets --------------------------------
(***************************************************************************)
(* The two token budgets of one namespace (packages/shared/src/budget).    *)
(* Costs are added and compared as the tokens are and are left out.        *)
(*                                                                         *)
(* persistent-budget.ts: limits and daily usage are rows in PostgreSQL,    *)
(* and every query of concurrent callers is a step.  A month is the days   *)
(* 1 .. MaxDay; a limit of 0 is read as the default.                       *)
(*                                                                         *)
(* TokenBudget (tracker.ts): in memory, with a window of a day for tokens  *)
(* and one of a minute for requests.  A window starts with the first       *)
(* access after the last has run out.                                      *)
(***************************************************************************)
EXTENDS Naturals, Sequences, FiniteSets, Functions

CONSTANTS
  Callers,        \* concurrent calls of recordUsage and setBudget
  Amounts,        \* tokens of one request
  Limits,         \* values setBudget is called with (0 included)
  DefaultLimit,   \* DEFAULT_DAILY_TOKEN_LIMIT, DEFAULT_MONTHLY_TOKEN_LIMIT
  MaxDay,         \* days of the month
  MaxUse          \* bound on the requests recorded

ASSUME BudgetAssumption ==
  /\ IsFiniteSet(Callers) /\ Amounts \subseteq Nat \ {0} /\ Limits \subseteq Nat
  /\ DefaultLimit \in Nat \ {0} /\ MaxDay \in Nat \ {0} /\ MaxUse \in Nat

VARIABLES
  budget,     \* the row of namespace_budgets: daily and monthly limit
  usage,      \* tokens_used per day
  day,        \* the current day
  call,       \* per caller, its request and what it has read
  granted,    \* history: per day, tokens of requests answered allowed, recorded since a reset
  ceiling     \* history: the largest limits in force so far

budgetVars == <<budget, usage, day, call, granted, ceiling>>

Days == 1 .. MaxDay
Periods == {"daily", "monthly"}
DefaultBudget == [p \in Periods |-> DefaultLimit]
NoCall == [pc |-> "idle", n |-> 0, day |-> 0, limits |-> DefaultBudget, daily |-> 0, kept |-> FALSE]
Total(f) == SumFunctionOnSet(f, Days)

(* rowToBudget: Number(x) || DEFAULT *)
RowToBudget(b) == [p \in Periods |-> IF b[p] = 0 THEN DefaultLimit ELSE b[p]]
Higher(a, b) == [p \in Periods |-> IF a[p] > b[p] THEN a[p] ELSE b[p]]

BudgetTypeOK ==
  /\ budget \in [Periods -> Limits \cup {DefaultLimit}]
  /\ usage \in [Days -> Nat] /\ granted \in [Days -> Nat] /\ day \in Days
  /\ \A c \in Callers : call[c].pc \in {"idle", "merge", "upsert", "daily", "monthly"}

BudgetInit ==
  /\ budget = DefaultBudget
  /\ usage = [d \in Days |-> 0] /\ granted = [d \in Days |-> 0]
  /\ day = 1
  /\ call = [c \in Callers |-> NoCall]
  /\ ceiling = DefaultBudget

-----------------------------------------------------------------------------
(* setBudget: read, merge the fields given, write all of them. *)

SetBudget(c, p, l) ==
  /\ call[c].pc = "idle"
  /\ call' = [call EXCEPT ![c] = [NoCall EXCEPT !.pc = "merge",
                                    !.limits = [RowToBudget(budget) EXCEPT ![p] = l]]]
  /\ UNCHANGED <<budget, usage, day, granted, ceiling>>

UpsertBudget(c) ==
  /\ call[c].pc = "merge"
  /\ budget' = call[c].limits
  /\ ceiling' = Higher(ceiling, RowToBudget(call[c].limits))
  /\ call' = [call EXCEPT ![c] = NoCall]
  /\ UNCHANGED <<usage, day, granted>>

(* recordUsage: the limits and the date first, then the usage is added, then read back. *)
RecordUsage(c, n) ==
  /\ call[c].pc = "idle" /\ Total(usage) < MaxUse
  /\ call' = [call EXCEPT ![c] = [NoCall EXCEPT !.pc = "upsert", !.n = n, !.day = day,
                                    !.limits = RowToBudget(budget)]]
  /\ UNCHANGED <<budget, usage, day, granted, ceiling>>

UpsertUsage(c) ==
  /\ call[c].pc = "upsert"
  /\ usage' = [usage EXCEPT ![call[c].day] = @ + call[c].n]
  /\ call' = [call EXCEPT ![c].pc = "daily", ![c].kept = TRUE]
  /\ UNCHANGED <<budget, day, granted, ceiling>>

ReadDaily(c) ==
  /\ call[c].pc = "daily"
  /\ call' = [call EXCEPT ![c].pc = "monthly", ![c].daily = usage[call[c].day]]
  /\ UNCHANGED <<budget, usage, day, granted, ceiling>>

(* The monthly total is read last; usage may equal its limit, and RPM_EXCEEDED can refuse at any time. *)
Allowed_BeforeOwn(c) ==
  /\ call[c].daily - call[c].n <= call[c].limits["daily"]
  /\ Total(usage) - call[c].n <= call[c].limits["monthly"]
Allowed(c) == call[c].daily <= call[c].limits["daily"] /\ Total(usage) <= call[c].limits["monthly"]

Decide(c) ==
  /\ call[c].pc = "monthly"
  /\ \/ /\ Allowed(c)
        /\ granted' = IF call[c].kept THEN [granted EXCEPT ![call[c].day] = @ + call[c].n] ELSE granted
     \/ UNCHANGED granted
  /\ call' = [call EXCEPT ![c] = NoCall]
  /\ UNCHANGED <<budget, usage, day, ceiling>>

(* resetUsage of a day, or of the month.  Calls recorded before it no longer count. *)
ResetUsage(ds) ==
  /\ usage' = [d \in Days |-> IF d \in ds THEN 0 ELSE usage[d]]
  /\ granted' = [d \in Days |-> IF d \in ds THEN 0 ELSE granted[d]]
  /\ call' = [c \in Callers |-> [call[c] EXCEPT !.kept = @ /\ call[c].day \notin ds]]
  /\ UNCHANGED <<budget, day, ceiling>>

NextDay ==
  /\ day < MaxDay
  /\ day' = day + 1
  /\ UNCHANGED <<budget, usage, call, granted, ceiling>>

BudgetNext ==
  \/ \E c \in Callers :
       \/ \E p \in Periods, l \in Limits : SetBudget(c, p, l)
       \/ \E n \in Amounts : RecordUsage(c, n)
       \/ UpsertBudget(c) \/ UpsertUsage(c) \/ ReadDaily(c) \/ Decide(c)
  \/ ResetUsage({day}) \/ ResetUsage(Days)
  \/ NextDay

-----------------------------------------------------------------------------
(* Usage is recorded before it is compared, so concurrent calls of recordUsage that are *)
(* all answered "allowed" never add up to more than the largest limit that was in force, *)
(* for the day and for the month, whatever reads of theirs interleave with writes.       *)
AllowedWithinBudget ==
  /\ BudgetTypeOK
  /\ \A d \in Days : granted[d] <= ceiling["daily"]
  /\ Total(granted) <= ceiling["monthly"]

-----------------------------------------------------------------------------
(* The budget in memory. *)

CONSTANTS
  MeterAmounts,   \* tokens of one request
  TokenLimits,    \* values of maxTokensPerDay given to setAllocation
  RequestLimits,  \* values of maxRequestsPerMinute
  DayTicks,       \* DAY_MS
  MinuteTicks,    \* MINUTE_MS
  MaxMeterClock, MaxGrants   \* bounds on the clock and on the requests allowed

ASSUME MeterAssumption ==
  /\ MeterAmounts \subseteq Nat /\ TokenLimits \subseteq Nat /\ RequestLimits \subseteq Nat
  /\ DayTicks \in Nat \ {0} /\ MinuteTicks \in 1 .. DayTicks /\ MaxMeterClock \in Nat /\ MaxGrants \in Nat

VARIABLES
  allocation,   \* the allocation in force
  meter,        \* the namespace's BudgetState, if it has one
  meterClock,   \* Date.now()
  grants,       \* history: the requests allowed since the last reset, with their times
  peak          \* history: the largest allocations in force so far

meterVars == <<allocation, meter, meterClock, grants, peak>>

DayAndMinute == [tokens : Nat, requests : Nat]
NoMeter == [tokens |-> 0, requests |-> 0, windowStart |-> 0, dayStart |-> 0, kept |-> FALSE]

(* The type invariant. *)
MeterTypeOK ==
  /\ allocation \in DayAndMinute /\ peak \in DayAndMinute
  /\ meterClock \in 0 .. MaxMeterClock
  /\ meter \in [tokens : Nat, requests : Nat, windowStart : 0 .. meterClock,
                dayStart : 0 .. meterClock, kept : BOOLEAN]
  /\ grants \in Seq([at : 0 .. meterClock, tokens : MeterAmounts])

(* constructor: the defaults, or the values it is given. *)
MeterInit ==
  /\ \E t \in TokenLimits, r \in RequestLimits : allocation = [tokens |-> t, requests |-> r]
  /\ peak = allocation
  /\ meter = NoMeter /\ meterClock = 0 /\ grants = <<>>

-----------------------------------------------------------------------------
Larger(a, b) == IF a > b THEN a ELSE b

(* setAllocation changes the fields it is given. *)
SetAllocation(a) ==
  /\ a # allocation /\ (a.tokens = allocation.tokens \/ a.requests = allocation.requests)
  /\ allocation' = a
  /\ peak' = [tokens |-> Larger(peak.tokens, a.tokens), requests |-> Larger(peak.requests, a.requests)]
  /\ UNCHANGED <<meter, meterClock, grants>>

(* getState: the state is made when it is missing, and each window that has run out starts anew. *)
DayOver(s) == meterClock - s.dayStart >= DayTicks
WindowOver(s) == meterClock - s.windowStart >= MinuteTicks
Started == IF meter.kept THEN meter
           ELSE [NoMeter EXCEPT !.windowStart = meterClock, !.dayStart = meterClock, !.kept = TRUE]

(* Mutation: the day's counter is reset, its start is not. *)
NewDay_NoStart(s) == [s EXCEPT !.tokens = 0]
NewDay(s) == [s EXCEPT !.tokens = 0, !.dayStart = meterClock]
NewWindow(s) == [s EXCEPT !.requests = 0, !.windowStart = meterClock]
GetState ==
  LET today == IF DayOver(Started) THEN NewDay(Started) ELSE Started
  IN IF WindowOver(today) THEN NewWindow(today) ELSE today

(* tryConsume.  A request may use up the day's tokens exactly. *)
Consumable(s, n) == s.requests < allocation.requests /\ s.tokens + n <= allocation.tokens
TryConsume(n) ==
  /\ Len(grants) < MaxGrants
  /\ IF Consumable(GetState, n)
     THEN /\ meter' = [GetState EXCEPT !.requests = @ + 1, !.tokens = @ + n]
          /\ grants' = Append(grants, [at |-> meterClock, tokens |-> n])
     ELSE meter' = GetState /\ UNCHANGED grants
  /\ UNCHANGED <<allocation, meterClock, peak>>

(* getUsage and isExhausted read the state, and renew it. *)
GetUsage ==
  /\ meter # GetState /\ meter' = GetState
  /\ UNCHANGED <<allocation, meterClock, grants, peak>>

(* reset, resetAll. *)
ResetMeter ==
  /\ meter.kept
  /\ meter' = NoMeter /\ grants' = <<>>
  /\ UNCHANGED <<allocation, meterClock, peak>>

MeterTick ==
  /\ meterClock < MaxMeterClock /\ meterClock' = meterClock + 1
  /\ UNCHANGED <<allocation, meter, grants, peak>>

MeterNext ==
  \/ \E t \in TokenLimits, r \in RequestLimits : SetAllocation([tokens |-> t, requests |-> r])
  \/ \E n \in MeterAmounts : TryConsume(n)
  \/ GetUsage \/ ResetMeter \/ MeterTick

-----------------------------------------------------------------------------
Between(from, ticks) == {i \in DOMAIN grants : grants[i].at >= from /\ grants[i].at < from + ticks}
TokensIn(I) == SumFunctionOnSet([i \in I |-> grants[i].tokens], I)

(* What is counted since a window's start is what was allowed since then and within the     *)
(* largest allocation; and wherever the windows happen to start and however the allocation  *)
(* changes, no span as long as a window sees more than twice that allocation.                *)
MeterHolds ==
  /\ MeterTypeOK
  /\ meter.kept =>
       /\ meter.tokens = TokensIn(Between(meter.dayStart, DayTicks)) /\ meter.tokens <= peak.tokens
       /\ meter.requests = Cardinality(Between(meter.windowStart, MinuteTicks)) /\ meter.requests <= peak.requests
  /\ \A from \in 0 .. meterClock :
       /\ TokensIn(Between(from, DayTicks)) <= 2 * peak.tokens
       /\ Cardinality(Between(from, MinuteTicks)) <= 2 * peak.requests
=============================================================================
