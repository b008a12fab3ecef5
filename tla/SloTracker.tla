------------------------------ MODULE SloTracker ------------------------------
(***************************************************************************)
(* SLOTracker (packages/shared/src/slo), which the API server's SLO route  *)
(* asks for a snapshot: samples recorded with their time, of which only    *)
(* the last ones are kept, and the verdicts computed from those inside the *)
(* window.  Ratios are compared exactly; where the code compares two equal *)
(* ones in floating point, either outcome is possible.                     *)
(***************************************************************************)
EXTENDS Naturals, Sequences, FiniteSets, Functions

CONSTANTS
  SloSamples,      \* samples: requests, failures and the latency bucket of the requests
  MaxHistory,      \* maxHistoryPerSLO (1440)
  SloWindow,       \* window of the snapshot
  BurnWindows,     \* BURN_RATE_WINDOWS
  AllowedPart,     \* availability target: one request in AllowedPart may fail
  LatencyTarget,   \* latency target
  MaxClock,        \* bound on time
  MaxSamples       \* bound on the samples between two clears

ASSUME SloAssumption ==
  /\ SloSamples \subseteq [total : Nat, failed : Nat, bucket : Nat]
  /\ MaxHistory \in Nat \ {0} /\ SloWindow \in Nat /\ BurnWindows \subseteq Nat
  /\ AllowedPart \in Nat \ {0} /\ LatencyTarget \in Nat /\ MaxClock \in Nat /\ MaxSamples \in Nat

VARIABLES
  sloType,     \* "availability" or "latency"
  history,     \* the samples kept, with their times
  sloClock,    \* Date.now()
  report,      \* the last snapshot
  sampled      \* history variable: every sample since the tracker was last cleared

sloVars == <<sloType, history, sloClock, report, sampled>>

NoReport == [made |-> FALSE]

(* The type invariant; the history never grows beyond its bound. *)
SloTypeOK ==
  /\ sloType \in {"availability", "latency"} /\ sloClock \in 0 .. MaxClock
  /\ history \in Seq([at : 0 .. MaxClock, sample : SloSamples]) /\ Len(history) <= MaxHistory
  /\ sampled \in Seq([at : 0 .. MaxClock, sample : SloSamples]) /\ report.made \in BOOLEAN

SloInit ==
  /\ sloType \in {"availability", "latency"}
  /\ history = <<>> /\ sampled = <<>> /\ sloClock = 0 /\ report = NoReport

-----------------------------------------------------------------------------
Kept_First(h) == IF Len(h) > MaxHistory THEN SubSeq(h, 1, MaxHistory) ELSE h
Kept(h) == IF Len(h) > MaxHistory THEN SubSeq(h, Len(h) - MaxHistory + 1, Len(h)) ELSE h

Record(s) ==
  LET h == Append(history, [at |-> sloClock, sample |-> s]) IN
  /\ Len(sampled) < MaxSamples
  /\ history' = Kept(h)
  /\ sampled' = Append(sampled, [at |-> sloClock, sample |-> s])
  /\ report' = NoReport /\ UNCHANGED <<sloType, sloClock>>

(* clear; reset and define leave an SLO without samples as well. *)
ClearSlo ==
  /\ history # <<>>
  /\ history' = <<>> /\ sampled' = <<>> /\ report' = NoReport
  /\ UNCHANGED <<sloType, sloClock>>

-----------------------------------------------------------------------------
(* aggregateSamples and computePercentileFromBuckets, of the samples at the places I of h. *)
Within(h, I, w) == {i \in I : h[i].at + w >= sloClock}
Requested(h, I) == SumFunctionOnSet([i \in I |-> h[i].sample.total], I)
Failed(h, I) == SumFunctionOnSet([i \in I |-> h[i].sample.failed], I)
InBuckets(h, I, b) == Requested(h, {i \in I : h[i].sample.bucket <= b})
P95(h, I) ==
  LET buckets == {h[i].sample.bucket : i \in I}
      reach == {b \in buckets : 100 * InBuckets(h, I, b) >= 95 * Requested(h, I)}
  IN IF Requested(h, I) = 0 THEN 0 ELSE CHOOSE b \in reach : \A c \in reach : b <= c

(* Outcomes of comparing a measured ratio with the target: a > b, in floating point. *)
Above(a, b) == IF a = b /\ a # 0 THEN BOOLEAN ELSE {a > b}
FailureShare(h, I) == AllowedPart * Failed(h, I)

(* computeErrorBudget: floor((1 - target) * total), perhaps one less where that is exact. *)
AllowedFailures(h, I) ==
  LET n == Requested(h, I) \div AllowedPart
  IN IF n > 0 /\ n * AllowedPart = Requested(h, I) THEN {n - 1, n} ELSE {n}
Consumed(h, I) ==
  IF sloType = "latency" THEN {P95(h, I) > LatencyTarget}
  ELSE {Failed(h, I) >= n : n \in AllowedFailures(h, I)}
Breached(h, I) ==
  IF sloType = "latency" THEN {P95(h, I) > LatencyTarget} ELSE Above(FailureShare(h, I), Requested(h, I))
Burning(h, I) ==
  IF sloType = "latency" THEN {P95(h, I) > LatencyTarget} ELSE Above(FailureShare(h, I), Requested(h, I))

(* snapshot: the burn rates are computed from the samples of the snapshot's window, so a  *)
(* wider burn window sees no more than that.                                              *)
Snapshot ==
  LET inWindow == Within(history, DOMAIN history, SloWindow) IN
  /\ \E breached \in Breached(history, inWindow), consumed \in Consumed(history, inWindow) :
     \E burning \in [BurnWindows -> BOOLEAN] :
       /\ \A w \in BurnWindows : burning[w] \in Burning(history, Within(history, inWindow, w))
       /\ report' = [made |-> TRUE, breached |-> breached, consumed |-> consumed, burning |-> burning]
  /\ UNCHANGED <<sloType, history, sloClock, sampled>>

SloTick ==
  /\ sloClock < MaxClock /\ sloClock' = sloClock + 1 /\ report' = NoReport
  /\ UNCHANGED <<sloType, history, sampled>>

SloNext == (\E s \in SloSamples : Record(s)) \/ ClearSlo \/ Snapshot \/ SloTick

-----------------------------------------------------------------------------
(* While no more samples fall into a window than the tracker keeps, a snapshot speaks for *)
(* all of them, those recorded first among them: an objective they miss is reported       *)
(* breached, its budget consumed and every burn window as wide as the snapshot burning,   *)
(* and one they meet is not reported breached.                                            *)
ReportSpeaksForAll ==
  LET all == Within(sampled, DOMAIN sampled, SloWindow)
      missed == IF sloType = "latency" THEN P95(sampled, all) > LatencyTarget
                ELSE FailureShare(sampled, all) > Requested(sampled, all)
      met == IF sloType = "latency" THEN ~missed
             ELSE FailureShare(sampled, all) < Requested(sampled, all) \/ Failed(sampled, all) = 0
  IN /\ SloTypeOK
     /\ (report.made /\ Cardinality(all) <= MaxHistory) =>
          /\ missed => /\ report.breached /\ report.consumed
                       /\ \A w \in BurnWindows : w >= SloWindow => report.burning[w]
          /\ met => ~report.breached
=============================================================================
