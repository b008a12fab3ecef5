----------------------------- MODULE Observability -----------------------------
(***************************************************************************)
(* The observability plane (observability-plane/src).  ExportTrace puts a  *)
(* span in the bounded cache of hot traces and then inserts it in          *)
(* PostgreSQL; a replay reads the rows and, when there are none, the cache.*)
(*                                                                         *)
(* There are never any rows: ingestSpan says ON CONFLICT (span_id), the    *)
(* only unique constraint of the partitioned table spans is its primary    *)
(* key (span_id, start_time), and PostgreSQL rejects the statement.  The   *)
(* error is logged and the export answered as a success.  So the cache is  *)
(* all there is: an export or a replay is one step on it.                  *)
(***************************************************************************)
EXTENDS Naturals, Sequences, FiniteSets

CONSTANTS
  Traces,        \* execution ids
  TraceCap,      \* traceStoreCap (5000 by default)
  MaxExports     \* bound on the exports between two restarts

ASSUME ObservabilityAssumption ==
  IsFiniteSet(Traces) /\ TraceCap \in Nat \ {0} /\ MaxExports \in Nat

VARIABLES
  hot,         \* traceStore: the traces in insertion order, each with its spans, which are
               \* told apart by the number of the export that brought them
  log          \* history: the trace of each export since the process started

obsVars == <<hot, log>>

ObsTypeOK ==
  /\ Len(hot) <= TraceCap /\ log \in Seq(Traces) /\ Len(log) <= MaxExports
  /\ \A i \in DOMAIN hot : hot[i].trace \in Traces /\ hot[i].spans \in Seq(DOMAIN log)

ObsInit == hot = <<>> /\ log = <<>>

(* ExportTrace, also of a span whose export was retried: push, then evict from the oldest    *)
(* trace on beyond the cap.  A trace keeps its place when it gets another span.               *)
HotTraces == {hot[i].trace : i \in DOMAIN hot}
Push_Overwrite(x, n) == Append(SelectSeq(hot, LAMBDA e : e.trace # x), [trace |-> x, spans |-> <<n>>])
Push(x, n) ==
  IF x \in HotTraces
  THEN [i \in DOMAIN hot |-> IF hot[i].trace = x THEN [hot[i] EXCEPT !.spans = Append(@, n)] ELSE hot[i]]
  ELSE Append(hot, [trace |-> x, spans |-> <<n>>])

Evict_Newest(h) == IF Len(h) > TraceCap THEN SubSeq(h, 1, TraceCap) ELSE h
Evict(h) == IF Len(h) > TraceCap THEN SubSeq(h, Len(h) - TraceCap + 1, Len(h)) ELSE h

ExportTrace(x) ==
  /\ Len(log) < MaxExports
  /\ hot' = Evict(Push(x, Len(log) + 1))
  /\ log' = Append(log, x)

(* A restart of the process loses the cache. *)
ObsRestart ==
  /\ hot # <<>>
  /\ hot' = <<>> /\ log' = <<>>

(* getTrace finds no row, see above. *)
Durable(x) == <<>>
Cached(x) == IF x \in HotTraces THEN hot[CHOOSE i \in DOMAIN hot : hot[i].trace = x].spans ELSE <<>>
GetExecutionReplay(x) == IF Durable(x) # <<>> THEN Durable(x) ELSE Cached(x)

ObsNext == (\E x \in Traces : ExportTrace(x)) \/ ObsRestart

-----------------------------------------------------------------------------
(* What a replay shows of an execution is what was exported for it from some export on,     *)
(* each once, in order and without a gap, whatever was evicted and came back; and it is      *)
(* everything since the process started as long as fewer than TraceCap other executions      *)
(* had an export after its first.                                                             *)
Later(x) == {y \in Traces \ {x} : \E m, n \in DOMAIN log : m < n /\ log[m] = x /\ log[n] = y}
ShownFrom(from, x) ==
  LET replay == GetExecutionReplay(x)
  IN /\ \A i, j \in DOMAIN replay : i < j => replay[i] < replay[j]
     /\ {replay[i] : i \in DOMAIN replay} = {n \in DOMAIN log : n >= from /\ log[n] = x}
ReplayComplete ==
  /\ ObsTypeOK
  /\ \A x \in Traces : \E from \in 1 .. Len(log) + 1 :
       /\ ShownFrom(from, x)
       /\ Cardinality(Later(x)) < TraceCap => from = 1
=============================================================================
