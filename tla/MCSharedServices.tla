--------------------------- MODULE MCSharedServices ---------------------------
(* Three activities, two callers and requests at a time; traces of four executions.    *)
(* Two createSandbox calls for one execution; responses of up to three lines.          *)
EXTENDS SharedServices

(* An upsert that only enables a flag, and one that gives its fields. *)
FlagInputsMC ==
  LET on(f, r) == [fields |-> f, row |-> [enabled |-> TRUE, rollout |-> r, restricted |-> TRUE]]
  IN {on({"enabled"}, 1), on({"enabled", "rollout", "restricted"}, 1)}

(* Samples within the target, and at it or beyond it as they add up. *)
SamplesMC == {[total |-> 10, failed |-> 0, bucket |-> 1], [total |-> 10, failed |-> 2, bucket |-> 5]}

StreamsMC == UNION {[1 .. n -> Kinds] : n \in 0 .. 2} \cup
             {<<"start", "event", "text", "usage">>, <<"text", "bad", "both">>, <<"start", "text", "text">>}
=============================================================================
