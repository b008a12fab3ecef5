-------------------------- MODULE MCAgentRegistry --------------------------
(* Four requests of any kind on one name, after an agent created earlier.  *)
(* Requests, ids and values are interchangeable; only safety is checked,   *)
(* so they may be permuted.                                                *)
EXTENDS AgentRegistry, TLC

CONSTANTS r1, r2, r3, r4, i1, i2, k, v1, v2

MCRequests == {r1, r2, r3, r4}
MCIds == {i1, i2}
MCKeys == {k}
MCValues == {v1, v2}
Symmetry == Permutations(MCRequests) \cup Permutations(MCIds) \cup Permutations(MCValues)
=============================================================================
