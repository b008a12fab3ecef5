-------------------------- MODULE MCReactWorkflow --------------------------
(***************************************************************************)
(* Two tool calls, two iterations and two attempts of each activity: a     *)
(* call can be repeated by the model and by Temporal, both calls can be    *)
(* made, and the budget of 1 can be met exactly and be crossed.            *)
(***************************************************************************)
EXTENDS ReactWorkflow

CONSTANTS k1, k2

MCCallKeys == {k1, k2}
MCCosts == {0, 1}
=============================================================================
