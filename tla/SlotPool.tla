------------------------------ MODULE SlotPool ------------------------------
(***************************************************************************)
(* What a counting semaphore promises its callers: a pool of Max slots,    *)
(* each held by at most one caller, that a caller takes, gives back, or    *)
(* passes on to another caller without the slot ever being free between.   *)
(***************************************************************************)
EXTENDS Integers, FiniteSets

CONSTANTS
    Proc,   \* the callers
    Max     \* the number of slots

VARIABLE
    holders \* the callers that hold a slot

Init == holders = {}

Take(p) ==
    /\ p \notin holders
    /\ Cardinality(holders) < Max
    /\ holders' = holders \cup {p}

Give(p) ==
    /\ p \in holders
    /\ holders' = holders \ {p}

Pass(p, q) ==
    /\ p \in holders
    /\ q \notin holders
    /\ holders' = (holders \ {p}) \cup {q}

Next == \E p \in Proc : Take(p) \/ Give(p) \/ \E q \in Proc : Pass(p, q)

Spec == Init /\ [][Next]_holders
=============================================================================
