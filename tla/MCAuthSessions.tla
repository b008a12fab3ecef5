---------------------------- MODULE MCAuthSessions ----------------------------
(* A small instance of AuthSessions: two requests at a time for one account. *)
EXTENDS AuthSessions, TLC

CONSTANTS c1, c2, p1, p2

MCClients == {c1, c2}
MCPasswords == {p1, p2}

MCSymmetry == Permutations(MCClients) \cup Permutations(MCPasswords)
=============================================================================
