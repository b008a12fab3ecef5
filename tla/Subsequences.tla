----------------------------- MODULE Subsequences -----------------------------
(***************************************************************************)
(* Selections that keep the order: what Array.filter, deletions from a Map *)
(* and ORDER BY leave.  They are defined by the rank of an element, which  *)
(* needs no recursion, so that they can be reasoned about.                 *)
(***************************************************************************)
EXTENDS Naturals, FiniteSets

(* The numbers in S in increasing order. *)
Rank(S, i) == Cardinality({j \in S : j <= i})
InOrder(S) == [n \in 1 .. Cardinality(S) |-> CHOOSE i \in S : Rank(S, i) = n]

(* What the sequence s has at the places in I. *)
Keep(s, I) == [n \in 1 .. Cardinality(I) |-> s[InOrder(I)[n]]]
=============================================================================
