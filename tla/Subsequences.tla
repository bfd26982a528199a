---------------------------- MODULE Subsequences ----------------------------
(***************************************************************************)
(* The list comprehension [x for x in s if ...] of the code, given by the  *)
(* positions of what it keeps. SelectSeq gives the same list by recursion; *)
(* MCEventStream compares the two on short lists.                          *)
(***************************************************************************)
EXTENDS Integers, Sequences, FiniteSets

\* The k-th of a set of positions.
Nth(P, k) == CHOOSE i \in P : Cardinality({j \in P : j <= i}) = k

\* What s has at the positions P, in its order.
Pick(s, P) == [k \in 1 .. Cardinality(P) |-> s[Nth(P, k)]]

=============================================================================
