---------------------------- MODULE Subsequences ----------------------------
(***************************************************************************)
(* The rows that a query with a WHERE clause leaves, in the order they had,  *)
(* and likewise the elements of a list that a comprehension leaves.          *)
(***************************************************************************)
EXTENDS Naturals, Sequences, FiniteSets

\* How many of the first i positions are among A.
Rank(A, i) == Cardinality({j \in A : j <= i})

\* What stands at the positions A of s, in the order of s.
Subsequence(s, A) == [n \in 1..Cardinality(A) |-> s[CHOOSE i \in A : Rank(A, i) = n]]
=============================================================================
