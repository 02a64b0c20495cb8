---------------------------- MODULE Subsequence ----------------------------
(***************************************************************************)
(* The rows of a table that a condition selects, in their order: what      *)
(* SELECT ... WHERE ... ORDER BY id returns and what DELETE ... WHERE ...  *)
(* leaves behind.  (SelectSeq is recursive and nothing can be proved about *)
(* it; here a selection is a set of positions.)                            *)
(***************************************************************************)
EXTENDS Integers, Sequences, FiniteSets

(* How many positions of K come up to k, and the n-th of them. *)
Rank(K, k) == Cardinality({j \in K : j <= k})

Place(K, n) == CHOOSE k \in K : Rank(K, k) = n

(* The elements of s at the positions of K, in their order. *)
Pick(s, K) == [n \in 1..Cardinality(K) |-> s[Place(K, n)]]
=============================================================================
