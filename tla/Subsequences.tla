----------------------------- MODULE Subsequences -----------------------------
(***************************************************************************)
(* The part of a sequence at some of its indices, in order: what a         *)
(* filtered or retained queue of the code is.  (SelectSeq says the same;   *)
(* these forms can be reasoned about, see SubsequenceLemmas.)              *)
(***************************************************************************)
EXTENDS Naturals, Sequences, FiniteSets

\* The subsequence of q at the indices K: element j is the one with j indices of K up to it.
Pick(q, K) ==
  [j \in 1..Cardinality(K) |-> q[CHOOSE k \in K : Cardinality({l \in K : l <= k}) = j]]

Without(q, S) == Pick(q, {k \in DOMAIN q : q[k] \notin S})
=============================================================================
