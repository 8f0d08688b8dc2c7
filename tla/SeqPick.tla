------------------------------ MODULE SeqPick ------------------------------
(***************************************************************************)
(* The subsequence of a sequence at a set of its positions.  SelectSeq     *)
(* computes the same by recursion, about which nothing can be proved here. *)
(***************************************************************************)
EXTENDS Integers, Sequences, FiniteSets

Rank(S, j) == Cardinality({k \in S : k < j})

\* The i-th smallest element of S.
Nth(S, i) == CHOOSE j \in S : Rank(S, j) = i - 1

Pick(q, S) == [i \in 1..Cardinality(S) |-> q[Nth(S, i)]]
=============================================================================
