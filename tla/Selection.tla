----------------------------- MODULE Selection -----------------------------
(* Subsequences by position: what SelectSeq computes, without recursion. *)
EXTENDS Naturals, Sequences, FiniteSets

\* The k-th smallest of a set of positions.
Nth(I, k) == CHOOSE i \in I : Cardinality({j \in I : j <= i}) = k

\* The elements of s at the positions of I, in their order.
Picked(s, I) == [k \in 1..Cardinality(I) |-> s[Nth(I, k)]]
=============================================================================
