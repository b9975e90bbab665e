------------------------------ MODULE Positions ------------------------------
(***************************************************************************)
(* A finite set of integers, slots or indices, as the list that Python's   *)
(* sorted() and torch's nonzero() make of it.  Written with Cardinality:   *)
(* the sequences of SequencesExt and SelectSeq are defined by recursion.   *)
(***************************************************************************)
EXTENDS Integers, Sequences, FiniteSets

\* The member of S with k - 1 smaller ones.
Nth(S, k) == CHOOSE e \in S : Cardinality({f \in S : f <= e}) = k

\* The members of S, ascending.
InOrder(S) == [k \in 1 .. Cardinality(S) |-> Nth(S, k)]
=============================================================================
