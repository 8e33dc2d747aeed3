------------------------------- MODULE Lists -------------------------------
(***************************************************************************)
(* What a Go slice is after entries were taken out of it.  SelectSeq says  *)
(* the same by recursion; this form counts, so that it can be reasoned     *)
(* about without induction.                                                *)
(***************************************************************************)
EXTENDS Naturals, Sequences, FiniteSets

\* The positions that stay when the entries S go.
Kept(q, S) == {i \in 1..Len(q) : q[i] \notin S}

\* Where position i ends up among the positions K.
Place(K, i) == Cardinality({k \in K : k <= i})

\* The entries that are left move up, in their order.
Without(q, S) ==
    LET K == Kept(q, S)
    IN  [j \in 1..Cardinality(K) |-> q[CHOOSE i \in K : Place(K, i) = j]]
=============================================================================
