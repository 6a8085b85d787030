------------------------------ MODULE Selections ------------------------------
(* Parts of sequences.  (SelectSeq, by the places of what is selected: the       *)
(* provers cannot expand that one.)                                              *)
EXTENDS Naturals, FiniteSets

\* The place in the set I of places that k - 1 others come before
Nth(I, k) == CHOOSE i \in I : Cardinality({j \in I : j <= i}) = k

\* The elements of the sequence s at the places in I, in their order
At(s, I) == [k \in 1..Cardinality(I) |-> s[Nth(I, k)]]
=============================================================================
