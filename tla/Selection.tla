------------------------------ MODULE Selection ------------------------------
(***************************************************************************)
(* Parts of a sequence, chosen by their places: what SelectSeq does, said  *)
(* without recursion, by counting, so that it can be proved about.         *)
(***************************************************************************)
EXTENDS Integers, Sequences, FiniteSets

\* The k-th of the places I.
Place(I, k) == CHOOSE i \in I : Cardinality({j \in I : j <= i}) = k

\* The elements of sequence s at the places I, in their order.
At(s, I) == [k \in 1..Cardinality(I) |-> s[Place(I, k)]]

=============================================================================
