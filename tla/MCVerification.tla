--------------------------- MODULE MCVerification ---------------------------
(***************************************************************************)
(* Verification: the requests of each kind are interchangeable.            *)
(***************************************************************************)
EXTENDS Verification, TLC

Symmetry == Permutations(Senders) \cup Permutations(Verifiers)

=============================================================================
