--------------------------- MODULE MCEscrowLedger ---------------------------
(***************************************************************************)
(* EscrowLedger on small sets.  With a fee of 50 percent the payout of one *)
(* kopeck is at the rounding tie (0 or 1) and that of two is 1, so the fee *)
(* is felt at amounts small enough to enumerate.                           *)
(***************************************************************************)
EXTENDS EscrowLedger, TLC

\* Users, orders and deposit requests are interchangeable.
Symmetry == Permutations(Users) \cup Permutations(Orders)
              \cup Permutations(Requests)

=============================================================================
