---------------------------- MODULE MCOrderDeal ----------------------------
(***************************************************************************)
(* OrderDeal for TLC: neither the freelancers nor the requests of one      *)
(* order are told apart by any action or property.                         *)
(***************************************************************************)
EXTENDS OrderDeal, TLC

CONSTANTS f1, f2, r1, r2

Symmetry == Permutations({f1, f2}) \cup Permutations({r1, r2})

=============================================================================
