----------------------------- MODULE EscrowLife -----------------------------
(***************************************************************************)
(* What the rest of the system may expect of the escrow of one order: the  *)
(* order has no escrow row, then one, whose terms are fixed when it is     *)
(* held; it is settled once, by a release or a refund, and there is never  *)
(* a second one.  Deleting the order ends the escrow in any status.        *)
(*                                                                         *)
(* EscrowLedger and OrderDeal are shown to implement this specification.   *)
(***************************************************************************)
CONSTANTS
  Terms,     \* the terms an escrow can have
  NoTerms    \* the terms of an order without an escrow row

VARIABLES
  status,    \* none, held, released, refunded; deleted with the order
  terms

Init ==
  /\ status = "none"
  /\ terms = NoTerms

Hold ==
  /\ status = "none"
  /\ status' = "held"
  /\ terms' \in Terms

Settle ==
  /\ status = "held"
  /\ status' \in {"released", "refunded"}
  /\ UNCHANGED terms

Delete ==
  /\ status # "deleted"
  /\ status' = "deleted"
  /\ terms' = NoTerms

Next == Hold \/ Settle \/ Delete

Spec == Init /\ [][Next]_<<status, terms>>

=============================================================================
