----------------------------- MODULE MCConfirm -----------------------------
(* The instance TLC checks: every kind of request, two confirmations. *)
EXTENDS Confirm
=============================================================================
