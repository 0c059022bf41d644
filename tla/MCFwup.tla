------------------------------ MODULE MCFwup ------------------------------
(* Instances of Fwup for TLC. *)
EXTENDS Fwup
=============================================================================
