-------------------------------- MODULE MCWca --------------------------------
(* Instances of Wca for TLC. *)
EXTENDS Wca
==========================================================================
