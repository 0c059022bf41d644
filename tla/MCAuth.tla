------------------------------ MODULE MCAuth ------------------------------
(* Instances of Auth for TLC. *)
EXTENDS Auth
=============================================================================
