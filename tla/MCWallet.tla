------------------------------ MODULE MCWallet ------------------------------
(* Instances of Wallet for TLC. *)
EXTENDS Wallet
==========================================================================
