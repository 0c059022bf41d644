------------------------------- MODULE MCUnlock -------------------------------
(* Instances of Unlock for TLC.                                            *)
EXTENDS Unlock

\* A limit of 1, and a delay after every wrong guess.
OneDelay == <<1>>
==============================================================================
