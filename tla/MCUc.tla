--------------------------------- MODULE MCUc ---------------------------------
(* Instances of Uc for TLC. *)
EXTENDS UcChannel

\* Number of messages of each end.
OneEach == [n \in Node |-> 1]
HostTwo == [n \in Node |-> IF n = Host THEN 2 ELSE 0]
HostThree == [n \in Node |-> IF n = Host THEN 3 ELSE 0]
LongSilence == [n \in Node |-> IF n = Host THEN 3 ELSE 2]

PlainSends == {[imm |-> FALSE, secret |-> FALSE]}
BothTimings == [imm : BOOLEAN, secret : {FALSE}]
SecretSends == {[imm |-> FALSE, secret |-> TRUE]}
==============================================================================
