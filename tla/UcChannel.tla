------------------------------ MODULE UcChannel ------------------------------
(* The UC transport implements Channel.                                     *)
EXTENDS Uc

Promise == INSTANCE Channel WITH
    pending <- rx,
    refused <- rejected,
    worn <- wrapped,
    rebooted <- boots > 0

\* Every step of the protocol - a frame lost, damaged or sent again, an ACK that
\* crosses a timeout, a reboot of either MCU - is a step of the channel that the
\* tasks above may rely on, or none of their concern.
ImplementsChannel == Promise!Spec
==============================================================================
