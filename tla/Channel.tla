------------------------------- MODULE Channel -------------------------------
(***************************************************************************)
(* What the UC transport promises the tasks that use it, without frames,   *)
(* sequence numbers, acknowledgements or timers.                           *)
(*                                                                         *)
(* A message handed over may reach the peer at any later time, also after  *)
(* its send has failed; it does not arrive behind a later one.  Success is *)
(* reported only for what has arrived.  A reboot of either end, or 255     *)
(* messages and acknowledgements, take the second promise away, and a      *)
(* reboot lets the last message arrive again; so may the very first        *)
(* message always.                                                         *)
(***************************************************************************)
EXTENDS Integers, Sequences

CONSTANTS
    Node,         \* the two ends
    Peer(_),      \* the other end
    MaxMsgs       \* messages of each end

VARIABLES
    sent,         \* messages handed over by each end
    result,       \* what the sender was told of each: "none" as long as it waits
    pending,      \* the message an end has received and not yet handed to its tasks, or 0
    delivered,    \* the messages handed to the tasks of an end, in order
    refused,      \* the messages whose content an end could not decode
    worn,         \* the numbers of an end have wrapped
    rebooted      \* an end has rebooted

vars == <<sent, result, pending, delivered, refused, worn, rebooted>>

Init ==
    /\ sent = [n \in Node |-> 0]
    /\ result = [n \in Node |-> [i \in 1 .. MaxMsgs[n] |-> "none"]]
    /\ pending = [n \in Node |-> 0]
    /\ delivered = [n \in Node |-> <<>>]
    /\ refused = [n \in Node |-> {}]
    /\ worn = [n \in Node |-> FALSE]
    /\ rebooted = FALSE

Received(n) ==
    {delivered[n][i] : i \in 1 .. Len(delivered[n])} \cup refused[n] \cup {pending[n]}

\* A task hands over its next message; it may fail at once.
Send(n) ==
    /\ sent[n] < MaxMsgs[n]
    /\ sent' = [sent EXCEPT ![n] = @ + 1]
    /\ \E r \in {"none", "failed"} : result' = [result EXCEPT ![n][sent[n] + 1] = r]
    /\ \E w \in BOOLEAN : worn' = [worn EXCEPT ![n] = @ \/ w]
    /\ UNCHANGED <<pending, delivered, refused, rebooted>>

\* The numbers wrap at an acknowledgement, which the tasks do not see.
Wear(n) ==
    /\ worn' = [worn EXCEPT ![n] = TRUE]
    /\ UNCHANGED <<sent, result, pending, delivered, refused, rebooted>>

\* The sender is told what became of a message.
Return(n) ==
    /\ \E i \in 1 .. sent[n], r \in {"ok", "failed", "max_retransmits"} :
         /\ result[n][i] = "none"
         /\ r = "ok" => i \in Received(Peer(n)) \/ worn[n] \/ rebooted
         /\ result' = [result EXCEPT ![n][i] = r]
    /\ UNCHANGED <<sent, pending, delivered, refused, worn, rebooted>>

\* A message arrives that the peer has sent, behind none that was sent later,
\* and not again unless it is the first or somebody has rebooted.
Arrive(n) ==
    /\ pending[n] = 0
    /\ \E i \in 1 .. sent[Peer(n)] :
         /\ \A k \in 1 .. Len(delivered[n]) :
              \/ delivered[n][k] < i
              \/ delivered[n][k] = i /\ (i = 1 \/ rebooted)
         /\ pending' = [pending EXCEPT ![n] = i]
    /\ UNCHANGED <<sent, result, delivered, refused, worn, rebooted>>

\* A message arrives that cannot be decoded.
Refuse(n) ==
    /\ \E i \in 1 .. sent[Peer(n)] : refused' = [refused EXCEPT ![n] = @ \cup {i}]
    /\ UNCHANGED <<sent, result, pending, delivered, worn, rebooted>>

Deliver(n) ==
    /\ pending[n] # 0
    /\ delivered' = [delivered EXCEPT ![n] = Append(@, pending[n])]
    /\ pending' = [pending EXCEPT ![n] = 0]
    /\ UNCHANGED <<sent, result, refused, worn, rebooted>>

\* The end forgets a message it was about to deliver, and what it was sending.
Reboot(n) ==
    /\ rebooted' = TRUE
    /\ pending' = [pending EXCEPT ![n] = 0]
    /\ \/ UNCHANGED result
       \/ \E i \in 1 .. sent[n] :
            result[n][i] = "none" /\ result' = [result EXCEPT ![n][i] = "failed"]
    /\ UNCHANGED <<sent, delivered, refused, worn>>

Next ==
    \E n \in Node :
        Send(n) \/ Wear(n) \/ Return(n) \/ Arrive(n) \/ Refuse(n) \/ Deliver(n) \/ Reboot(n)

Spec == Init /\ [][Next]_vars
==============================================================================
