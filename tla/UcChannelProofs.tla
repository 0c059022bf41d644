--------------------------- MODULE UcChannelProofs ---------------------------
(***************************************************************************)
(* What the tasks may rely on: success means receipt, a secret message is  *)
(* delivered once, and the UC transport implements Channel.                *)
(***************************************************************************)
EXTENDS UcChannel, UcProofs

USE NodeAssumption, CodeConstants, Bounds

-----------------------------------------------------------------------------
(***************************************************************************)
(* Success means receipt.  The sequence numbers of an MCU that has not     *)
(* rebooted or wrapped grow by one with every frame that is not a          *)
(* retransmission, a pure ACK included, so an acknowledgement that reaches *)
(* the last number speaks of the last message.  For the sender n:          *)
(*   - Outgoing, InProgress: no frame of n has a number beyond             *)
(*     send_seq_num, and a message with that number is the last one sent;  *)
(*   - Incoming: whatever acknowledgement exists - the number the peer     *)
(*     remembers, a frame on its way, a frame being sent, however late and *)
(*     however often repeated - does not go beyond send_seq_num, and is    *)
(*     equal to it only if the peer has received the last message;         *)
(*   - Confirmed: so has it when the ACK event is set during the wait, and *)
(*     for every send that returned true.                                  *)
(* A step takes a new number (NewNumber) or none (SameNumber); each of the *)
(* two preserves the invariant, and every action is one of them.           *)
(***************************************************************************)

\* The frames on a wire, whatever their order.
Frames(lk) == {lk[i] : i \in 1 .. Len(lk)}

LEMMA TailIn ==
    ASSUME NEW lk \in Seq(Frame), lk # << >>
    PROVE  Frames(Tail(lk)) \subseteq Frames(lk) /\ Head(lk) \in Frames(lk) /\ Head(lk) \in Frame
<1>1. /\ Tail(lk) \in Seq(Frame) /\ Len(Tail(lk)) = Len(lk) - 1 /\ Len(lk) \in Nat /\ Len(lk) > 0
      /\ Head(lk) = lk[1] /\ \A i \in 1 .. Len(Tail(lk)) : Tail(lk)[i] = lk[i + 1]
  BY TailFrames
<1>2. \A i \in 1 .. Len(Tail(lk)) : i + 1 \in 1 .. Len(lk)
  BY <1>1
<1>3. 1 \in 1 .. Len(lk)
  BY <1>1
<1> QED BY <1>1, <1>2, <1>3 DEF Frames

LEMMA AppendIn ==
    ASSUME NEW lk \in Seq(Frame), NEW f \in Frame
    PROVE  \A g \in Frames(Append(lk, f)) : g \in Frames(lk) \/ g = f
<1>1. /\ Len(Append(lk, f)) = Len(lk) + 1 /\ Len(lk) \in Nat
      /\ \A i \in 1 .. Len(lk) : Append(lk, f)[i] = lk[i]
      /\ Append(lk, f)[Len(lk) + 1] = f
  BY AppendFrame
<1>2. \A i \in 1 .. Len(Append(lk, f)) : i \in 1 .. Len(lk) \/ i = Len(lk) + 1
  BY <1>1
<1> QED BY <1>1, <1>2 DEF Frames

LEMMA FramesType ==
    ASSUME TypeOK, NEW n \in Node, NEW f \in Frames(link[n])
    PROVE  f \in Frame /\ f.seq \in Nat /\ f.ack \in Nat /\ f.id \in Nat
<1>1. link[n] \in Seq(Frame)
  BY DEF TypeOK
<1>2. f \in Frame
  BY <1>1 DEF Frames
<1> QED BY <1>2 DEF Frame, Seqs

\* The peer of n has received the last message of n.
Got(n) == sent[n] > 0 /\ sent[n] \in Received(Peer(n))

\* An acknowledgement a of the sender whose last number is s, received if g.
SeenBy(a, s, g) == a <= s /\ (a = s /\ a > 0 => g)
Seen(n, a) == SeenBy(a, sendSeq[n], Got(n))

Outgoing(n) ==
    \A f \in Frames(link[Peer(n)]) :
        f.seq <= sendSeq[n] /\ (f.id # 0 /\ f.seq = sendSeq[n] => f.id = sent[n])

InProgress(n) == wr[n].pc # "idle" => wr[n].frame.seq = sendSeq[n] /\ sendSeq[n] > 0

Incoming(n) ==
    /\ Seen(n, recvSeq[Peer(n)])
    /\ \A f \in Frames(link[n]) : Seen(n, f.ack)
    /\ wr[Peer(n)].pc # "idle" => Seen(n, wr[Peer(n)].frame.ack)

Confirmed(n) ==
    /\ wr[n].pc = "wait" /\ "ACK" \in events[n] => Got(n)
    /\ \A i \in 1 .. sent[n] : result[n][i] = "ok" => i \in Received(Peer(n))

AckInv(n) ==
    boots = 0 /\ ~wrapped[n] => Outgoing(n) /\ InProgress(n) /\ Incoming(n) /\ Confirmed(n)

KeepsReceived(n) == \A i \in Received(n) : i # 0 => i \in Received(n)'

\* A step without a new number.
SameNumber(n) ==
    /\ UNCHANGED <<sendSeq[n], sent[n], wrapped[n], boots>>
    /\ KeepsReceived(Peer(n))
    /\ \A f \in Frames(link'[Peer(n)]) :
          f \in Frames(link[Peer(n)]) \/ (wr[n].pc # "idle" /\ f = wr[n].frame)
    /\ wr'[n].pc # "idle" => wr[n].pc # "idle" /\ wr'[n].frame = wr[n].frame
    /\ \A f \in Frames(link'[n]) :
          \/ f \in Frames(link[n]) \/ f.ack = recvSeq[Peer(n)]
          \/ wr[Peer(n)].pc # "idle" /\ f.ack = wr[Peer(n)].frame.ack
    /\ \/ recvSeq'[Peer(n)] \in {0, recvSeq[Peer(n)]}
       \/ \E f \in Frames(link[Peer(n)]) :
             f.id # 0 /\ recvSeq'[Peer(n)] = f.seq /\ f.id \in Received(Peer(n))'
    /\ wr'[Peer(n)].pc # "idle" =>
          \/ wr'[Peer(n)].frame.ack = recvSeq[Peer(n)]
          \/ wr[Peer(n)].pc # "idle" /\ wr'[Peer(n)].frame.ack = wr[Peer(n)].frame.ack
    /\ wr'[n].pc = "wait" /\ "ACK" \in events'[n] =>
          \/ wr[n].pc = "wait" /\ "ACK" \in events[n]
          \/ \E f \in Frames(link[n]) : f.ack >= sendSeq[n]
    /\ \A i \in 1 .. sent[n] : result'[n][i] = "ok" =>
          \/ result[n][i] = "ok"
          \/ i = sent[n] /\ wr[n].pc = "wait" /\ "ACK" \in events[n]

LEMMA SameNumberAcks ==
    ASSUME TypeOK, TypeOK', NEW n \in Node, WireInv(Peer(n)), AckInv(n), SameNumber(n)
    PROVE  AckInv(n)'
<1> DEFINE p == Peer(n)
<1>1. /\ p \in Node /\ Peer(p) = n
  BY PeerOfPeer
<1>2. sendSeq[n] \in Nat /\ sent[n] \in Nat /\ recvSeq[p] \in Nat
  BY <1>1 DEF TypeOK, Seqs
<1>3. wr[n].pc # "idle" => wr[n].frame.id = sent[n] /\ sent[n] > 0
  BY <1>1 DEF WireInv, WireOK
<1> SUFFICES ASSUME boots' = 0, ~wrapped'[n]
             PROVE  (Outgoing(n) /\ InProgress(n) /\ Incoming(n) /\ Confirmed(n))'
  BY DEF AckInv
<1>4. Outgoing(n) /\ InProgress(n) /\ Incoming(n) /\ Confirmed(n)
  BY DEF AckInv, SameNumber
<1>5. sendSeq'[n] = sendSeq[n] /\ sent'[n] = sent[n]
  BY DEF SameNumber
<1>6. Got(n) => Got(n)'
  BY <1>2, <1>5 DEF Got, SameNumber, KeepsReceived
<1>7. \A a : Seen(n, a) => SeenBy(a, sendSeq'[n], Got(n)')
  BY <1>5, <1>6 DEF Seen, SeenBy
<1>8. Outgoing(n)'
  BY <1>1, <1>2, <1>3, <1>4, <1>5 DEF Outgoing, InProgress, SameNumber
<1>9. InProgress(n)'
  BY <1>4, <1>5 DEF InProgress, SameNumber
<1>10. Incoming(n)'
  <2>1. SeenBy(recvSeq'[p], sendSeq'[n], Got(n)')
    <3>1. CASE recvSeq'[p] = recvSeq[p]
      BY <1>4, <1>7, <3>1 DEF Incoming
    <3>2. CASE recvSeq'[p] = 0
      BY <1>2, <1>5, <3>2 DEF SeenBy
    <3>3. ASSUME NEW f \in Frames(link[p]), f.id # 0, recvSeq'[p] = f.seq, f.id \in Received(p)'
          PROVE  SeenBy(recvSeq'[p], sendSeq'[n], Got(n)')
      <4>1. f.seq <= sendSeq[n] /\ (f.seq = sendSeq[n] => f.id = sent[n])
        BY <1>4, <3>3 DEF Outgoing
      <4>2. f.seq = sendSeq[n] => Got(n)'
        BY <1>2, <1>5, <3>3, <4>1 DEF Got
      <4> QED BY <1>5, <3>3, <4>1, <4>2 DEF SeenBy
    <3> QED BY <3>1, <3>2, <3>3 DEF SameNumber
  <2>2. \A f \in Frames(link'[n]) : SeenBy(f.ack, sendSeq'[n], Got(n)')
    BY <1>4, <1>7 DEF Incoming, SameNumber
  <2>3. wr'[p].pc # "idle" => SeenBy(wr'[p].frame.ack, sendSeq'[n], Got(n)')
    BY <1>4, <1>7 DEF Incoming, SameNumber
  <2> QED BY <2>1, <2>2, <2>3 DEF Incoming, Seen
<1>11. Confirmed(n)'
  <2>1. wr'[n].pc = "wait" /\ "ACK" \in events'[n] => Got(n)'
    <3>1. ASSUME NEW f \in Frames(link[n]), f.ack >= sendSeq[n], wr'[n].pc = "wait" PROVE Got(n)
      <4>1. f.ack \in Nat
        BY <3>1, FramesType
      <4>2. Seen(n, f.ack) /\ sendSeq[n] > 0
        BY <1>4, <3>1 DEF Incoming, InProgress, SameNumber
      <4> QED BY <1>2, <3>1, <4>1, <4>2 DEF Seen, SeenBy
    <3> QED BY <1>4, <1>6, <3>1 DEF Confirmed, SameNumber
  <2>2. \A i \in 1 .. sent[n] : result'[n][i] = "ok" => i \in Received(p)'
    <3>1. \A i \in 1 .. sent[n] : result[n][i] = "ok" => i \in Received(p)'
      BY <1>2, <1>4 DEF Confirmed, SameNumber, KeepsReceived
    <3>2. wr[n].pc = "wait" /\ "ACK" \in events[n] => sent[n] \in Received(p)'
      BY <1>4, <1>5, <1>6 DEF Confirmed, Got
    <3> QED BY <3>1, <3>2 DEF SameNumber
  <2> QED BY <1>5, <2>1, <2>2 DEF Confirmed
<1> QED BY <1>8, <1>9, <1>10, <1>11

\* A step with a new number: a message or a pure ACK.
NewNumber(n) ==
    /\ ~wrapped'[n] => ~wrapped[n] /\ sendSeq'[n] = sendSeq[n] + 1
    /\ sent'[n] \in {sent[n], sent[n] + 1}
    /\ UNCHANGED <<boots, link[n], recvSeq[Peer(n)], wr[Peer(n)], Received(Peer(n))>>
    /\ \A f \in Frames(link'[Peer(n)]) :
          f \in Frames(link[Peer(n)]) \/ (f.id = 0 /\ f.seq = sendSeq'[n])
    /\ \/ wr'[n].pc = "idle"
       \/ wr'[n].pc = "encoded" /\ wr'[n].frame.seq = sendSeq'[n]
    /\ \A i \in 1 .. sent'[n] : result'[n][i] = "ok" => i <= sent[n] /\ result[n][i] = "ok"

LEMMA NewNumberAcks ==
    ASSUME TypeOK, TypeOK', NEW n \in Node, AckInv(n), NewNumber(n)
    PROVE  AckInv(n)'
<1> DEFINE p == Peer(n)
<1>1. p \in Node /\ Peer(p) = n
  BY PeerOfPeer
<1>2. sendSeq[n] \in Nat /\ sent[n] \in Nat /\ recvSeq[p] \in Nat /\ wr[p].frame.ack \in Nat
  <2>1. wr[p].frame \in Frame
    BY <1>1 DEF TypeOK, Wr
  <2>2. wr[p].frame.ack \in Nat
    BY <2>1 DEF Frame, Seqs
  <2>3. sendSeq[n] \in Nat /\ sent[n] \in Nat /\ recvSeq[p] \in Nat
    BY <1>1 DEF TypeOK, Seqs
  <2> QED BY <2>2, <2>3
<1> SUFFICES ASSUME boots' = 0, ~wrapped'[n]
             PROVE  (Outgoing(n) /\ InProgress(n) /\ Incoming(n) /\ Confirmed(n))'
  BY DEF AckInv
<1>3. /\ Outgoing(n) /\ InProgress(n) /\ Incoming(n) /\ Confirmed(n)
      /\ sendSeq'[n] = sendSeq[n] + 1
  BY DEF AckInv, NewNumber
<1>4. \A a \in Nat : Seen(n, a) => SeenBy(a, sendSeq'[n], Got(n)')
  BY <1>2, <1>3 DEF Seen, SeenBy
<1>5. Outgoing(n)'
  <2>1. \A f \in Frames(link[p]) : f.seq \in Nat /\ f.seq <= sendSeq[n]
    BY <1>1, <1>3, FramesType DEF Outgoing
  <2>2. \A f \in Frames(link'[p]) : f.seq <= sendSeq'[n] /\ (f.id # 0 => f.seq # sendSeq'[n])
    BY <1>2, <1>3, <2>1 DEF NewNumber
  <2> QED BY <2>2 DEF Outgoing
<1>6. InProgress(n)'
  BY <1>2, <1>3 DEF InProgress, NewNumber
<1>7. Incoming(n)'
  <2>1. \A f \in Frames(link[n]) : f.ack \in Nat
    BY FramesType
  <2>2. link'[n] = link[n] /\ recvSeq'[p] = recvSeq[p] /\ wr'[p] = wr[p]
    BY DEF NewNumber
  <2> QED BY <1>2, <1>3, <1>4, <2>1, <2>2 DEF Incoming, Seen
<1>8. Confirmed(n)'
  BY <1>2, <1>3 DEF Confirmed, NewNumber
<1> QED BY <1>5, <1>6, <1>7, <1>8

\* No result for a message that was not handed over yet, or is being sent.
ResultInv(n) ==
    /\ \A i \in 1 .. MaxMsgs[n] : i > sent[n] => result[n][i] = "none"
    /\ wr[n].pc # "idle" => result[n][sent[n]] = "none"

LEMMA SameResult ==
    ASSUME NEW n \in Node, ResultInv(n), UNCHANGED <<result[n], sent[n]>>,
           wr'[n].pc # "idle" => wr[n].pc # "idle"
    PROVE  ResultInv(n)'
BY DEF ResultInv

\* The send of m ends with outcome o.
LEMMA EndedResult ==
    ASSUME TypeOK, NEW m \in Node, NEW n \in Node, ResultInv(n), WireInv(Peer(m)),
           wr[m].pc # "idle", NEW o, wr' = [wr EXCEPT ![m] = IdleWr],
           result' = [result EXCEPT ![m][wr[m].frame.id] = o], sent' = sent
    PROVE  ResultInv(n)'
<1>1. CASE n = m
  <2>1. wr'[n].pc = "idle"
    BY <1>1 DEF TypeOK, IdleWr
  <2>2. wr[m].frame.id = sent[m]
    BY PeerOfPeer DEF WireInv, WireOK
  <2>3. \A i \in 1 .. MaxMsgs[n] : i > sent[n] => result'[n][i] = result[n][i]
    <3>1. DOMAIN result = Node /\ result[n] \in [1 .. MaxMsgs[n] -> Results] /\ sent[n] \in Nat
      BY DEF TypeOK
    <3>2. result'[n] = [result[n] EXCEPT ![sent[n]] = o]
      BY <1>1, <2>2, <3>1
    <3>3. \A i \in 1 .. MaxMsgs[n] : i > sent[n] => i # sent[n]
      BY <3>1
    <3> QED BY <3>1, <3>2, <3>3
  <2> QED BY <2>1, <2>3 DEF ResultInv
<1>2. CASE n # m
  <2>1. wr'[n] = wr[n] /\ result'[n] = result[n]
    BY <1>2 DEF TypeOK
  <2> QED BY <2>1, SameResult
<1> QED BY <1>1, <1>2

LEMMA EncodeResult ==
    ASSUME TypeOK, NEW m \in Node, NEW n \in Node, ResultInv(n), Encode(m) \/ EncodeFails(m)
    PROVE  ResultInv(n)'
<1>1. CASE n = m
  <2>1. /\ DOMAIN result = Node /\ result[n] \in [1 .. MaxMsgs[n] -> Results] /\ sent[n] \in Nat
        /\ MaxMsgs[n] \in Nat
    BY DEF TypeOK
  <2>2. wr[n].pc = "idle" /\ sent'[n] = sent[n] + 1 /\ sent[n] < MaxMsgs[n]
    BY <1>1 DEF TypeOK, Encode, EncodeFails
  <2>3. sent[n] + 1 \in 1 .. MaxMsgs[n] /\ sent[n] + 1 > sent[n]
    BY <2>1, <2>2
  <2>4. result[n][sent[n] + 1] = "none"
    BY <2>3 DEF ResultInv
  <2>5. CASE Encode(m)
    <3>1. result' = result
      BY <2>5 DEF Encode
    <3> QED BY <2>1, <2>2, <2>4, <3>1 DEF ResultInv
  <2>6. CASE EncodeFails(m)
    <3>1. wr' = wr /\ result'[n] = [result[n] EXCEPT ![sent[n] + 1] = "failed"]
      BY <1>1, <2>1, <2>6 DEF EncodeFails
    <3>2. \A i \in 1 .. MaxMsgs[n] : i > sent[n] + 1 => i > sent[n] /\ result'[n][i] = result[n][i]
      BY <2>1, <3>1
    <3> QED BY <2>2, <3>1, <3>2 DEF ResultInv
  <2> QED BY <2>5, <2>6
<1>2. CASE n # m
  <2>1. wr'[n] = wr[n]
    BY <1>2 DEF Encode, EncodeFails, TypeOK
  <2>2. result'[n] = result[n]
    BY <1>2 DEF Encode, EncodeFails, TypeOK
  <2>3. sent'[n] = sent[n]
    BY <1>2 DEF Encode, EncodeFails, TypeOK
  <2> QED BY <2>1, <2>2, <2>3, SameResult
<1> QED BY <1>1, <1>2

LEMMA SendEndsResult ==
    ASSUME TypeOK, NEW m \in Node, NEW n \in Node, ResultInv(n), WireInv(Peer(m)),
           WriteFails(m) \/ AckReceived(m) \/ RetransmitTimeout(m)
    PROVE  ResultInv(n)'
<1>1. wr[m].pc # "idle" /\ sent' = sent
  BY DEF WriteFails, AckReceived, RetransmitTimeout
<1>2. CASE \E o : Finish(m, o)
  BY <1>1, <1>2, EndedResult DEF Finish
<1>3. CASE wr' = [wr EXCEPT ![m].pc = "write", ![m].retry = @ + 1] /\ UNCHANGED result
  <2>1. wr'[n].pc # "idle" => wr[n].pc # "idle"
    BY <1>1, <1>3 DEF TypeOK, Wr
  <2> QED BY <1>1, <1>3, <2>1, SameResult
<1> QED BY <1>2, <1>3 DEF WriteFails, AckReceived, RetransmitTimeout

LEMMA RebootResult ==
    ASSUME TypeOK, NEW m \in Node, NEW n \in Node, ResultInv(n), WireInv(Peer(m)), Reboot(m)
    PROVE  ResultInv(n)'
<1>1. sent' = sent /\ wr' = [wr EXCEPT ![m] = IdleWr]
  BY DEF Reboot
<1>2. CASE wr[m].pc = "idle"
  <2>1. result' = result
    BY <1>2 DEF Reboot
  <2>2. wr'[n].pc # "idle" => wr[n].pc # "idle"
    BY <1>1 DEF IdleWr, TypeOK
  <2> QED BY <1>1, <2>1, <2>2, SameResult
<1>3. CASE wr[m].pc # "idle"
  <2>1. result' = [result EXCEPT ![m][wr[m].frame.id] = "failed"]
    BY <1>3 DEF Reboot
  <2> QED BY <1>1, <1>3, <2>1, EndedResult
<1> QED BY <1>2, <1>3

\* The other steps end no send.
LEMMA OtherResult ==
    ASSUME TypeOK, NEW m \in Node, NEW n \in Node, ResultInv(n),
           \/ CheckAckTimer(m) \/ Transmit(m) \/ Receive(m) \/ OnProto(m)
           \/ AckTimerExpires(m) \/ Idle(m) \/ FreeRecvProto(m)
           \/ Lose(m) \/ Corrupt(m) \/ Establish(m) \/ Confirm(m)
    PROVE  ResultInv(n)'
<1>1. UNCHANGED <<result, sent>>
  <2>1. CASE CheckAckTimer(m) \/ Transmit(m) \/ OnProto(m)
    BY <2>1 DEF CheckAckTimer, Transmit, OnProto, histVars
  <2>2. CASE AckTimerExpires(m) \/ Idle(m) \/ FreeRecvProto(m)
    BY <2>2 DEF AckTimerExpires, Idle, FreeRecvProto, histVars
  <2>3. CASE Lose(m) \/ Corrupt(m) \/ Establish(m) \/ Confirm(m)
    BY <2>3 DEF Lose, Corrupt, Establish, Confirm, histVars
  <2>4. CASE Receive(m)
    BY <2>4 DEF Receive, ReceiveGlued, ReceiveUnreadable, ReceiveReplay, ReceiveNew,
                ReceiveOther, histVars
  <2> QED BY <2>1, <2>2, <2>3, <2>4
<1>2. wr'[n].pc # "idle" => wr[n].pc # "idle"
  <2>1. CASE CheckAckTimer(m) \/ Transmit(m)
    BY <2>1 DEF CheckAckTimer, Transmit, TypeOK, Wr
  <2>2. CASE OnProto(m) \/ AckTimerExpires(m) \/ Idle(m) \/ FreeRecvProto(m)
    BY <2>2 DEF OnProto, AckTimerExpires, Idle, FreeRecvProto
  <2>3. CASE Lose(m) \/ Corrupt(m) \/ Establish(m) \/ Confirm(m)
    BY <2>3 DEF Lose, Corrupt, Establish, Confirm, nodeVars
  <2>4. CASE Receive(m)
    BY <2>4 DEF Receive, ReceiveGlued, ReceiveUnreadable, ReceiveReplay, ReceiveNew,
                ReceiveOther
  <2> QED BY <2>1, <2>2, <2>3, <2>4
<1> QED BY <1>1, <1>2, SameResult

\* A step that takes no new number at either end and no message: what it may add
\* to the wire, and what may become of the sends in progress.
FrameStep ==
    \A k \in Node :
        /\ \A f \in Frames(link'[k]) :
              f \in Frames(link[k]) \/ (wr[Peer(k)].pc # "idle" /\ f = wr[Peer(k)].frame)
        /\ wr'[k].pc # "idle" => wr[k].pc # "idle" /\ wr'[k].frame = wr[k].frame
        /\ wr'[k].pc = "wait" /\ "ACK" \in events'[k] =>
              \/ wr[k].pc = "wait" /\ "ACK" \in events[k]
              \/ \E f \in Frames(link[k]) : f.ack >= sendSeq[k]
        /\ \A i \in 1 .. sent[k] : result'[k][i] = "ok" =>
              \/ result[k][i] = "ok"
              \/ i = sent[k] /\ wr[k].pc = "wait" /\ "ACK" \in events[k]

LEMMA FrameStepSame ==
    ASSUME FrameStep, UNCHANGED <<sendSeq, sent, wrapped, boots>>, NEW n \in Node,
           KeepsReceived(Peer(n)),
           \/ recvSeq'[Peer(n)] \in {0, recvSeq[Peer(n)]}
           \/ \E f \in Frames(link[Peer(n)]) :
                 f.id # 0 /\ recvSeq'[Peer(n)] = f.seq /\ f.id \in Received(Peer(n))'
    PROVE  SameNumber(n)
<1>1. Peer(n) \in Node /\ Peer(Peer(n)) = n
  BY PeerOfPeer
<1> QED BY <1>1, SMTT(60) DEF FrameStep, SameNumber

LEMMA SameReceived ==
    ASSUME NEW n \in Node, UNCHANGED <<delivered, rejected, rx>>
    PROVE  Received(n)' = Received(n) /\ KeepsReceived(n)
BY DEF Received, KeepsReceived

\* Steps that leave the wire as it is.
LEMMA LocalSame ==
    ASSUME TypeOK, NEW m \in Node, NEW n \in Node, WireInv(Peer(m)),
           \/ CheckAckTimer(m) \/ WriteFails(m) \/ AckReceived(m) \/ RetransmitTimeout(m)
           \/ AckTimerExpires(m) \/ FreeRecvProto(m) \/ Establish(m) \/ Confirm(m)
    PROVE  SameNumber(n)
<1>1. UNCHANGED <<sendSeq, sent, wrapped, boots, recvSeq, delivered, rejected, rx, link>>
  <2>1. CASE CheckAckTimer(m) \/ AckTimerExpires(m) \/ FreeRecvProto(m)
    BY <2>1 DEF CheckAckTimer, AckTimerExpires, FreeRecvProto, histVars
  <2>2. CASE WriteFails(m) \/ AckReceived(m) \/ RetransmitTimeout(m)
    BY <2>2 DEF WriteFails, AckReceived, RetransmitTimeout
  <2>3. CASE Establish(m) \/ Confirm(m)
    BY <2>3 DEF Establish, Confirm, histVars
  <2> QED BY <2>1, <2>2, <2>3
<1>2. wr \in [Node -> Wr] /\ events \in [Node -> SUBSET {"ACK", "ACK_TIMER"}]
  BY DEF TypeOK
<1>3. \A k \in Node :
          /\ wr'[k].pc # "idle" => wr[k].pc # "idle" /\ wr'[k].frame = wr[k].frame
          /\ wr'[k].pc = "wait" => wr[k].pc = "wait"
  <2>1. CASE CheckAckTimer(m)
    BY <1>2, <2>1 DEF CheckAckTimer, Wr
  <2>2. CASE wr' = [wr EXCEPT ![m] = IdleWr]
    BY <1>2, <2>2 DEF IdleWr
  <2>3. CASE wr[m].pc = "wait" /\ wr' = [wr EXCEPT ![m].pc = "write", ![m].retry = @ + 1]
    BY <1>2, <2>3 DEF Wr
  <2>4. CASE wr' = wr
    BY <2>4
  <2> QED BY <2>1, <2>2, <2>3, <2>4 DEF WriteFails, AckReceived, RetransmitTimeout, Finish,
             AckTimerExpires, FreeRecvProto, Establish, Confirm
<1>4. \A k \in Node : "ACK" \in events'[k] => "ACK" \in events[k]
  <2>1. CASE events' = [events EXCEPT ![m] = @ \ {"ACK"}]
    BY <1>2, <2>1
  <2>2. CASE events' = [events EXCEPT ![m] = @ \cup {"ACK_TIMER"}]
    BY <1>2, <2>2
  <2>3. CASE events' = events
    BY <2>3
  <2> QED BY <2>1, <2>2, <2>3 DEF WriteFails, AckReceived, RetransmitTimeout, CheckAckTimer,
             AckTimerExpires, FreeRecvProto, Establish, Confirm
<1>5. \A k \in Node : \A i \in 1 .. sent[k] : result'[k][i] = "ok" =>
          \/ result[k][i] = "ok"
          \/ i = sent[k] /\ wr[k].pc = "wait" /\ "ACK" \in events[k]
  <2>1. CASE result' = result
    BY <2>1
  <2>2. ASSUME NEW o, Finish(m, o), wr[m].pc # "idle",
               o = "ok" => wr[m].pc = "wait" /\ "ACK" \in events[m]
        PROVE  <1>5!:
    <3>1. wr[m].frame.id = sent[m]
      BY <2>2, PeerOfPeer DEF WireInv, WireOK
    <3>2. result' = [result EXCEPT ![m][sent[m]] = o]
      BY <2>2, <3>1 DEF Finish
    <3>3. DOMAIN result = Node /\ \A k \in Node : result[k] \in [1 .. MaxMsgs[k] -> Results]
      BY DEF TypeOK
    <3>4. sent \in [Node -> Nat] /\ MaxMsgs \in [Node -> Nat] /\ \A k \in Node : sent[k] <= MaxMsgs[k]
      BY DEF TypeOK
    <3>5. \A k \in Node : \A i \in 1 .. sent[k] : i \in 1 .. MaxMsgs[k]
      BY <3>4
    <3>6. \A k \in Node : \A i \in 1 .. sent[k] :
             result'[k][i] = IF k = m /\ i = sent[m] THEN o ELSE result[k][i]
      BY <3>2, <3>3, <3>5
    <3> QED BY <2>2, <3>6
  <2> QED BY <2>1, <2>2 DEF WriteFails, AckReceived, RetransmitTimeout, CheckAckTimer,
             AckTimerExpires, FreeRecvProto, Establish, Confirm, histVars
<1>6. FrameStep
  BY <1>1, <1>3, <1>4, <1>5 DEF FrameStep
<1>7. Peer(n) \in Node
  BY PeerType
<1>8. KeepsReceived(Peer(n))
  BY <1>1, <1>7, SameReceived
<1> QED BY <1>1, <1>6, <1>8, FrameStepSame

LEMMA TransmitSame ==
    ASSUME TypeOK, NEW m \in Node, NEW n \in Node, Transmit(m) PROVE SameNumber(n)
<1>1. UNCHANGED <<sendSeq, sent, wrapped, boots, recvSeq, delivered, rejected, rx, result>>
  BY DEF Transmit, histVars
<1>2. /\ wr \in [Node -> Wr] /\ events \in [Node -> SUBSET {"ACK", "ACK_TIMER"}]
      /\ link \in [Node -> Seq(Frame)]
  BY DEF TypeOK
<1>3. wr[m].pc = "write" /\ wr[m].frame \in Frame
  BY <1>2 DEF Transmit, Wr
<1>4. \A k \in Node :
          /\ wr'[k].pc # "idle" => wr[k].pc # "idle" /\ wr'[k].frame = wr[k].frame
          /\ wr'[k].pc = "wait" => k = m \/ wr[k].pc = "wait"
  BY <1>2, <1>3 DEF Transmit, Wr
<1>5. \A k \in Node : "ACK" \in events'[k] => "ACK" \in events[k] /\ k # m
  BY <1>2 DEF Transmit
<1>6. \A k \in Node : \A f \in Frames(link'[k]) :
          f \in Frames(link[k]) \/ (wr[Peer(k)].pc # "idle" /\ f = wr[Peer(k)].frame)
  <2> SUFFICES ASSUME NEW k \in Node
               PROVE  \A f \in Frames(link'[k]) : f \in Frames(link[k]) \/
                         (wr[Peer(k)].pc # "idle" /\ f = wr[Peer(k)].frame)
    OBVIOUS
  <2>1. CASE k = Peer(m)
    <3>1. link'[k] = Append(link[k], wr[m].frame) /\ Peer(k) = m
      BY <1>2, <2>1, PeerOfPeer DEF Transmit
    <3> QED BY <1>2, <1>3, <3>1, AppendIn
  <2>2. CASE k # Peer(m)
    <3>1. link'[k] = link[k]
      BY <1>2, <2>2 DEF Transmit
    <3> QED BY <3>1
  <2> QED BY <2>1, <2>2
<1>7. FrameStep
  BY <1>1, <1>4, <1>5, <1>6 DEF FrameStep
<1>8. KeepsReceived(Peer(n))
  BY <1>1, PeerType, SameReceived
<1> QED BY <1>1, <1>7, <1>8, FrameStepSame

LEMMA ConsumeIn ==
    ASSUME TypeOK, NEW m \in Node, link[m] # << >>, Consume(m)
    PROVE  \A k \in Node : Frames(link'[k]) \subseteq Frames(link[k])
<1>1. link \in [Node -> Seq(Frame)]
  BY DEF TypeOK
<1>2. Frames(Tail(link[m])) \subseteq Frames(link[m])
  BY <1>1, TailIn
<1>3. \A k \in Node : link'[k] = IF k = m THEN Tail(link[m]) ELSE link[k]
  BY <1>1 DEF Consume
<1> QED BY <1>2, <1>3

LEMMA FaultSame ==
    ASSUME TypeOK, NEW m \in Node, NEW n \in Node, Lose(m) \/ Corrupt(m)
    PROVE  SameNumber(n)
<1>1. UNCHANGED <<sendSeq, sent, wrapped, boots, recvSeq, delivered, rejected, rx, result,
                  wr, events>>
  BY DEF Lose, Corrupt, nodeVars
<1>2. \A k \in Node : Frames(link'[k]) \subseteq Frames(link[k])
  BY ConsumeIn DEF Lose, Corrupt
<1>3. FrameStep
  BY <1>1, <1>2 DEF FrameStep
<1>4. KeepsReceived(Peer(n))
  BY <1>1, PeerType, SameReceived
<1> QED BY <1>1, <1>3, <1>4, FrameStepSame

LEMMA ReceiveSame ==
    ASSUME TypeOK, NEW m \in Node, NEW n \in Node, Receive(m)
    PROVE  SameNumber(n)
<1> DEFINE f == Head(link[m])
<1>1. rx[m] = 0 /\ link[m] # << >> /\ Consume(m)
  BY DEF Receive
<1>2. UNCHANGED <<sendSeq, sent, wrapped, boots, delivered, result, wr>>
  BY DEF Receive, ReceiveGlued, ReceiveUnreadable, ReceiveReplay, ReceiveNew,
         ReceiveOther, histVars
<1>3. f \in Frames(link[m]) /\ f \in Frame
  BY <1>1, TailIn DEF TypeOK
<1>4. \A k \in Node : Frames(link'[k]) \subseteq Frames(link[k])
  BY <1>1, ConsumeIn
<1>5. events \in [Node -> SUBSET {"ACK", "ACK_TIMER"}] /\ recvSeq \in [Node -> Seqs]
      /\ rx \in [Node -> Nat] /\ rejected \in [Node -> SUBSET Nat]
  BY DEF TypeOK
<1> HIDE DEF f
<1>6. \A k \in Node : "ACK" \in events'[k] =>
          "ACK" \in events[k] \/ \E g \in Frames(link[k]) : g.ack >= sendSeq[k]
  <2>1. "ACK" \in AckEvents(m, f) => "ACK" \in events[m] \/ f.ack >= sendSeq[m]
    BY DEF AckEvents
  <2>2. \A k \in Node : k # m => events'[k] = events[k]
    BY <1>5
       DEF Receive, ReceiveGlued, ReceiveUnreadable, ReceiveReplay, ReceiveNew,
           ReceiveOther
  <2>3. "ACK" \in events'[m] => "ACK" \in events[m] \/ "ACK" \in AckEvents(m, f)
    <3>1. CASE ReceiveGlued(m)
      BY <3>1 DEF ReceiveGlued
    <3>2. CASE ReceiveUnreadable(m, f)
      BY <1>5, <3>2 DEF ReceiveUnreadable
    <3>3. CASE ReceiveReplay(m, f)
      BY <1>5, <3>3 DEF ReceiveReplay
    <3>4. CASE ReceiveNew(m, f)
      BY <1>5, <3>4 DEF ReceiveNew
    <3>5. CASE ReceiveOther(m, f)
      BY <1>5, <3>5 DEF ReceiveOther
    <3> QED BY <3>1, <3>2, <3>3, <3>4, <3>5 DEF Receive, f
  <2> QED BY <1>3, <2>1, <2>2, <2>3
<1>7. FrameStep
  BY <1>2, <1>4, <1>6 DEF FrameStep
<1>8. \A k \in Node : KeepsReceived(k)
  <2>1. CASE ReceiveNew(m, f)
    <3>1. \A k \in Node : rx[k] # 0 => rx'[k] = rx[k]
      BY <1>1, <1>5, <2>1 DEF ReceiveNew
    <3>2. \A k \in Node : rejected[k] \subseteq rejected'[k]
      BY <1>5, <2>1 DEF ReceiveNew
    <3> QED BY <1>2, <3>1, <3>2 DEF KeepsReceived, Received
  <2>2. CASE ~ReceiveNew(m, f)
    <3>1. UNCHANGED <<delivered, rejected, rx>>
      BY <2>2
         DEF Receive, ReceiveGlued, ReceiveUnreadable, ReceiveReplay, ReceiveOther,
             histVars, f
    <3> QED BY <3>1, SameReceived
  <2> QED BY <2>1, <2>2
<1>9. \A k \in Node :
          \/ recvSeq'[k] \in {0, recvSeq[k]}
          \/ \E g \in Frames(link[k]) : g.id # 0 /\ recvSeq'[k] = g.seq /\ g.id \in Received(k)'
  <2>1. CASE ReceiveNew(m, f)
    <3>1. recvSeq' = [recvSeq EXCEPT ![m] = f.seq] /\ f.id # 0
      BY <2>1 DEF ReceiveNew, IsNew
    <3>2. f.id = rx'[m] \/ f.id \in rejected'[m]
      BY <1>5, <2>1 DEF ReceiveNew
    <3>3. f.id \in Received(m)'
      BY <3>2 DEF Received
    <3>4. recvSeq'[m] = f.seq /\ \A k \in Node : k # m => recvSeq'[k] = recvSeq[k]
      BY <1>5, <3>1
    <3> QED BY <1>3, <3>1, <3>3, <3>4
  <2>2. CASE ReceiveOther(m, f)
    BY <1>5, <2>2 DEF ReceiveOther, BaseSeq
  <2>3. CASE recvSeq' = recvSeq
    BY <2>3
  <2> QED BY <2>1, <2>2, <2>3 DEF Receive, ReceiveGlued, ReceiveUnreadable, ReceiveReplay, f
<1> QED BY <1>2, <1>7, <1>8, <1>9, PeerType, FrameStepSame

LEMMA OnProtoSame ==
    ASSUME TypeOK, NEW m \in Node, NEW n \in Node, OnProto(m)
    PROVE  SameNumber(n)
<1>1. UNCHANGED <<sendSeq, sent, wrapped, boots, recvSeq, rejected, result, wr, events, link>>
  BY DEF OnProto
<1>2. FrameStep
  BY <1>1 DEF FrameStep
<1>3. \A k \in Node : KeepsReceived(k)
  <2> SUFFICES ASSUME NEW k \in Node PROVE KeepsReceived(k)
    OBVIOUS
  <2>1. CASE k = m
    <3>1. delivered[m] \in Seq(Nat) /\ rx[m] \in Nat
      BY DEF TypeOK
    <3>2. delivered'[m] = Append(delivered[m], rx[m])
      BY DEF OnProto, TypeOK
    <3>3. /\ Len(delivered'[m]) = Len(delivered[m]) + 1 /\ Len(delivered[m]) \in Nat
          /\ \A i \in 1 .. Len(delivered[m]) : delivered'[m][i] = delivered[m][i]
          /\ delivered'[m][Len(delivered[m]) + 1] = rx[m]
      BY <3>1, <3>2, AppendProperties
    <3>4. /\ \A i \in 1 .. Len(delivered[m]) : i \in 1 .. Len(delivered'[m])
          /\ Len(delivered[m]) + 1 \in 1 .. Len(delivered'[m])
      BY <3>3
    <3> QED BY <1>1, <2>1, <3>3, <3>4 DEF KeepsReceived, Received
  <2>2. CASE k # m
    <3>1. delivered'[k] = delivered[k] /\ rx'[k] = rx[k]
      BY <2>2 DEF OnProto, TypeOK
    <3> QED BY <1>1, <3>1 DEF KeepsReceived, Received
  <2> QED BY <2>1, <2>2
<1> QED BY <1>1, <1>2, <1>3, PeerType, FrameStepSame

LEMMA BumpSeqStep ==
    ASSUME TypeOK, NEW m \in Node, BumpSeq(m)
    PROVE  /\ ~wrapped'[m] => ~wrapped[m] /\ sendSeq'[m] = sendSeq[m] + 1
           /\ sendSeq'[m] = NextSeq(sendSeq[m])
           /\ \A k \in Node : k # m => sendSeq'[k] = sendSeq[k] /\ wrapped'[k] = wrapped[k]
BY DEF BumpSeq, TypeOK, NextSeq

\* A message is encoded, or fails to be: the sender has a new number.
LEMMA EncodeAcks ==
    ASSUME TypeOK, TypeOK', NEW m \in Node, NEW n \in Node, WireInv(Peer(n)), AckInv(n),
           ResultInv(n), Encode(m) \/ EncodeFails(m)
    PROVE  AckInv(n)'
<1>1. /\ UNCHANGED <<recvSeq, events, rx, link, delivered, rejected, boots>> /\ BumpSeq(m)
      /\ wr[m].pc = "idle" /\ sent[m] < MaxMsgs[m]
  BY DEF Encode, EncodeFails
<1>2. /\ sent'[m] = sent[m] + 1 /\ sent[m] \in Nat /\ MaxMsgs[m] \in Nat
      /\ \A k \in Node : k # m => sent'[k] = sent[k]
  BY ZenonT(60) DEF Encode, EncodeFails, TypeOK
<1>3. /\ \/ wr'[m].pc = "idle"
         \/ /\ wr'[m].pc = "encoded"
            /\ wr'[m].frame.seq = NextSeq(sendSeq[m])
            /\ wr'[m].frame.ack = recvSeq[m]
      /\ \A k \in Node : k # m => wr'[k] = wr[k]
  <2>1. wr \in [Node -> Wr]
    BY DEF TypeOK
  <2>2. CASE wr' = wr
    BY <1>1, <2>2
  <2>3. ASSUME NEW kind \in SendKinds, NEW hold,
               wr' = [wr EXCEPT ![m] = [pc |-> "encoded", retry |-> 0, hold |-> hold,
                                        stop |-> FALSE, frame |-> EncodedFrame(m, kind)]]
        PROVE  <1>3!:
    <3>1. wr'[m].pc = "encoded" /\ wr'[m].frame = EncodedFrame(m, kind)
      BY <2>1, <2>3
    <3>2. wr'[m].frame.seq = NextSeq(sendSeq[m]) /\ wr'[m].frame.ack = recvSeq[m]
      BY <3>1 DEF EncodedFrame
    <3> QED BY <2>1, <2>3, <3>1, <3>2
  <2> QED BY <2>2, <2>3 DEF Encode, EncodeFails
<1>4. /\ \A k \in Node : k # m => result'[k] = result[k]
      /\ \A i \in 1 .. MaxMsgs[m] : result'[m][i] = "ok" => result[m][i] = "ok"
  <2>1. CASE result' = result
    BY <2>1
  <2>2. CASE result' = [result EXCEPT ![m][sent[m] + 1] = "failed"]
    <3>1. DOMAIN result = Node /\ result[m] \in [1 .. MaxMsgs[m] -> Results]
      BY DEF TypeOK
    <3> QED BY <2>2, <3>1
  <2> QED BY <2>1, <2>2 DEF Encode, EncodeFails
<1>5. CASE n = m
  <2>1. Peer(n) # m /\ Peer(n) \in Node
    BY <1>5, PeerOfPeer
  <2>2. Received(Peer(n))' = Received(Peer(n))
    BY <1>1, <2>1, SameReceived
  <2>3. \A i \in 1 .. sent'[n] : result'[n][i] = "ok" => i <= sent[n] /\ result[n][i] = "ok"
    <3>1. \A i \in 1 .. sent'[n] : i \in 1 .. MaxMsgs[n] /\ (i <= sent[n] \/ i > sent[n])
      BY <1>1, <1>2, <1>5
    <3>2. \A i \in 1 .. MaxMsgs[n] : i > sent[n] => result[n][i] # "ok"
      BY DEF ResultInv
    <3> QED BY <1>4, <1>5, <3>1, <3>2
  <2>4. ~wrapped'[n] => ~wrapped[n] /\ sendSeq'[n] = sendSeq[n] + 1
    BY <1>1, <1>5, BumpSeqStep
  <2>5. sendSeq'[n] = NextSeq(sendSeq[n])
    BY <1>1, <1>5, BumpSeqStep
  <2>6. NewNumber(n)
    BY <1>1, <1>2, <1>3, <1>5, <2>1, <2>2, <2>3, <2>4, <2>5 DEF NewNumber
  <2> QED BY <2>6, NewNumberAcks
<1>6. CASE Peer(n) = m
  <2>1. n # m
    BY <1>6, PeerOfPeer
  <2>2. sendSeq'[n] = sendSeq[n] /\ wrapped'[n] = wrapped[n]
    BY <1>1, <2>1, BumpSeqStep
  <2>3. KeepsReceived(m)
    BY <1>1, SameReceived
  <2>4. SameNumber(n)
    BY <1>1, <1>2, <1>3, <1>4, <1>6, <2>1, <2>2, <2>3 DEF SameNumber
  <2> QED BY <2>4, SameNumberAcks
<1> QED BY <1>5, <1>6, PeerOfPeer

\* A pure ACK has a number of its own.
LEMMA IdleAcks ==
    ASSUME TypeOK, TypeOK', NEW m \in Node, NEW n \in Node, WireInv(Peer(n)), AckInv(n), Idle(m)
    PROVE  AckInv(n)'
<1> DEFINE f == PureAck(NextSeq(sendSeq[m]), recvSeq[m])
<1>1. /\ UNCHANGED <<recvSeq, rx, wr, sent, result, delivered, rejected, boots>> /\ BumpSeq(m)
      /\ wr[m].pc = "idle"
  BY DEF Idle
<1>2. events \in [Node -> SUBSET {"ACK", "ACK_TIMER"}] /\ link \in [Node -> Seq(Frame)]
  BY DEF TypeOK
<1>3. f \in Frame /\ f.id = 0 /\ f.seq = NextSeq(sendSeq[m]) /\ f.ack = recvSeq[m]
  <2>1. f \in Frame
    BY NextSeqType, PureAckType DEF TypeOK
  <2> QED BY <2>1 DEF PureAck
<1>4. link'[Peer(m)] = Append(link[Peer(m)], f) /\ link'[m] = link[m]
  BY <1>2, PeerOfPeer DEF Idle
<1>5. \A k \in Node : "ACK" \in events'[k] => "ACK" \in events[k]
  BY <1>2 DEF Idle
<1>6. \A g \in Frames(link'[Peer(m)]) : g \in Frames(link[Peer(m)]) \/ g = f
  BY <1>2, <1>3, <1>4, PeerType, AppendIn
<1> HIDE DEF f
<1>7. CASE n = m
  <2>1. Received(Peer(n))' = Received(Peer(n))
    BY <1>1, PeerType, SameReceived
  <2>2. sent[n] \in Nat
    BY DEF TypeOK
  <2>3. sendSeq'[n] = NextSeq(sendSeq[n]) /\ (~wrapped'[n] => ~wrapped[n] /\ sendSeq'[n] = sendSeq[n] + 1)
    BY <1>1, <1>7, BumpSeqStep
  <2>4. \A i \in 1 .. sent[n] : i <= sent[n]
    BY <2>2
  <2>5. NewNumber(n)
    BY <1>1, <1>3, <1>4, <1>6, <1>7, <2>1, <2>3, <2>4 DEF NewNumber
  <2> QED BY <2>5, NewNumberAcks
<1>8. CASE Peer(n) = m
  <2>1. n # m /\ n = Peer(m)
    BY <1>8, PeerOfPeer
  <2>2. sendSeq'[n] = sendSeq[n] /\ wrapped'[n] = wrapped[n]
    BY <1>1, <2>1, BumpSeqStep
  <2>3. KeepsReceived(m)
    BY <1>1, SameReceived
  <2>4. SameNumber(n)
    BY <1>1, <1>3, <1>4, <1>5, <1>6, <1>8, <2>1, <2>2, <2>3 DEF SameNumber
  <2> QED BY <2>4, SameNumberAcks
<1> QED BY <1>7, <1>8, PeerOfPeer

AcksInv == \A n \in Node : AckInv(n) /\ ResultInv(n)

LEMMA InitAcks == Init => AcksInv
<1> SUFFICES ASSUME Init, NEW n \in Node PROVE AckInv(n) /\ ResultInv(n)
  BY DEF AcksInv
<1>1. Peer(n) \in Node
  BY PeerType
<1>2. /\ sendSeq[n] = 0 /\ recvSeq[Peer(n)] = 0 /\ wr[n].pc = "idle" /\ wr[Peer(n)].pc = "idle"
      /\ link[n] = << >> /\ link[Peer(n)] = << >> /\ sent[n] = 0
      /\ result[n] = [i \in 1 .. MaxMsgs[n] |-> "none"]
  BY <1>1 DEF Init, IdleWr
<1>3. Frames(<< >>) = {}
  BY DEF Frames
<1>4. AckInv(n)
  BY <1>2, <1>3 DEF AckInv, Outgoing, InProgress, Incoming, Confirmed, Seen, SeenBy
<1> QED BY <1>2, <1>4 DEF ResultInv

LEMMA NextAcks == TypeOK /\ TypeOK' /\ OrderInv /\ AcksInv /\ [Next]_vars => AcksInv'
<1> SUFFICES ASSUME TypeOK, TypeOK', OrderInv, AcksInv, [Next]_vars, NEW n \in Node
             PROVE  AckInv(n)' /\ ResultInv(n)'
  BY DEF AcksInv
<1>1. AckInv(n) /\ ResultInv(n) /\ \A k \in Node : WireInv(Peer(k))
  BY PeerType DEF AcksInv, OrderInv
<1>2. CASE UNCHANGED vars
  <2>1. UNCHANGED <<sendSeq, recvSeq, events, wr, link, sent, result, wrapped, boots>>
    BY <1>2 DEF vars, nodeVars, histVars
  <2>2. UNCHANGED <<delivered, rejected, rx>>
    BY <1>2 DEF vars, nodeVars, histVars
  <2>3. FrameStep
    BY <2>1 DEF FrameStep
  <2>4. SameNumber(n)
    BY <2>1, <2>2, <2>3, PeerType, SameReceived, FrameStepSame
  <2>5. ResultInv(n)'
    BY <1>1, <2>1, SameResult
  <2> QED BY <1>1, <2>4, <2>5, SameNumberAcks
<1>3. CASE Next
  <2>1. PICK m \in Node :
            \/ Encode(m) \/ EncodeFails(m) \/ WriteFails(m)
            \/ Sender(m) \/ Receive(m) \/ OnProto(m) \/ AckTimerExpires(m) \/ Idle(m)
            \/ FreeRecvProto(m) \/ Environment(m)
    BY <1>3 DEF Next
  <2>2. CASE Encode(m) \/ EncodeFails(m)
    BY <1>1, <2>2, EncodeAcks, EncodeResult
  <2>3. CASE WriteFails(m) \/ AckReceived(m) \/ RetransmitTimeout(m)
    BY <1>1, <2>3, LocalSame, SameNumberAcks, SendEndsResult
  <2>4. CASE CheckAckTimer(m) \/ AckTimerExpires(m) \/ FreeRecvProto(m) \/ Establish(m) \/ Confirm(m)
    BY <1>1, <2>4, LocalSame, SameNumberAcks, OtherResult
  <2>5. CASE Transmit(m) \/ Receive(m) \/ OnProto(m) \/ Lose(m) \/ Corrupt(m)
    BY <1>1, <2>5, TransmitSame, ReceiveSame, OnProtoSame, FaultSame, SameNumberAcks,
       OtherResult
  <2>6. CASE Idle(m)
    BY <1>1, <2>6, IdleAcks, OtherResult
  <2>7. CASE Reboot(m)
    <3>1. boots' # 0
      BY <2>7 DEF Reboot, TypeOK
    <3> QED BY <1>1, <2>7, <3>1, RebootResult DEF AckInv
  <2> QED BY <2>1, <2>2, <2>3, <2>4, <2>5, <2>6, <2>7 DEF Sender, Environment
<1> QED BY <1>2, <1>3

LEMMA AcksInvConfirms == AcksInv => SuccessMeansReceived
BY DEF AcksInv, AckInv, Confirmed, SuccessMeansReceived

\* uc_send returns true only for a message the peer received, as long as neither
\* MCU rebooted and the sequence numbers did not wrap: whatever is lost, damaged
\* or late, and for any retransmission limit.
THEOREM SuccessIsReceipt == Spec => []SuccessMeansReceived
<1>1. Init => OrderInv /\ AcksInv
  BY InitOrder, InitAcks
<1>2. TypeOK /\ TypeOK' /\ OrderInv /\ [Next]_vars => OrderInv'
  BY NextOrder
<1>3. TypeOK /\ TypeOK' /\ OrderInv /\ AcksInv /\ [Next]_vars => AcksInv'
  BY NextAcks
<1>4. AcksInv => SuccessMeansReceived
  BY AcksInvConfirms
<1> QED BY <1>1, <1>2, <1>3, <1>4, TypeCorrect, PTL DEF Spec

-----------------------------------------------------------------------------
(***************************************************************************)
(* A secret message is delivered once.  Sequence numbers cannot show it:   *)
(* a reboot resets them.  What does is that every copy of a message still  *)
(* to come is newer than all that n took, or Spent: its session is older   *)
(* than the last one n confirmed, or is that one and n has no key any more *)
(* or a receive counter not below the copy's.  A copy that decrypts and    *)
(* passes check_recv_seq is not spent, hence newer; taking it spends its   *)
(* other copies, which have the same session and counter; and sessions and *)
(* counters only move on (Ahead), over reboots and new sessions too.       *)
(***************************************************************************)

AllSecret == Production /\ \A kind \in SendKinds : kind.secret

\* The messages that may still arrive: on the wire, or in the send in progress.
ComingOn(lk, w) ==
    {f \in Frames(lk) : f.id # 0} \cup (IF w.pc = "idle" THEN {} ELSE {w.frame})
Coming(n) == ComingOn(link[n], wr[Peer(n)])

\* A frame that a receiver with session state se will refuse for good.
Spent(f, se) ==
    \/ f.enc[1] < se.last
    \/ f.enc[1] = se.last /\ (se.key = 0 \/ f.enc[2] <= se.recv)

Taken(d, r) == {d[i] : i \in 1 .. Len(d)} \cup ({r} \ {0})

SecretOK(C, d, r, se) ==
    /\ \A f \in C : f.enc[1] > 0
    /\ \A f, g \in C : f.id = g.id => f.enc = g.enc
    /\ \A f \in C, x \in Taken(d, r) : f.id > x \/ Spent(f, se)
    /\ \A i, j \in 1 .. Len(d) : i < j => d[i] < d[j]
    /\ r # 0 => \A i \in 1 .. Len(d) : d[i] < r
    /\ se.key \in {0, se.last}

SecretInv(n) ==
    SecretOK(Coming(n), delivered[n], rx[n], sess[n]) /\ sess[n].last <= sessions

\* Session state moves on: what is spent stays spent.
Ahead(se, se2) ==
    /\ se2.key \in {0, se2.last}
    /\ \/ se2.last > se.last
       \/ /\ se2.last = se.last
          /\ se2.key = 0 \/ (se2.key = se.key /\ se2.recv >= se.recv)

LEMMA SpentAhead ==
    ASSUME NEW se \in Session, NEW se2 \in Session, NEW f \in Frame, Ahead(se, se2), Spent(f, se)
    PROVE  Spent(f, se2)
<1>1. f.enc[1] \in Nat /\ f.enc[2] \in Nat
  BY DEF Frame
<1>2. /\ se.last \in Nat /\ se.recv \in Nat /\ se.key \in Nat
      /\ se2.last \in Nat /\ se2.recv \in Nat /\ se2.key \in Nat
  BY DEF Session
<1> QED BY <1>1, <1>2 DEF Spent, Ahead

LEMMA SecretShrinks ==
    ASSUME NEW C \in SUBSET Frame, NEW C2 \in SUBSET C, NEW d, NEW r, NEW r2 \in {0, r},
           NEW se \in Session, NEW se2 \in Session, SecretOK(C, d, r, se), Ahead(se, se2)
    PROVE  SecretOK(C2, d, r2, se2)
<1>1. \A f \in C2 : Spent(f, se) => Spent(f, se2)
  BY SpentAhead
<1>2. Taken(d, r2) \subseteq Taken(d, r)
  BY DEF Taken
<1>3. \A f \in C2, x \in Taken(d, r2) : f.id > x \/ Spent(f, se2)
  BY <1>1, <1>2 DEF SecretOK
<1>4. se2.key \in {0, se2.last}
  BY DEF Ahead
<1> QED BY <1>3, <1>4 DEF SecretOK

\* A message is encoded.
LEMMA SecretGrows ==
    ASSUME NEW C \in SUBSET Frame, NEW g, NEW C2 \in SUBSET (C \cup {g}), NEW d, NEW r,
           NEW se \in Session, SecretOK(C, d, r, se), g.enc[1] > 0,
           \A f \in C : f.id # g.id,
           \A x \in Taken(d, r) : g.id > x
    PROVE  SecretOK(C2, d, r, se)
<1>1. \A f \in C2 : f \in C \/ f = g
  OBVIOUS
<1>2. \A f \in C2 : f.enc[1] > 0
  BY <1>1 DEF SecretOK
<1>3. \A f, h \in C2 : f.id = h.id => f.enc = h.enc
  BY <1>1 DEF SecretOK
<1>4. \A f \in C2, x \in Taken(d, r) : f.id > x \/ Spent(f, se)
  BY <1>1 DEF SecretOK
<1> QED BY <1>2, <1>3, <1>4 DEF SecretOK

\* A message is taken from the wire, decoded or not.
LEMMA SecretTaken ==
    ASSUME NEW C \in SUBSET Frame, NEW f \in C, NEW C2 \in SUBSET C, NEW d \in Seq(Nat),
           NEW r2 \in {0, f.id}, NEW se \in Session, NEW se2 \in Session,
           SecretOK(C, d, 0, se), se.key # 0, f.enc[1] = se.key, f.enc[2] > se.recv,
           se2 = [se EXCEPT !.recv = f.enc[2]],
           \A g \in C2 : f.id <= g.id
    PROVE  SecretOK(C2, d, r2, se2)
<1>1. \A g \in C : g.enc[1] \in Nat /\ g.enc[2] \in Nat /\ g.id \in Nat
  BY DEF Frame
<1>2. se.last \in Nat /\ se.recv \in Nat /\ se.key = se.last
  BY DEF Session, SecretOK
<1>3. se2.last = se.last /\ se2.key = se.key /\ se2.recv = f.enc[2]
  BY DEF Session
<1>4. ~Spent(f, se)
  BY <1>1, <1>2 DEF Spent
<1>5. \A x \in Taken(d, 0) : f.id > x
  BY <1>4 DEF SecretOK
<1>6. Ahead(se, se2)
  BY <1>1, <1>2, <1>3 DEF Ahead
<1>7. \A g \in C2 : Spent(g, se) => Spent(g, se2)
  BY <1>6, SpentAhead
<1>8. \A g \in C2 : g.id > f.id \/ Spent(g, se2)
  <2>1. \A g \in C2 : g.id = f.id => g.enc = f.enc
    BY DEF SecretOK
  <2>2. \A g \in C2 : g.id = f.id => Spent(g, se2)
    BY <1>1, <1>2, <1>3, <2>1 DEF Spent
  <2>3. \A g \in C2 : g.id = f.id \/ g.id > f.id
    BY <1>1
  <2> QED BY <2>2, <2>3
<1>9. \A g \in C2, x \in Taken(d, r2) : g.id > x \/ Spent(g, se2)
  <2>1. \A x \in Taken(d, r2) : x \in Taken(d, 0) \/ x = f.id
    BY DEF Taken
  <2>2. \A g \in C2, x \in Taken(d, 0) : g.id > x \/ Spent(g, se2)
    BY <1>7 DEF SecretOK
  <2> QED BY <1>8, <2>1, <2>2
<1>10. \A i \in 1 .. Len(d) : d[i] < f.id
  <2>1. \A i \in 1 .. Len(d) : d[i] \in Taken(d, 0) /\ d[i] \in Nat
    BY DEF Taken
  <2> QED BY <1>1, <1>5, <2>1
<1>11. se2.key \in {0, se2.last}
  BY <1>2, <1>3
<1> QED BY <1>9, <1>10, <1>11 DEF SecretOK

\* The message in _uc_on_proto is delivered.
LEMMA SecretDelivered ==
    ASSUME NEW C, NEW d \in Seq(Nat), NEW r \in Nat, r # 0, NEW se, SecretOK(C, d, r, se)
    PROVE  SecretOK(C, Append(d, r), 0, se)
<1>1. /\ Len(Append(d, r)) = Len(d) + 1 /\ Len(d) \in Nat
      /\ \A i \in 1 .. Len(d) : Append(d, r)[i] = d[i]
      /\ Append(d, r)[Len(d) + 1] = r
  BY AppendProperties
<1>2. \A i \in 1 .. Len(Append(d, r)) : i \in 1 .. Len(d) \/ i = Len(d) + 1
  BY <1>1
<1>3. Taken(Append(d, r), 0) \subseteq Taken(d, r)
  BY <1>1, <1>2 DEF Taken
<1>4. \A i, j \in 1 .. Len(Append(d, r)) : i < j => Append(d, r)[i] < Append(d, r)[j]
  <2> SUFFICES ASSUME NEW i \in 1 .. Len(Append(d, r)), NEW j \in 1 .. Len(Append(d, r)), i < j
               PROVE  Append(d, r)[i] < Append(d, r)[j]
    OBVIOUS
  <2>1. i \in 1 .. Len(d)
    BY <1>1
  <2>2. CASE j \in 1 .. Len(d)
    BY <1>1, <2>1, <2>2 DEF SecretOK
  <2>3. CASE j = Len(d) + 1
    BY <1>1, <2>1, <2>3 DEF SecretOK
  <2> QED BY <1>2, <2>2, <2>3
<1>5. \A f \in C, x \in Taken(Append(d, r), 0) : f.id > x \/ Spent(f, se)
  BY <1>3 DEF SecretOK
<1> QED BY <1>4, <1>5 DEF SecretOK

LEMMA ComingType ==
    ASSUME TypeOK, NEW n \in Node PROVE Coming(n) \in SUBSET Frame
<1>1. link[n] \in Seq(Frame) /\ wr[Peer(n)].frame \in Frame
  BY DirectionType
<1>2. Frames(link[n]) \subseteq Frame
  BY <1>1 DEF Frames
<1> QED BY <1>1, <1>2 DEF Coming, ComingOn

LEMMA SameAhead ==
    ASSUME NEW se \in Session, se.key \in {0, se.last} PROVE Ahead(se, se)
BY DEF Ahead, Session

\* Nothing more is to come and nothing is taken.
LEMMA SecretLess ==
    ASSUME TypeOK, TypeOK', NEW n \in Node, SecretInv(n), Coming(n)' \subseteq Coming(n),
           delivered'[n] = delivered[n], rx'[n] \in {0, rx[n]},
           Ahead(sess[n], sess'[n]), sess'[n].last <= sessions'
    PROVE  SecretInv(n)'
<1> DEFINE C == Coming(n)  C2 == Coming(n)'  se == sess[n]  se2 == sess'[n]
           d == delivered[n]  r == rx[n]  r2 == rx'[n]
<1>1. C \in SUBSET Frame /\ C2 \in SUBSET C /\ se \in Session /\ se2 \in Session /\ r2 \in {0, r}
  BY ComingType DEF TypeOK
<1>2. SecretOK(C, d, r, se) /\ Ahead(se, se2)
  BY DEF SecretInv
<1>3. SecretOK(C2, d, r2, se2)
  <2> HIDE DEF C, C2, se, se2, d, r, r2
  <2> QED BY <1>1, <1>2, SecretShrinks, ZenonT(60)
<1> QED BY <1>3 DEF SecretInv

LEMMA SecretSame ==
    ASSUME TypeOK, TypeOK', NEW n \in Node, SecretInv(n), Coming(n)' \subseteq Coming(n),
           delivered'[n] = delivered[n], rx'[n] \in {0, rx[n]}, sess'[n] = sess[n],
           sessions' = sessions
    PROVE  SecretInv(n)'
<1>1. sess[n] \in Session
  BY DEF TypeOK
<1>2. Ahead(sess[n], sess[n]) /\ sess[n].last <= sessions
  BY <1>1, SameAhead DEF SecretInv, SecretOK
<1> QED BY <1>2, SecretLess

LEMMA SameNumberComing ==
    ASSUME NEW n \in Node, SameNumber(Peer(n)) PROVE Coming(n)' \subseteq Coming(n)
<1>1. Peer(Peer(n)) = n
  BY PeerOfPeer
<1>2. /\ \A f \in Frames(link'[n]) :
             f \in Frames(link[n]) \/ (wr[Peer(n)].pc # "idle" /\ f = wr[Peer(n)].frame)
      /\ wr'[Peer(n)].pc # "idle" =>
             wr[Peer(n)].pc # "idle" /\ wr'[Peer(n)].frame = wr[Peer(n)].frame
  BY <1>1 DEF SameNumber
<1> QED BY <1>2 DEF Coming, ComingOn

LEMMA LocalSecret ==
    ASSUME TypeOK, TypeOK', NEW m \in Node, NEW n \in Node, SecretInv(n), WireInv(Peer(m)),
           \/ CheckAckTimer(m) \/ WriteFails(m) \/ AckReceived(m) \/ RetransmitTimeout(m)
           \/ AckTimerExpires(m) \/ FreeRecvProto(m) \/ Transmit(m) \/ Lose(m) \/ Corrupt(m)
    PROVE  SecretInv(n)'
<1>1. SameNumber(Peer(n))
  BY PeerType, LocalSame, TransmitSame, FaultSame
<1>2. UNCHANGED <<delivered, rx, sess, sessions>>
  BY DEF CheckAckTimer, WriteFails, AckReceived, RetransmitTimeout, AckTimerExpires,
         FreeRecvProto, Transmit, Lose, Corrupt, histVars, nodeVars
<1> QED BY <1>1, <1>2, SameNumberComing, SecretSame

LEMMA SessionSecret ==
    ASSUME TypeOK, TypeOK', NEW m \in Node, NEW n \in Node, SecretInv(n), WireInv(Peer(m)),
           Establish(m) \/ Confirm(m)
    PROVE  SecretInv(n)'
<1>1. SameNumber(Peer(n))
  BY PeerType, LocalSame
<1>2. UNCHANGED <<delivered, rx>>
  BY DEF Establish, Confirm, histVars
<1>3. /\ sess \in [Node -> Session] /\ sess' \in [Node -> Session]
      /\ sessions \in Nat /\ sessions' \in Nat
  <2>1. sess \in [Node -> Session] /\ sess' \in [Node -> Session]
    BY DEF TypeOK
  <2>2. sessions \in 0 .. MaxSessions /\ sessions' \in 0 .. MaxSessions
    BY DEF TypeOK
  <2>3. sessions \in Nat /\ sessions' \in Nat
    BY <2>2
  <2> QED BY <2>1, <2>3
<1>4. /\ sess[n].last \in Nat /\ sess[n].last <= sessions
      /\ sess[n].key \in {0, sess[n].last}
  BY <1>3 DEF Session, SecretInv, SecretOK
<1>5. sessions' >= sessions
  BY <1>3 DEF Establish, Confirm, histVars
<1>6. Ahead(sess[n], sess'[n]) /\ sess'[n].last <= sessions'
  <2>1. CASE n # m
    <3>1. sess'[n] = sess[n]
      BY <1>3, <2>1 DEF Establish, Confirm
    <3>2. Ahead(sess[n], sess[n])
      BY <1>3, <1>4, SameAhead
    <3> QED BY <1>3, <1>4, <1>5, <3>1, <3>2
  <2>2. CASE n = m /\ Establish(m)
    <3>1. sess'[n].key = 0 /\ sess'[n].last = sess[n].last /\ sessions' = sessions
      BY <1>3, <2>2 DEF Establish, Session, histVars
    <3> QED BY <1>4, <3>1 DEF Ahead
  <2>3. CASE n = m /\ Confirm(m)
    <3>1. /\ sess'[n].last > sess[n].last /\ sess'[n].key = sess'[n].last
          /\ sess'[n].last <= sessions'
      BY <1>3, <1>4, <2>3 DEF Confirm
    <3> QED BY <3>1 DEF Ahead
  <2> QED BY <2>1, <2>2, <2>3
<1> QED BY <1>1, <1>2, <1>6, SameNumberComing, SecretLess

\* A message handed over moves the counter of its sender, whether it is encoded or not.
LEMMA TakeCryptoAhead ==
    ASSUME TypeOK, NEW m \in Node, NEW kind, TakeCryptoSeq(m, kind), NEW n \in Node, SecretInv(n)
    PROVE  Ahead(sess[n], sess'[n]) /\ sess'[n].last = sess[n].last
<1>1. sess \in [Node -> Session]
  BY DEF TypeOK
<1>2. /\ sess'[n].key = sess[n].key /\ sess'[n].last = sess[n].last /\ sess'[n].recv = sess[n].recv
      /\ sess[n].recv \in Nat
  BY <1>1 DEF TakeCryptoSeq, Session
<1>3. sess[n].key \in {0, sess[n].last}
  BY DEF SecretInv, SecretOK
<1> QED BY <1>2, <1>3 DEF Ahead

LEMMA EncodeSecret ==
    ASSUME TypeOK, TypeOK', NEW m \in Node, NEW n \in Node, AllSecret, SecretInv(n), WireInv(n),
           TakenInv(n), Encode(m)
    PROVE  SecretInv(n)'
<1>1. PICK kind \in SendKinds, hold \in {0, 1} :
          /\ ~EncryptFails(m, kind)
          /\ wr' = [wr EXCEPT ![m] = [pc |-> "encoded", retry |-> 0, hold |-> hold,
                                      stop |-> FALSE, frame |-> EncodedFrame(m, kind)]]
          /\ TakeCryptoSeq(m, kind)
  BY DEF Encode
<1>2. UNCHANGED <<link, delivered, rx, sessions>>
  BY DEF Encode
<1>3. Ahead(sess[n], sess'[n]) /\ sess'[n].last = sess[n].last
  BY <1>1, TakeCryptoAhead
<1>4. sess'[n].last <= sessions'
  BY <1>2, <1>3 DEF SecretInv
<1>5. wr \in [Node -> Wr]
  BY DEF TypeOK
<1>6. CASE n = m
  <2>1. wr'[Peer(n)] = wr[Peer(n)]
    BY <1>1, <1>5, <1>6, PeerOfPeer
  <2>2. Coming(n)' = Coming(n)
    BY <1>2, <2>1 DEF Coming
  <2> QED BY <1>2, <1>3, <1>4, <2>2, SecretLess
<1>7. CASE Peer(n) = m
  <2> DEFINE g == EncodedFrame(m, kind)
             C == Coming(n)  C2 == Coming(n)'  se == sess[n]
             d == delivered[n]  r == rx[n]  se2 == sess'[n]
  <2>1. /\ n # m /\ sess'[n] = sess[n]
    BY <1>1, <1>7, PeerOfPeer DEF TakeCryptoSeq, TypeOK
  <2>2. wr'[m].pc = "encoded" /\ wr'[m].frame = g /\ wr[m].pc = "idle"
    BY <1>1, <1>5 DEF Encode
  <2>3. g.id = sent[m] + 1 /\ sent[m] \in Nat
    BY DEF EncodedFrame, TypeOK
  <2>4. g.enc[1] > 0
    <3>1. sess[m].key # 0 /\ Encrypts(m, kind) /\ sess[m].key \in Nat
      BY <1>1 DEF EncryptFails, Encrypts, AllSecret, TypeOK, Session
    <3>2. g.enc = <<sess[m].key, sess[m].send + 1>>
      BY <3>1 DEF EncodedFrame
    <3> QED BY <3>1, <3>2
  <2>5. C2 \subseteq C \cup {g}
    BY <1>2, <1>7, <2>2 DEF Coming, ComingOn
  <2>6. \A f \in C : f.id # g.id
    <3>1. \A f \in Frames(link[n]) : f.id <= sent[m] /\ f.id \in Nat
      BY <1>7, FramesType DEF WireInv, WireOK, Frames
    <3>2. C = {f \in Frames(link[n]) : f.id # 0}
      BY <1>7, <2>2 DEF Coming, ComingOn
    <3> QED BY <2>3, <3>1, <3>2
  <2>7. \A x \in Taken(d, r) : g.id > x
    <3>3. d \in Seq(Nat)
      BY DEF TypeOK
    <3>1. \A i \in 1 .. Len(d) : d[i] <= sent[m] /\ d[i] \in Nat
      BY <1>7, <3>3 DEF TakenInv, TakenOK
    <3>2. r <= sent[m] /\ r \in Nat
      BY <1>7 DEF TakenInv, TakenOK, TypeOK
    <3> QED BY <2>3, <3>1, <3>2 DEF Taken
  <2>8. C \in SUBSET Frame /\ se \in Session /\ SecretOK(C, d, r, se)
    BY ComingType DEF TypeOK, SecretInv
  <2>9. SecretOK(C2, d, r, se)
    <3> HIDE DEF C, C2, d, r, se, g
    <3> QED BY <2>4, <2>5, <2>6, <2>7, <2>8, SecretGrows
  <2> QED BY <1>2, <1>4, <2>1, <2>9 DEF SecretInv
<1> QED BY <1>6, <1>7, PeerOfPeer

LEMMA EncodeFailsSecret ==
    ASSUME TypeOK, TypeOK', NEW m \in Node, NEW n \in Node, SecretInv(n), EncodeFails(m)
    PROVE  SecretInv(n)'
<1>1. UNCHANGED <<link, wr, delivered, rx, sessions>>
  BY DEF EncodeFails
<1>2. Coming(n)' = Coming(n)
  BY <1>1 DEF Coming
<1>3. CASE sess' = sess
  BY <1>1, <1>2, <1>3, SecretSame
<1>4. CASE \E kind \in SendKinds : TakeCryptoSeq(m, kind)
  <2>1. Ahead(sess[n], sess'[n]) /\ sess'[n].last = sess[n].last
    BY <1>4, TakeCryptoAhead
  <2>2. sess'[n].last <= sessions'
    BY <1>1, <2>1 DEF SecretInv
  <2> QED BY <1>1, <1>2, <2>1, <2>2, SecretLess
<1> QED BY <1>3, <1>4 DEF EncodeFails

LEMMA IdleSecret ==
    ASSUME TypeOK, TypeOK', NEW m \in Node, NEW n \in Node, SecretInv(n), Idle(m)
    PROVE  SecretInv(n)'
<1> DEFINE f == PureAck(NextSeq(sendSeq[m]), recvSeq[m])
<1>1. UNCHANGED <<wr, delivered, rx, sess, sessions>>
  BY DEF Idle
<1>2. f \in Frame /\ f.id = 0
  <2>1. f \in Frame
    BY NextSeqType, PureAckType DEF TypeOK
  <2> QED BY <2>1 DEF PureAck
<1>3. link \in [Node -> Seq(Frame)]
  BY DEF TypeOK
<1>4. link'[n] = link[n] \/ link'[n] = Append(link[n], f)
  BY <1>3 DEF Idle
<1>5. \A g \in Frames(link'[n]) : g \in Frames(link[n]) \/ g = f
  BY <1>2, <1>3, <1>4, AppendIn
<1> HIDE DEF f
<1>6. Coming(n)' \subseteq Coming(n)
  BY <1>1, <1>2, <1>5 DEF Coming, ComingOn
<1> QED BY <1>1, <1>6, SecretSame

\* What is behind the frame at the head of the wire is not older.
LEMMA BehindHead ==
    ASSUME TypeOK, NEW n \in Node, WireInv(n), link[n] # << >>, Head(link[n]).id # 0,
           link'[n] = Tail(link[n]), wr'[Peer(n)] = wr[Peer(n)]
    PROVE  /\ Head(link[n]) \in Coming(n)
           /\ \A g \in Coming(n)' : Head(link[n]).id <= g.id
<1> DEFINE f == Head(link[n])  lk == link[n]
<1>1. lk \in Seq(Frame)
  BY DEF TypeOK
<1>2. /\ Len(Tail(lk)) = Len(lk) - 1 /\ Len(lk) \in Nat /\ Len(lk) > 0 /\ f = lk[1]
      /\ \A i \in 1 .. Len(Tail(lk)) : Tail(lk)[i] = lk[i + 1]
  BY <1>1, TailFrames
<1>3. 1 \in 1 .. Len(lk) /\ \A i \in 1 .. Len(Tail(lk)) : i + 1 \in 1 .. Len(lk) /\ 1 < i + 1
  BY <1>2
<1>4. f \in Frames(lk)
  BY <1>1, TailIn
<1>5. \A g \in Frames(Tail(lk)) : g.id # 0 => f.id <= g.id
  BY <1>2, <1>3 DEF Frames, WireInv, WireOK
<1>6. wr[Peer(n)].pc # "idle" => f.id <= wr[Peer(n)].frame.id
  BY <1>2, <1>3 DEF WireInv, WireOK
<1>7. f \in Coming(n)
  BY <1>4 DEF Coming, ComingOn
<1>8. \A g \in Coming(n)' : f.id <= g.id
  <2>1. link'[n] = Tail(lk) /\ wr'[Peer(n)] = wr[Peer(n)]
    OBVIOUS
  <2> HIDE DEF f, lk
  <2> QED BY <1>5, <1>6, <2>1 DEF Coming, ComingOn
<1> QED BY <1>7, <1>8

LEMMA ReceiveNewSecret ==
    ASSUME TypeOK, TypeOK', NEW n \in Node, SecretInv(n), WireInv(n), Receive(n),
           ReceiveNew(n, Head(link[n])), Coming(n)' \subseteq Coming(n)
    PROVE  SecretInv(n)'
<1> DEFINE f == Head(link[n])
           C == Coming(n)  C2 == Coming(n)'  se == sess[n]  se2 == sess'[n]
           d == delivered[n]  r2 == rx'[n]
<1>1. /\ link[n] # << >> /\ rx[n] = 0 /\ f.id # 0 /\ Readable(n, f) /\ Fresh(n, f)
      /\ NoteCryptoSeq(n, f) /\ UNCHANGED <<wr, delivered, sessions>>
  BY DEF Receive, ReceiveNew, IsNew
<1>2. link'[n] = Tail(link[n])
  BY DEF Receive, Consume, TypeOK
<1>3. r2 \in {0, f.id}
  <2>1. rx' = [rx EXCEPT ![n] = f.id] \/ rx' = rx
    BY DEF ReceiveNew
  <2> QED BY <1>1, <2>1 DEF TypeOK
<1>4. f \in C /\ \A g \in C2 : f.id <= g.id
  BY <1>1, <1>2, BehindHead
<1>5. C \in SUBSET Frame /\ C2 \in SUBSET C /\ se \in Session /\ se2 \in Session /\ d \in Seq(Nat)
  BY ComingType DEF TypeOK
<1>6. SecretOK(C, d, 0, se) /\ se.last <= sessions
  BY <1>1 DEF SecretInv
<1>7. f.enc[1] > 0
  BY <1>4, <1>6 DEF SecretOK
<1>8. f.enc # Plain
  BY <1>7 DEF Plain
<1>9. /\ se.key # 0 /\ f.enc[1] = se.key /\ f.enc[2] > se.recv
      /\ se2 = [se EXCEPT !.recv = f.enc[2]]
  BY <1>1, <1>8 DEF Readable, Fresh, NoteCryptoSeq, TypeOK
<1>10. se2.last = se.last
  BY <1>5, <1>9 DEF Session
<1>11. SecretOK(C2, d, r2, se2)
  <2> HIDE DEF f, C, C2, se, se2, d, r2
  <2> QED BY <1>3, <1>4, <1>5, <1>6, <1>9, SecretTaken
<1> QED BY <1>1, <1>6, <1>10, <1>11 DEF SecretInv

LEMMA ReceiveSecret ==
    ASSUME TypeOK, TypeOK', NEW m \in Node, NEW n \in Node, SecretInv(n), WireInv(n), Receive(m)
    PROVE  SecretInv(n)'
<1> DEFINE f == Head(link[m])
<1>1. SameNumber(Peer(n))
  BY PeerType, ReceiveSame
<1>2. Coming(n)' \subseteq Coming(n)
  BY <1>1, SameNumberComing
<1>3. UNCHANGED <<delivered, sessions>>
  BY DEF Receive, ReceiveGlued, ReceiveUnreadable, ReceiveReplay, ReceiveNew,
         ReceiveOther, histVars
<1>4. CASE ReceiveGlued(m) \/ ReceiveUnreadable(m, f) \/ ReceiveReplay(m, f)
  <2>1. UNCHANGED <<rx, sess>>
    BY <1>4 DEF ReceiveGlued, ReceiveUnreadable, ReceiveReplay
  <2> QED BY <1>2, <1>3, <2>1, SecretSame
<1>5. CASE n # m /\ (ReceiveNew(m, f) \/ ReceiveOther(m, f))
  <2>1. rx'[n] = rx[n]
    BY <1>5, ZenonT(60) DEF ReceiveNew, ReceiveOther, TypeOK
  <2>2. sess'[n] = sess[n]
    <3>1. NoteCryptoSeq(m, f)
      BY <1>5 DEF ReceiveNew, ReceiveOther
    <3>2. sess \in [Node -> Session]
      BY DEF TypeOK
    <3> HIDE DEF f
    <3> QED BY <1>5, <3>1, <3>2 DEF NoteCryptoSeq
  <2> QED BY <1>2, <1>3, <2>1, <2>2, SecretSame
<1>6. CASE n = m /\ ReceiveNew(m, f)
  BY <1>2, <1>6, ReceiveNewSecret
<1>7. CASE n = m /\ ReceiveOther(m, f)
  <2>1. rx' = rx /\ NoteCryptoSeq(n, f) /\ Fresh(n, f)
    BY <1>7 DEF ReceiveOther
  <2>2. f.enc[2] \in Nat
    BY HeadType DEF Receive, TypeOK, Frame
  <2>3. sess \in [Node -> Session]
    BY DEF TypeOK
  <2>4. sess[n].key \in {0, sess[n].last} /\ sess[n].last <= sessions /\ sess[n].recv \in Nat
    BY <2>3 DEF SecretInv, SecretOK, Session
  <2> HIDE DEF f
  <2>5. /\ sess'[n].key = sess[n].key /\ sess'[n].last = sess[n].last
        /\ sess'[n].recv >= sess[n].recv
    BY <2>1, <2>2, <2>3, <2>4 DEF NoteCryptoSeq, Fresh, Session
  <2>6. Ahead(sess[n], sess'[n])
    BY <2>4, <2>5 DEF Ahead
  <2> QED BY <1>2, <1>3, <2>1, <2>4, <2>5, <2>6, SecretLess
<1> QED BY <1>4, <1>5, <1>6, <1>7 DEF Receive

LEMMA OnProtoSecret ==
    ASSUME TypeOK, TypeOK', NEW m \in Node, NEW n \in Node, SecretInv(n), OnProto(m)
    PROVE  SecretInv(n)'
<1>1. UNCHANGED <<link, wr, sess, sessions>>
  BY DEF OnProto
<1>2. Coming(n)' = Coming(n)
  BY <1>1 DEF Coming
<1>3. CASE n # m
  <2>1. delivered'[n] = delivered[n] /\ rx'[n] = rx[n]
    BY <1>3 DEF OnProto, TypeOK
  <2> QED BY <1>1, <1>2, <2>1, SecretSame
<1>4. CASE n = m
  <2>1. delivered'[n] = Append(delivered[n], rx[n]) /\ rx'[n] = 0 /\ rx[n] # 0
    BY <1>4 DEF OnProto, TypeOK
  <2>2. delivered[n] \in Seq(Nat) /\ rx[n] \in Nat
    BY DEF TypeOK
  <2>3. SecretOK(Coming(n), Append(delivered[n], rx[n]), 0, sess[n])
    BY <2>1, <2>2, SecretDelivered DEF SecretInv
  <2> QED BY <1>1, <1>2, <2>1, <2>3 DEF SecretInv
<1> QED BY <1>3, <1>4

LEMMA RebootSecret ==
    ASSUME TypeOK, TypeOK', NEW m \in Node, NEW n \in Node, SecretInv(n), Reboot(m)
    PROVE  SecretInv(n)'
<1>1. UNCHANGED <<delivered, sessions>>
  BY DEF Reboot
<1>2. link \in [Node -> Seq(Frame)] /\ wr \in [Node -> Wr] /\ sess \in [Node -> Session]
  BY DEF TypeOK
<1>3. Frames(link'[n]) \subseteq Frames(link[n])
  <2>1. PICK k \in 0 .. Len(link[m]) :
            link' = [link EXCEPT ![m] = SubSeq(link[m], k + 1, Len(link[m]))]
    BY DEF Reboot
  <2>2. CASE n # m
    BY <1>2, <2>1, <2>2
  <2>3. CASE n = m
    <3>1. link'[n] = SubSeq(link[n], k + 1, Len(link[n])) /\ link[n] \in Seq(Frame)
      BY <1>2, <2>1, <2>3
    <3>2. Len(link'[n]) = Len(link[n]) - k /\ Len(link[n]) \in Nat
      BY <2>3, <3>1
    <3>3. \A i \in 1 .. Len(link'[n]) : link'[n][i] = link[n][i + k] /\ i + k \in 1 .. Len(link[n])
      BY <2>3, <3>1, <3>2
    <3> QED BY <3>3 DEF Frames
  <2> QED BY <2>2, <2>3
<1>4. wr'[Peer(n)] = wr[Peer(n)] \/ wr'[Peer(n)].pc = "idle"
  BY <1>2, PeerType DEF Reboot, IdleWr
<1>5. Coming(n)' \subseteq Coming(n)
  BY <1>3, <1>4 DEF Coming, ComingOn
<1>6. rx'[n] \in {0, rx[n]}
  BY DEF Reboot, TypeOK
<1>7. CASE n # m
  <2>1. sess'[n] = sess[n]
    BY <1>2, <1>7 DEF Reboot
  <2> QED BY <1>1, <1>5, <1>6, <2>1, SecretSame
<1>8. CASE n = m
  <2>1. sess'[n].key = 0 /\ sess'[n].last = sess[n].last
    BY <1>2, <1>8 DEF Reboot, NoSession
  <2>2. Ahead(sess[n], sess'[n]) /\ sess'[n].last <= sessions'
    BY <1>1, <2>1 DEF Ahead, SecretInv
  <2> QED BY <1>1, <1>5, <1>6, <2>2, SecretLess
<1> QED BY <1>7, <1>8

SecretsInv == AllSecret => \A n \in Node : SecretInv(n)

LEMMA InitSecret == Init => SecretsInv
<1> SUFFICES ASSUME Init, NEW n \in Node PROVE SecretInv(n)
  BY DEF SecretsInv
<1>1. /\ link[n] = << >> /\ delivered[n] = << >> /\ rx[n] = 0 /\ wr[Peer(n)].pc = "idle"
      /\ sess[n] = NoSession /\ sessions = 0
  BY PeerType DEF Init, IdleWr
<1>2. Coming(n) = {}
  BY <1>1 DEF Coming, ComingOn, Frames
<1> QED BY <1>1, <1>2 DEF SecretInv, SecretOK, NoSession

LEMMA NextSecret == TypeOK /\ TypeOK' /\ OrderInv /\ SecretsInv /\ [Next]_vars => SecretsInv'
<1> SUFFICES ASSUME TypeOK, TypeOK', OrderInv, SecretsInv, [Next]_vars, AllSecret, NEW n \in Node
             PROVE  SecretInv(n)'
  BY DEF SecretsInv, AllSecret
<1>1. SecretInv(n) /\ WireInv(n) /\ TakenInv(n) /\ \A k \in Node : WireInv(Peer(k))
  BY PeerType DEF SecretsInv, OrderInv
<1>2. CASE UNCHANGED vars
  <2>1. UNCHANGED <<link, wr, delivered, rx, sess, sessions>>
    BY <1>2 DEF vars, nodeVars, histVars
  <2>2. Coming(n)' = Coming(n)
    BY <2>1 DEF Coming
  <2> QED BY <1>1, <2>1, <2>2, SecretSame
<1>3. CASE Next
  <2>1. PICK m \in Node :
            \/ Encode(m) \/ EncodeFails(m) \/ WriteFails(m)
            \/ Sender(m) \/ Receive(m) \/ OnProto(m) \/ AckTimerExpires(m) \/ Idle(m)
            \/ FreeRecvProto(m) \/ Environment(m)
    BY <1>3 DEF Next
  <2>2. CASE Encode(m) \/ EncodeFails(m)
    BY <1>1, <2>2, EncodeSecret, EncodeFailsSecret
  <2>3. CASE WriteFails(m) \/ Sender(m) \/ AckTimerExpires(m) \/ FreeRecvProto(m)
    BY <1>1, <2>3, LocalSecret DEF Sender
  <2>4. CASE Receive(m) \/ OnProto(m) \/ Idle(m)
    BY <1>1, <2>4, ReceiveSecret, OnProtoSecret, IdleSecret
  <2>5. CASE Environment(m)
    BY <1>1, <2>5, LocalSecret, SessionSecret, RebootSecret DEF Environment
  <2> QED BY <2>1, <2>2, <2>3, <2>4, <2>5
<1> QED BY <1>2, <1>3

LEMMA SecretsInvOnce == SecretsInv => SecretOnce
BY DEF SecretsInv, SecretInv, SecretOK, SecretOnce, AllSecret

\* Where everything is encrypted no message is delivered twice, whatever is lost,
\* sent again or rebooted and whenever the session is replaced: for any number of
\* messages, faults, reboots and sessions.
THEOREM NoSecretTwice == Spec => []SecretOnce
<1>1. Init => OrderInv /\ SecretsInv
  BY InitOrder, InitSecret
<1>2. TypeOK /\ TypeOK' /\ OrderInv /\ [Next]_vars => OrderInv'
  BY NextOrder
<1>3. TypeOK /\ TypeOK' /\ OrderInv /\ SecretsInv /\ [Next]_vars => SecretsInv'
  BY NextSecret
<1>4. SecretsInv => SecretOnce
  BY SecretsInvOnce
<1> QED BY <1>1, <1>2, <1>3, <1>4, TypeCorrect, PTL DEF Spec

-----------------------------------------------------------------------------
(***************************************************************************)
(* The refinement: every step is a step of Channel or leaves alone what    *)
(* the tasks see.  Return needs Confirmed and that a send has no result    *)
(* before it ends; Arrive needs the delivery order and, without reboots,   *)
(* that n recognises the copies of what it took.                           *)
(***************************************************************************)

\* What the tasks see of the transport.
seen == <<sent, result, rx, delivered, rejected, wrapped, boots>>

LEMMA StutterChannel == UNCHANGED seen => UNCHANGED Promise!vars
BY DEF seen, Promise!vars

LEMMA InitChannel == Init => Promise!Init
BY DEF Init, Promise!Init

LEMMA SetSame ==
    ASSUME NEW r, ResultType(r), NEW n \in Node, NEW i \in 1 .. MaxMsgs[n], NEW o, r[n][i] = o
    PROVE  [r EXCEPT ![n][i] = o] = r
BY DEF ResultType

LEMMA EncodeChannel ==
    ASSUME TypeOK, NEW n \in Node, ResultInv(n), Encode(n) PROVE Promise!Send(n)
<1>1. /\ sent[n] < MaxMsgs[n] /\ sent' = [sent EXCEPT ![n] = @ + 1] /\ result' = result
      /\ UNCHANGED <<rx, delivered, rejected, boots>>
      /\ wrapped' = [wrapped EXCEPT ![n] = @ \/ sendSeq[n] = MaxSeq]
  BY DEF Encode, BumpSeq
<1>2. sent[n] \in Nat /\ MaxMsgs[n] \in Nat /\ ResultType(result)
  BY DEF TypeOK, ResultType
<1>3. sent[n] + 1 \in 1 .. MaxMsgs[n] /\ sent[n] + 1 > sent[n]
  BY <1>1, <1>2
<1>4. result[n][sent[n] + 1] = "none"
  BY <1>3 DEF ResultInv
<1>5. result' = [result EXCEPT ![n][sent[n] + 1] = "none"]
  BY <1>1, <1>2, <1>3, <1>4, SetSame
<1>6. (sendSeq[n] = MaxSeq) \in BOOLEAN
  OBVIOUS
<1>7. \E w \in BOOLEAN : wrapped' = [wrapped EXCEPT ![n] = @ \/ w]
  BY <1>1, <1>6
<1> QED BY <1>1, <1>5, <1>7 DEF Promise!Send

LEMMA EncodeFailsChannel ==
    ASSUME TypeOK, NEW n \in Node, EncodeFails(n) PROVE Promise!Send(n)
<1>1. /\ sent[n] < MaxMsgs[n] /\ sent' = [sent EXCEPT ![n] = @ + 1]
      /\ result' = [result EXCEPT ![n][sent[n] + 1] = "failed"]
      /\ UNCHANGED <<rx, delivered, rejected, boots>>
      /\ wrapped' = [wrapped EXCEPT ![n] = @ \/ sendSeq[n] = MaxSeq]
  BY DEF EncodeFails, BumpSeq
<1>2. (sendSeq[n] = MaxSeq) \in BOOLEAN
  OBVIOUS
<1>3. \E w \in BOOLEAN : wrapped' = [wrapped EXCEPT ![n] = @ \/ w]
  BY <1>1, <1>2
<1> QED BY <1>1, <1>3 DEF Promise!Send

LEMMA IdleChannel ==
    ASSUME TypeOK, NEW n \in Node, Idle(n) PROVE Promise!Wear(n) \/ UNCHANGED seen
<1>1. /\ UNCHANGED <<sent, result, rx, delivered, rejected, boots>>
      /\ wrapped' = [wrapped EXCEPT ![n] = @ \/ sendSeq[n] = MaxSeq]
  BY DEF Idle, BumpSeq
<1>2. wrapped \in [Node -> BOOLEAN]
  BY DEF TypeOK
<1>3. CASE sendSeq[n] = MaxSeq
  <2>1. wrapped' = [wrapped EXCEPT ![n] = TRUE]
    BY <1>1, <1>3
  <2> QED BY <1>1, <2>1 DEF Promise!Wear
<1>4. CASE sendSeq[n] # MaxSeq
  <2>1. wrapped' = wrapped
    BY <1>1, <1>2, <1>4
  <2> QED BY <1>1, <2>1 DEF seen
<1> QED BY <1>3, <1>4

LEMMA ReceivedChannel == \A n \in Node : Promise!Received(n) = Received(n)
BY DEF Promise!Received, Received

\* The send of n ends.
LEMMA FinishChannel ==
    ASSUME TypeOK, NEW n \in Node, WireInv(Peer(n)), ResultInv(n), AckInv(n),
           wr[n].pc # "idle", NEW o \in {"ok", "failed", "max_retransmits"}, Finish(n, o),
           o = "ok" => wr[n].pc = "wait" /\ "ACK" \in events[n],
           UNCHANGED <<sent, rx, delivered, rejected, wrapped, boots>>
    PROVE  Promise!Return(n)
<1>1. wr[n].frame.id = sent[n] /\ sent[n] > 0
  BY PeerOfPeer DEF WireInv, WireOK
<1>2. sent[n] \in 1 .. sent[n]
  BY <1>1 DEF TypeOK
<1>3. result[n][sent[n]] = "none" /\ result' = [result EXCEPT ![n][sent[n]] = o]
  BY <1>1 DEF ResultInv, Finish
<1>4. o = "ok" => sent[n] \in Promise!Received(Peer(n)) \/ wrapped[n] \/ boots > 0
  <2>1. boots \in Nat
    BY DEF TypeOK
  <2>2. o = "ok" /\ boots = 0 /\ ~wrapped[n] => sent[n] \in Received(Peer(n))
    BY DEF AckInv, Confirmed, Got
  <2> QED BY <2>1, <2>2, ReceivedChannel, PeerType
<1> QED BY <1>2, <1>3, <1>4 DEF Promise!Return

LEMMA SenderChannel ==
    ASSUME TypeOK, NEW n \in Node, WireInv(Peer(n)), ResultInv(n), AckInv(n),
           WriteFails(n) \/ AckReceived(n) \/ RetransmitTimeout(n)
    PROVE  Promise!Return(n) \/ UNCHANGED seen
<1>1. UNCHANGED <<sent, rx, delivered, rejected, wrapped, boots>> /\ wr[n].pc # "idle"
  BY DEF WriteFails, AckReceived, RetransmitTimeout
<1>2. CASE WriteFails(n)
  BY <1>1, <1>2, FinishChannel DEF WriteFails
<1>3. CASE AckReceived(n)
  BY <1>1, <1>3, FinishChannel DEF AckReceived
<1>4. CASE RetransmitTimeout(n)
  <2>1. CASE Finish(n, "max_retransmits")
    BY <1>1, <2>1, FinishChannel
  <2>2. CASE result' = result
    BY <1>1, <2>2 DEF seen
  <2> QED BY <1>4, <2>1, <2>2 DEF RetransmitTimeout
<1> QED BY <1>2, <1>3, <1>4

LEMMA ReceiveChannel ==
    ASSUME TypeOK, NEW n \in Node, DirInv(n), Receive(n)
    PROVE  Promise!Arrive(n) \/ Promise!Refuse(n) \/ UNCHANGED seen
<1> DEFINE f == Head(link[n])
<1>1. link[n] # << >> /\ rx[n] = 0
  BY DEF Receive
<1>2. CASE ReceiveGlued(n) \/ ReceiveUnreadable(n, f) \/ ReceiveReplay(n, f) \/ ReceiveOther(n, f)
  BY <1>2 DEF ReceiveGlued, ReceiveUnreadable, ReceiveReplay, ReceiveOther, histVars, seen
<1>3. CASE ReceiveNew(n, f)
  <2>1. /\ link[n] \in Seq(Frame) /\ f = link[n][1] /\ 1 \in 1 .. Len(link[n])
        /\ f.id \in Nat /\ sent[Peer(n)] \in Nat /\ boots \in Nat /\ delivered[n] \in Seq(Nat)
    <3>1. link[n] \in Seq(Frame) /\ sent[Peer(n)] \in Nat /\ delivered[n] \in Seq(Nat)
      BY DirectionType
    <3>2. f = link[n][1] /\ 1 \in 1 .. Len(link[n])
      BY <1>1, <3>1, TailFrames
    <3>3. f.id \in Nat
      BY <1>1, HeadType DEF TypeOK, Frame
    <3>4. boots \in Nat
      BY DEF TypeOK
    <3> QED BY <3>1, <3>2, <3>3, <3>4
  <2>2. f.id # 0 /\ BaseSeq(n, f) # f.seq /\ UNCHANGED <<sent, result, delivered, wrapped, boots>>
    BY <1>3 DEF ReceiveNew, IsNew
  <2>3. f.id <= sent[Peer(n)]
    BY <2>1 DEF DirInv, WireInv, WireOK
  <2>4. f.id \in 1 .. sent[Peer(n)]
    BY <2>1, <2>2, <2>3
  <2>5. \A k \in 1 .. Len(delivered[n]) :
            \/ delivered[n][k] < f.id
            \/ delivered[n][k] = f.id /\ (f.id = 1 \/ boots > 0)
    <3> SUFFICES ASSUME NEW k \in 1 .. Len(delivered[n])
                 PROVE  \/ delivered[n][k] < f.id
                        \/ delivered[n][k] = f.id /\ (f.id = 1 \/ boots > 0)
      OBVIOUS
    <3>1. delivered[n][k] <= f.id /\ delivered[n][k] \in Nat
      BY <2>1, <2>2 DEF DirInv, TakenInv, TakenOK
    <3>2. ASSUME boots = 0, delivered[n][k] = f.id, f.id # 1 PROVE FALSE
      <4>1. Recognised(f, delivered[n], rx[n], recvSeq[n])
        BY <2>1, <3>2 DEF DirInv, OnceInv, OnceOK
      <4>2. f.id > 1
        BY <2>1, <2>2, <3>2
      <4>3. f.seq = recvSeq[n]
        BY <3>2, <4>1, <4>2 DEF Recognised
      <4>4. f.first => f.id = 1
        BY <4>1 DEF Recognised
      <4>5. BaseSeq(n, f) = recvSeq[n]
        BY <3>2, <4>4 DEF BaseSeq
      <4> QED BY <2>2, <4>3, <4>5
    <3> QED BY <2>1, <3>1, <3>2
  <2> HIDE DEF f
  <2>6. CASE rx' = [rx EXCEPT ![n] = f.id] /\ UNCHANGED rejected
    BY <1>1, <2>2, <2>4, <2>5, <2>6 DEF Promise!Arrive
  <2>7. CASE rejected' = [rejected EXCEPT ![n] = @ \cup {f.id}] /\ UNCHANGED rx
    BY <2>2, <2>4, <2>7 DEF Promise!Refuse
  <2> QED BY <1>3, <2>6, <2>7 DEF ReceiveNew
<1> QED BY <1>2, <1>3 DEF Receive

LEMMA OnProtoChannel == ASSUME NEW n \in Node, OnProto(n) PROVE Promise!Deliver(n)
BY DEF OnProto, Promise!Deliver

LEMMA RebootChannel ==
    ASSUME TypeOK, NEW n \in Node, WireInv(Peer(n)), ResultInv(n), Reboot(n)
    PROVE  Promise!Reboot(n)
<1>1. /\ boots' = boots + 1 /\ rx' = [rx EXCEPT ![n] = 0]
      /\ UNCHANGED <<sent, delivered, rejected, wrapped>>
  BY DEF Reboot
<1>2. boots' > 0
  BY <1>1, SMTT(60) DEF TypeOK
<1>3. \/ UNCHANGED result
      \/ \E i \in 1 .. sent[n] :
            result[n][i] = "none" /\ result' = [result EXCEPT ![n][i] = "failed"]
  <2>1. CASE wr[n].pc = "idle"
    BY <2>1 DEF Reboot
  <2>2. CASE wr[n].pc # "idle"
    <3>1. wr[n].frame.id = sent[n] /\ sent[n] > 0 /\ sent[n] \in Nat
      BY <2>2, PeerOfPeer DEF WireInv, WireOK, TypeOK
    <3>2. result[n][sent[n]] = "none" /\ result' = [result EXCEPT ![n][sent[n]] = "failed"]
      BY <2>2, <3>1 DEF ResultInv, Reboot
    <3>3. sent[n] \in 1 .. sent[n]
      BY <3>1
    <3> QED BY <3>2, <3>3
  <2> QED BY <2>1, <2>2
<1> QED BY <1>1, <1>2, <1>3 DEF Promise!Reboot

\* The other steps are none of the tasks' concern.
LEMMA OtherChannel ==
    ASSUME NEW n \in Node,
           \/ CheckAckTimer(n) \/ Transmit(n) \/ AckTimerExpires(n) \/ FreeRecvProto(n)
           \/ Lose(n) \/ Corrupt(n) \/ Establish(n) \/ Confirm(n)
    PROVE  UNCHANGED seen
BY DEF CheckAckTimer, Transmit, AckTimerExpires, FreeRecvProto, Lose, Corrupt, Establish,
       Confirm, histVars, nodeVars, seen

LEMMA NextChannel ==
    TypeOK /\ OrderInv /\ AcksInv /\ [Next]_vars => [Promise!Next]_Promise!vars
<1> SUFFICES ASSUME TypeOK, OrderInv, AcksInv, [Next]_vars
             PROVE  Promise!Next \/ UNCHANGED seen
  BY StutterChannel
<1>1. CASE UNCHANGED vars
  BY <1>1 DEF vars, nodeVars, histVars, seen
<1>2. CASE Next
  <2>1. PICK n \in Node :
            \/ Encode(n) \/ EncodeFails(n) \/ WriteFails(n)
            \/ Sender(n) \/ Receive(n) \/ OnProto(n) \/ AckTimerExpires(n) \/ Idle(n)
            \/ FreeRecvProto(n) \/ Environment(n)
    BY <1>2 DEF Next
  <2>2. DirInv(n) /\ WireInv(Peer(n)) /\ ResultInv(n) /\ AckInv(n)
    BY PeerType DEF OrderInv, AcksInv, DirInv
  <2>3. \/ Promise!Send(n) \/ Promise!Wear(n) \/ Promise!Return(n) \/ Promise!Arrive(n)
        \/ Promise!Refuse(n) \/ Promise!Deliver(n) \/ Promise!Reboot(n) \/ UNCHANGED seen
    BY <2>1, <2>2, EncodeChannel, EncodeFailsChannel, IdleChannel, SenderChannel,
       ReceiveChannel,
       OnProtoChannel, RebootChannel, OtherChannel DEF Sender, Environment
  <2> QED BY <2>3 DEF Promise!Next
<1> QED BY <1>1, <1>2

\* The transport implements Channel: its safety part, for every value of the
\* constants.
THEOREM TransportIsChannel == Spec => ImplementsChannel
<1>1. Init => OrderInv /\ AcksInv /\ Promise!Init
  BY InitOrder, InitAcks, InitChannel
<1>2. TypeOK /\ TypeOK' /\ OrderInv /\ [Next]_vars => OrderInv'
  BY NextOrder
<1>3. TypeOK /\ TypeOK' /\ OrderInv /\ AcksInv /\ [Next]_vars => AcksInv'
  BY NextAcks
<1>4. TypeOK /\ OrderInv /\ AcksInv /\ [Next]_vars => [Promise!Next]_Promise!vars
  BY NextChannel
<1> QED BY <1>1, <1>2, <1>3, <1>4, TypeCorrect, PTL
           DEF Spec, ImplementsChannel, Promise!Spec
==============================================================================
