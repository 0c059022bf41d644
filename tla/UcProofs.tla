------------------------------- MODULE UcProofs -------------------------------
(***************************************************************************)
(* Theorems about the UC transport, for any number of messages, faults,    *)
(* reboots and sessions, any sequence number width and any pool size.      *)
(* FaultsSurvived is about one-way traffic and timely timers.              *)
(***************************************************************************)
EXTENDS Uc, TLAPS, SequenceTheorems

USE NodeAssumption, CodeConstants, Bounds

LEMMA PeerType == \A n \in Node : Peer(n) \in Node
BY DEF Peer, Node

\* The increment of send_seq_num stays in 1 .. MaxSeq.
LEMMA NextSeqType == \A s \in Seqs : NextSeq(s) \in Seqs /\ NextSeq(s) # 0
BY DEF NextSeq, Seqs

LEMMA PureAckType == \A s, a \in Seqs : PureAck(s, a) \in Frame
BY DEF PureAck, Frame, Plain

LEMMA IdleWrType == IdleWr \in Wr
BY PureAckType DEF IdleWr, Wr, Seqs

LEMMA EncodedFrameType ==
    ASSUME TypeOK, NEW n \in Node, NEW kind \in SendKinds
    PROVE  EncodedFrame(n, kind) \in Frame
<1>1. /\ sendSeq[n] \in Seqs /\ recvSeq[n] \in Seqs /\ sentFirst[n] \in BOOLEAN
      /\ sess[n] \in Session /\ sent[n] \in Nat
  BY DEF TypeOK
<1> QED BY <1>1, NextSeqType DEF EncodedFrame, Frame, Plain, Session

LEMMA TakeCryptoSeqType ==
    ASSUME sess \in [Node -> Session], NEW n \in Node, NEW kind,
           TakeCryptoSeq(n, kind)
    PROVE  sess' \in [Node -> Session]
BY DEF TakeCryptoSeq, Session

LEMMA BumpSeqType ==
    ASSUME sendSeq \in [Node -> Seqs], wrapped \in [Node -> BOOLEAN],
           NEW n \in Node, BumpSeq(n)
    PROVE  sendSeq' \in [Node -> Seqs] /\ wrapped' \in [Node -> BOOLEAN]
BY NextSeqType DEF BumpSeq

LEMMA FaultType ==
    ASSUME faults \in 0 .. MaxFaults, Fault PROVE faults' \in 0 .. MaxFaults
BY DEF Fault

\* The results of the sends of every node, which TypeOK states by node.
ResultType(r) ==
    /\ r = [n \in Node |-> r[n]]
    /\ \A n \in Node : r[n] \in [1 .. MaxMsgs[n] -> Results]

LEMMA SetResultType ==
    ASSUME NEW r, ResultType(r), NEW n \in Node, NEW i, NEW o \in Results
    PROVE  ResultType([r EXCEPT ![n][i] = o])
BY DEF ResultType

LEMMA FinishType ==
    ASSUME wr \in [Node -> Wr], ResultType(result),
           NEW n \in Node, NEW o \in Results, Finish(n, o)
    PROVE  wr' \in [Node -> Wr] /\ ResultType(result')
<1>1. wr' \in [Node -> Wr]
  BY IdleWrType DEF Finish
<1> QED BY <1>1, SetResultType DEF Finish

LEMMA ConsumeType ==
    ASSUME link \in [Node -> Seq(Frame)], NEW n \in Node, link[n] # << >>, Consume(n)
    PROVE  link' \in [Node -> Seq(Frame)]
BY DEF Consume

LEMMA HeadType ==
    ASSUME link \in [Node -> Seq(Frame)], NEW n \in Node, link[n] # << >>
    PROVE  Head(link[n]) \in Frame
OBVIOUS

-----------------------------------------------------------------------------
(* Type correctness of each action.                                        *)

LEMMA InitType == Init => TypeOK
BY IdleWrType DEF Init, TypeOK, Seqs, NoSession, Session, Results

LEMMA EncodeType ==
    ASSUME TypeOK, NEW n \in Node, Encode(n) PROVE TypeOK'
<1> PICK kind \in SendKinds, hold \in {0, 1} :
        /\ wr' = [wr EXCEPT ![n] = [pc |-> "encoded", retry |-> 0, hold |-> hold,
                                    stop |-> FALSE, frame |-> EncodedFrame(n, kind)]]
        /\ TakeCryptoSeq(n, kind)
  BY DEF Encode
<1>1. wr' \in [Node -> Wr]
  <2>1. EncodedFrame(n, kind) \in Frame
    BY EncodedFrameType
  <2>2. wr \in [Node -> Wr]
    BY DEF TypeOK
  <2> QED BY <2>1, <2>2 DEF Wr
<1>2. sess' \in [Node -> Session]
  BY TakeCryptoSeqType DEF TypeOK
<1>3. sendSeq' \in [Node -> Seqs] /\ wrapped' \in [Node -> BOOLEAN]
  BY BumpSeqType DEF TypeOK, Encode
<1>4. sent' \in [Node -> Nat] /\ \A k \in Node : sent'[k] <= MaxMsgs[k]
  BY SMTT(60) DEF TypeOK, Encode
<1>5. sentFirst' \in [Node -> BOOLEAN]
  BY DEF TypeOK, Encode
<1>6. UNCHANGED <<recvSeq, events, ackTimer, rx, held, rdStale, link, result,
                  delivered, rejected, faults, boots, sessions>>
  BY DEF Encode
<1> QED BY <1>1, <1>2, <1>3, <1>4, <1>5, <1>6 DEF TypeOK

LEMMA EncodeFailsType ==
    ASSUME TypeOK, NEW n \in Node, EncodeFails(n) PROVE TypeOK'
<1>1. sess' \in [Node -> Session]
  BY TakeCryptoSeqType DEF TypeOK, EncodeFails
<1>2. faults' \in 0 .. MaxFaults
  BY FaultType DEF TypeOK, EncodeFails
<1>3. sendSeq' \in [Node -> Seqs] /\ wrapped' \in [Node -> BOOLEAN]
  BY BumpSeqType DEF TypeOK, EncodeFails
<1>4. ResultType(result')
  BY SetResultType DEF TypeOK, EncodeFails, ResultType, Results
<1>5. sent' \in [Node -> Nat] /\ \A k \in Node : sent'[k] <= MaxMsgs[k]
  BY SMTT(60) DEF TypeOK, EncodeFails
<1>6. sentFirst' \in [Node -> BOOLEAN]
  BY DEF TypeOK, EncodeFails
<1>7. UNCHANGED <<recvSeq, events, ackTimer, wr, rx, held, rdStale, link,
                  delivered, rejected, boots, sessions>>
  BY DEF EncodeFails
<1> QED BY <1>1, <1>2, <1>3, <1>4, <1>5, <1>6, <1>7 DEF TypeOK, ResultType

LEMMA CheckAckTimerType ==
    ASSUME TypeOK, NEW n \in Node, CheckAckTimer(n) PROVE TypeOK'
<1>1. PICK b \in BOOLEAN : wr' = [wr EXCEPT ![n].pc = "write", ![n].stop = b]
  BY DEF CheckAckTimer
<1>2. wr \in [Node -> Wr]
  BY DEF TypeOK
<1>3. wr' \in [Node -> Wr]
  BY <1>1, <1>2, ZenonT(60) DEF Wr
<1> QED BY <1>3 DEF TypeOK, CheckAckTimer, histVars

LEMMA TransmitType ==
    ASSUME TypeOK, NEW n \in Node, Transmit(n) PROVE TypeOK'
<1>1. wr \in [Node -> Wr] /\ link \in [Node -> Seq(Frame)]
  BY DEF TypeOK
<1>2. wr' \in [Node -> Wr]
  BY <1>1, ZenonT(60) DEF Transmit, Wr
<1>3. wr[n].frame \in Frame
  BY <1>1 DEF Wr
<1>4. link' \in [Node -> Seq(Frame)]
  BY <1>1, <1>3, PeerType DEF Transmit
<1> QED BY <1>2, <1>4 DEF TypeOK, Transmit, histVars

LEMMA WriteFailsType ==
    ASSUME TypeOK, NEW n \in Node, WriteFails(n) PROVE TypeOK'
<1>1. wr' \in [Node -> Wr] /\ ResultType(result')
  BY FinishType DEF TypeOK, WriteFails, ResultType, Results
<1>2. faults' \in 0 .. MaxFaults
  BY FaultType DEF TypeOK, WriteFails
<1> QED BY <1>1, <1>2 DEF TypeOK, WriteFails, ResultType

LEMMA AckReceivedType ==
    ASSUME TypeOK, NEW n \in Node, AckReceived(n) PROVE TypeOK'
<1>1. wr' \in [Node -> Wr] /\ ResultType(result')
  BY FinishType DEF TypeOK, AckReceived, ResultType, Results
<1> QED BY <1>1 DEF TypeOK, AckReceived, ResultType

LEMMA RetransmitTimeoutType ==
    ASSUME TypeOK, NEW n \in Node, RetransmitTimeout(n) PROVE TypeOK'
<1>1. wr \in [Node -> Wr] /\ ResultType(result)
  BY DEF TypeOK, ResultType
<1>2. wr' \in [Node -> Wr] /\ ResultType(result')
  <2>1. CASE Finish(n, "max_retransmits")
    BY <1>1, <2>1, FinishType DEF Results
  <2>2. CASE /\ wr[n].retry + 1 < RetransmitMax
             /\ wr' = [wr EXCEPT ![n].pc = "write", ![n].retry = @ + 1]
             /\ UNCHANGED result
    BY <1>1, <2>2 DEF Wr
  <2> QED BY <2>1, <2>2 DEF RetransmitTimeout
<1> QED BY <1>2 DEF TypeOK, RetransmitTimeout, ResultType

LEMMA AckTimerExpiresType ==
    ASSUME TypeOK, NEW n \in Node, AckTimerExpires(n) PROVE TypeOK'
BY DEF TypeOK, AckTimerExpires, histVars

LEMMA IdleType ==
    ASSUME TypeOK, NEW n \in Node, Idle(n) PROVE TypeOK'
<1>1. PureAck(NextSeq(sendSeq[n]), recvSeq[n]) \in Frame
  BY NextSeqType, PureAckType DEF TypeOK
<1>2. link' \in [Node -> Seq(Frame)]
  BY <1>1, PeerType DEF TypeOK, Idle
<1>3. sendSeq' \in [Node -> Seqs] /\ wrapped' \in [Node -> BOOLEAN]
  BY BumpSeqType DEF TypeOK, Idle
<1> QED BY <1>2, <1>3 DEF TypeOK, Idle

LEMMA ReceiveType ==
    ASSUME TypeOK, NEW n \in Node, Receive(n) PROVE TypeOK'
<1> DEFINE f == Head(link[n])
<1>1. link' \in [Node -> Seq(Frame)] /\ f \in Frame
  BY ConsumeType, HeadType DEF TypeOK, Receive
<1>2. f.seq \in Seqs /\ f.id \in Nat /\ f.imm \in BOOLEAN /\ f.enc \in Nat \X Nat
  BY <1>1 DEF Frame
<1> HIDE DEF f
<1>3. sess \in [Node -> Session] /\ events \in [Node -> SUBSET {"ACK", "ACK_TIMER"}]
  BY DEF TypeOK
<1>4. NoteCryptoSeq(n, f) => sess' \in [Node -> Session]
  BY <1>2, <1>3 DEF NoteCryptoSeq, Session
<1>5. AckEvents(n, f) \in SUBSET {"ACK", "ACK_TIMER"}
  BY <1>3 DEF AckEvents
<1>6. CASE ReceiveGlued(n)
  BY <1>1, <1>6 DEF TypeOK, ReceiveGlued, histVars
<1>7. CASE ReceiveUnreadable(n, f)
  BY <1>1, <1>5, <1>7 DEF TypeOK, ReceiveUnreadable, histVars
<1>8. CASE ReceiveReplay(n, f)
  BY <1>1, <1>2, <1>5, <1>8 DEF TypeOK, ReceiveReplay, histVars
<1>9. CASE ReceiveNew(n, f)
  <2>1. faults' \in 0 .. MaxFaults
    BY <1>9, FaultType DEF TypeOK, ReceiveNew
  <2>2. sess' \in [Node -> Session]
    BY <1>4, <1>9 DEF ReceiveNew
  <2>3. events' \in [Node -> SUBSET {"ACK", "ACK_TIMER"}]
    BY <1>3, <1>5, <1>9 DEF ReceiveNew
  <2>4. recvSeq' \in [Node -> Seqs] /\ ackTimer' \in [Node -> BOOLEAN]
    BY <1>2, <1>9 DEF TypeOK, ReceiveNew
  <2>5. rx' \in [Node -> Nat] /\ rdStale' \in [Node -> BOOLEAN]
    BY <1>2, <1>9 DEF TypeOK, ReceiveNew
  <2>7. rejected' \in [Node -> SUBSET Nat]
    <3>1. rejected \in [Node -> SUBSET Nat]
      BY DEF TypeOK
    <3>2. \/ rejected' = rejected
          \/ rejected' = [rejected EXCEPT ![n] = @ \cup {f.id}]
      BY <1>9 DEF ReceiveNew
    <3> QED BY <1>2, <3>1, <3>2
  <2>6. UNCHANGED <<sendSeq, sentFirst, wr, held, sent, result, delivered, wrapped,
                    boots, sessions>>
    BY <1>9 DEF ReceiveNew
  <2> QED BY <1>1, <2>1, <2>2, <2>3, <2>4, <2>5, <2>6, <2>7 DEF TypeOK
<1>10. CASE ReceiveOther(n, f)
  <2>1. sess' \in [Node -> Session]
    BY <1>4, <1>10 DEF ReceiveOther
  <2>2. events' \in [Node -> SUBSET {"ACK", "ACK_TIMER"}]
    BY <1>3, <1>5, <1>10 DEF ReceiveOther
  <2>3. recvSeq' \in [Node -> Seqs]
    BY <1>10 DEF TypeOK, ReceiveOther, BaseSeq, Seqs
  <2> QED BY <1>1, <1>10, <2>1, <2>2, <2>3 DEF TypeOK, ReceiveOther, histVars
<1> QED BY <1>6, <1>7, <1>8, <1>9, <1>10 DEF Receive, f

LEMMA OnProtoType ==
    ASSUME TypeOK, NEW n \in Node, OnProto(n) PROVE TypeOK'
<1>1. held' \in [Node -> 0 .. PoolSize] /\ rx' \in [Node -> Nat]
  BY SMTT(60) DEF TypeOK, OnProto
<1>2. delivered' \in [Node -> Seq(Nat)]
  BY DEF TypeOK, OnProto
<1> QED BY <1>1, <1>2 DEF TypeOK, OnProto

LEMMA FreeRecvProtoType ==
    ASSUME TypeOK, NEW n \in Node, FreeRecvProto(n) PROVE TypeOK'
<1>1. wr[n].hold \in {0, 1}
  BY DEF TypeOK, Wr
<1>2. held' \in [Node -> 0 .. PoolSize]
  BY <1>1, SMTT(60) DEF TypeOK, FreeRecvProto
<1> QED BY <1>2 DEF TypeOK, FreeRecvProto, histVars

LEMMA LoseType ==
    ASSUME TypeOK, NEW n \in Node, Lose(n) PROVE TypeOK'
<1>1. link' \in [Node -> Seq(Frame)] /\ faults' \in 0 .. MaxFaults
  BY ConsumeType, FaultType DEF TypeOK, Lose
<1> QED BY <1>1 DEF TypeOK, Lose, nodeVars

LEMMA CorruptType ==
    ASSUME TypeOK, NEW n \in Node, Corrupt(n) PROVE TypeOK'
<1>1. link' \in [Node -> Seq(Frame)] /\ faults' \in 0 .. MaxFaults
  BY ConsumeType, FaultType DEF TypeOK, Corrupt
<1>2. rdStale' \in [Node -> BOOLEAN]
  BY DEF TypeOK, Corrupt
<1> QED BY <1>1, <1>2 DEF TypeOK, Corrupt

LEMMA EstablishType ==
    ASSUME TypeOK, NEW n \in Node, Establish(n) PROVE TypeOK'
<1>1. sess \in [Node -> Session]
  BY DEF TypeOK
<1>2. sess' \in [Node -> Session]
  BY <1>1 DEF Establish, Session
<1> QED BY <1>2 DEF TypeOK, Establish, histVars

LEMMA ConfirmType ==
    ASSUME TypeOK, NEW n \in Node, Confirm(n) PROVE TypeOK'
<1>1. sess \in [Node -> Session] /\ sessions \in 0 .. MaxSessions
  BY DEF TypeOK
<1>2. sess[n].last \in Nat
  BY <1>1 DEF Session
<1>3. sess' \in [Node -> Session] /\ sessions' \in 0 .. MaxSessions
  <2>1. CASE /\ sessions < MaxSessions
             /\ sessions' = sessions + 1
             /\ sess' = [sess EXCEPT ![n] = [key |-> sessions + 1,
                                             last |-> sessions + 1,
                                             send |-> 0, recv |-> 0]]
    BY <1>1, <2>1 DEF Session
  <2>2. CASE /\ \E k \in sess[n].last + 1 .. sessions :
                   sess' = [sess EXCEPT ![n] = [key |-> k, last |-> k,
                                                send |-> 0, recv |-> 0]]
             /\ UNCHANGED sessions
    BY <1>1, <1>2, <2>2 DEF Session
  <2> QED BY <2>1, <2>2 DEF Confirm
<1> QED BY <1>3 DEF TypeOK, Confirm

LEMMA RebootType ==
    ASSUME TypeOK, NEW n \in Node, Reboot(n) PROVE TypeOK'
<1>1. ResultType(result')
  BY SetResultType DEF TypeOK, Reboot, ResultType, Results
<1>2. sess' \in [Node -> Session]
  <2>1. sess \in [Node -> Session]
    BY DEF TypeOK
  <2>2. [NoSession EXCEPT !.last = sess[n].last] \in Session
    BY <2>1 DEF NoSession, Session
  <2> QED BY <2>1, <2>2 DEF Reboot
<1>3. link' \in [Node -> Seq(Frame)]
  <2>1. PICK k \in 0 .. Len(link[n]) :
            link' = [link EXCEPT ![n] = SubSeq(link[n], k + 1, Len(link[n]))]
    BY DEF Reboot
  <2>2. SubSeq(link[n], k + 1, Len(link[n])) \in Seq(Frame)
    BY SubSeqProperties, SMTT(60) DEF TypeOK
  <2> QED BY <2>1, <2>2 DEF TypeOK
<1>4. wr' \in [Node -> Wr] /\ held' \in [Node -> 0 .. PoolSize]
  <2>1. wr \in [Node -> Wr] /\ held \in [Node -> 0 .. PoolSize]
    BY DEF TypeOK
  <2>2. wr' = [wr EXCEPT ![n] = IdleWr] /\ held' = [held EXCEPT ![n] = 0]
    BY DEF Reboot
  <2>3. 0 \in 0 .. PoolSize
    BY DEF TypeOK
  <2> QED BY <2>1, <2>2, <2>3, IdleWrType
<1>5. 0 \in Seqs
  BY DEF Seqs
<1>10. /\ sendSeq' \in [Node -> Seqs] /\ recvSeq' \in [Node -> Seqs]
       /\ rx' \in [Node -> Nat]
  BY <1>5 DEF TypeOK, Reboot
<1>6. /\ sentFirst' \in [Node -> BOOLEAN] /\ ackTimer' \in [Node -> BOOLEAN]
      /\ rdStale' \in [Node -> BOOLEAN]
  BY DEF TypeOK, Reboot
<1>9. events' \in [Node -> SUBSET {"ACK", "ACK_TIMER"}]
  BY DEF TypeOK, Reboot
<1>7. boots' \in 0 .. MaxReboots
  <2>1. boots \in 0 .. MaxReboots
    BY DEF TypeOK
  <2>2. boots < MaxReboots /\ boots' = boots + 1
    BY DEF Reboot
  <2> QED BY <2>1, <2>2, Bounds DEF Bounds
<1>8. UNCHANGED <<sent, delivered, rejected, wrapped, faults, sessions>>
  BY DEF Reboot
<1> QED BY <1>1, <1>2, <1>3, <1>4, <1>6, <1>7, <1>8, <1>9, <1>10
       DEF TypeOK, ResultType

LEMMA NextType == TypeOK /\ [Next]_vars => TypeOK'
<1> SUFFICES ASSUME TypeOK, [Next]_vars PROVE TypeOK'
  OBVIOUS
<1>1. CASE UNCHANGED vars
  BY <1>1 DEF TypeOK, vars, nodeVars, histVars
<1>2. CASE Next
  <2>1. PICK n \in Node :
            \/ Encode(n) \/ EncodeFails(n) \/ WriteFails(n)
            \/ Sender(n) \/ Receive(n) \/ OnProto(n) \/ AckTimerExpires(n) \/ Idle(n)
            \/ FreeRecvProto(n) \/ Environment(n)
    BY <1>2 DEF Next
  <2> QED
    BY <2>1, EncodeType, EncodeFailsType, WriteFailsType, CheckAckTimerType,
       TransmitType, AckReceivedType, RetransmitTimeoutType, ReceiveType, OnProtoType,
       AckTimerExpiresType, IdleType, FreeRecvProtoType, LoseType, CorruptType,
       EstablishType, ConfirmType, RebootType DEF Sender, Environment
<1> QED BY <1>1, <1>2

\* Type correctness: among others, the receive pool is never overdrawn and a send
\* makes at most UC_RETRANSMIT_MAX_COUNT attempts.
THEOREM TypeCorrect == Spec => []TypeOK
<1>1. Init => TypeOK
  BY InitType
<1>2. TypeOK /\ [Next]_vars => TypeOK'
  BY NextType
<1> QED BY <1>1, <1>2, PTL DEF Spec

-----------------------------------------------------------------------------
(***************************************************************************)
(* Delivery order.  OrderedOnce speaks of what was delivered only; it is   *)
(* preserved because of what is still on the wire and in the send that     *)
(* holds wr_mutex.  For the direction towards n:                           *)
(*   - WireInv: frames are on the wire in the order of their numbers, none *)
(*     newer than the last message sent, and all copies of a message have  *)
(*     the sequence number of the send in progress;                        *)
(*   - TakenInv: what n took is in order and not newer than what is still  *)
(*     to come;                                                            *)
(*   - OnceInv: unless an MCU rebooted, a copy still to come of a message  *)
(*     that n took has the number that n remembers (the first one apart).  *)
(***************************************************************************)

\* lk: the frames to n; w and s: the peer's send in progress and its last message.
WireOK(lk, w, s) ==
    /\ \A i \in 1 .. Len(lk) : lk[i].id <= s
    /\ \A i, j \in 1 .. Len(lk) :
        i < j /\ lk[i].id # 0 /\ lk[j].id # 0 =>
            /\ lk[i].id <= lk[j].id
            /\ lk[i].id = lk[j].id => lk[i].seq = lk[j].seq
    /\ w.pc # "idle" =>
        /\ w.frame.id = s
        /\ s > 0
        /\ \A i \in 1 .. Len(lk) : lk[i].id = s => lk[i].seq = w.frame.seq

\* d and r: what n delivered, and the message in _uc_on_proto.
TakenOK(lk, d, r, s) ==
    /\ \A i \in 1 .. Len(d) :
        /\ d[i] > 0
        /\ d[i] <= s
        /\ r # 0 => d[i] <= r
    /\ \A i, j \in 1 .. Len(d) : i < j => d[i] <= d[j]
    /\ \A i \in 1 .. Len(d), k \in 1 .. Len(lk) : lk[k].id # 0 => d[i] <= lk[k].id
    /\ r <= s
    /\ \A k \in 1 .. Len(lk) : lk[k].id # 0 => r <= lk[k].id

\* q: recv_seq_num of n.  A copy f of what n took, the first message apart, has it.
Recognised(f, d, r, q) ==
    /\ f.first => f.id = 1
    /\ \A i \in 1 .. Len(d) : d[i] = f.id /\ f.id > 1 => f.seq = q
    /\ r = f.id /\ f.id > 1 => f.seq = q

\* sf: sent_first_msg of the peer.
OnceOK(lk, d, r, q, w, s, sf) ==
    /\ \A i, j \in 1 .. Len(d) : i < j /\ d[i] = d[j] => d[i] = 1
    /\ \A i \in 1 .. Len(d) : d[i] = r => r = 1
    /\ \A k \in 1 .. Len(lk) : Recognised(lk[k], d, r, q)
    /\ w.pc # "idle" => Recognised(w.frame, d, r, q)
    /\ s > 0 => sf

WireInv(n) == WireOK(link[n], wr[Peer(n)], sent[Peer(n)])
TakenInv(n) == TakenOK(link[n], delivered[n], rx[n], sent[Peer(n)])
OnceInv(n) ==
    boots = 0 => OnceOK(link[n], delivered[n], rx[n], recvSeq[n],
                        wr[Peer(n)], sent[Peer(n)], sentFirst[Peer(n)])

OrderInv == \A n \in Node : WireInv(n) /\ TakenInv(n) /\ OnceInv(n)

\* The oldest k frames leave the wire: read, lost, damaged or gone with a reboot.
LEMMA DropFrames ==
    ASSUME NEW lk \in Seq(Frame), NEW lk2 \in Seq(Frame), NEW k \in 0 .. Len(lk),
           Len(lk2) = Len(lk) - k,
           \A i \in 1 .. Len(lk2) : lk2[i] = lk[i + k]
    PROVE  /\ \A w, s : WireOK(lk, w, s) => WireOK(lk2, w, s)
           /\ \A d, r, s : TakenOK(lk, d, r, s) => TakenOK(lk2, d, r, s)
           /\ \A d, r, q, w, s, sf : OnceOK(lk, d, r, q, w, s, sf)
                    => OnceOK(lk2, d, r, q, w, s, sf)
<1>1. Len(lk) \in Nat /\ Len(lk2) \in Nat
  OBVIOUS
<1>2. \A i \in 1 .. Len(lk2) : i + k \in 1 .. Len(lk)
  BY <1>1
<1>3. ASSUME NEW w, NEW s, WireOK(lk, w, s) PROVE WireOK(lk2, w, s)
  <2>1. \A i \in 1 .. Len(lk2) : lk2[i].id <= s
    BY <1>2, <1>3 DEF WireOK
  <2>2. \A i, j \in 1 .. Len(lk2) :
            i < j /\ lk2[i].id # 0 /\ lk2[j].id # 0 =>
                /\ lk2[i].id <= lk2[j].id
                /\ lk2[i].id = lk2[j].id => lk2[i].seq = lk2[j].seq
    <3> SUFFICES ASSUME NEW i \in 1 .. Len(lk2), NEW j \in 1 .. Len(lk2), i < j,
                        lk2[i].id # 0, lk2[j].id # 0
                 PROVE  /\ lk2[i].id <= lk2[j].id
                        /\ lk2[i].id = lk2[j].id => lk2[i].seq = lk2[j].seq
      OBVIOUS
    <3>1. i + k < j + k
      OBVIOUS
    <3> QED BY <1>2, <1>3, <3>1, ZenonT(60) DEF WireOK
  <2>3. w.pc # "idle" =>
            /\ w.frame.id = s
            /\ s > 0
            /\ \A i \in 1 .. Len(lk2) : lk2[i].id = s => lk2[i].seq = w.frame.seq
    BY <1>2, <1>3 DEF WireOK
  <2> QED BY <2>1, <2>2, <2>3 DEF WireOK
<1>4. ASSUME NEW d, NEW r, NEW s, TakenOK(lk, d, r, s) PROVE TakenOK(lk2, d, r, s)
  BY <1>1, <1>2, <1>4 DEF TakenOK
<1>5. ASSUME NEW d, NEW r, NEW q, NEW w, NEW s, NEW sf, OnceOK(lk, d, r, q, w, s, sf)
      PROVE  OnceOK(lk2, d, r, q, w, s, sf)
  BY <1>1, <1>2, <1>5 DEF OnceOK
<1> QED BY <1>3, <1>4, <1>5

LEMMA TailFrames ==
    ASSUME NEW lk \in Seq(Frame), lk # << >>
    PROVE  /\ Tail(lk) \in Seq(Frame)
           /\ Len(Tail(lk)) = Len(lk) - 1
           /\ 1 \in 0 .. Len(lk)
           /\ Head(lk) = lk[1]
           /\ \A i \in 1 .. Len(Tail(lk)) : Tail(lk)[i] = lk[i + 1]
BY HeadTailProperties

\* A frame is appended: a copy of the message being sent, or a pure ACK.
LEMMA AppendFrame ==
    ASSUME NEW lk \in Seq(Frame), NEW f \in Frame
    PROVE  /\ Append(lk, f) \in Seq(Frame)
           /\ Len(Append(lk, f)) = Len(lk) + 1
           /\ \A i \in 1 .. Len(lk) : Append(lk, f)[i] = lk[i]
           /\ Append(lk, f)[Len(lk) + 1] = f
BY AppendProperties

LEMMA FrameAt ==
    ASSUME NEW lk \in Seq(Frame), NEW i \in 1 .. Len(lk)
    PROVE  lk[i] \in Frame /\ lk[i].id \in Nat
<1>1. lk[i] \in Frame
  OBVIOUS
<1> QED BY <1>1 DEF Frame

LEMMA AppendWire ==
    ASSUME NEW lk \in Seq(Frame), NEW w \in Wr, NEW s \in Nat, NEW f \in Frame,
           f.id = 0 \/ (w.pc # "idle" /\ f = w.frame),
           WireOK(lk, w, s)
    PROVE  WireOK(Append(lk, f), w, s)
<1> DEFINE lk2 == Append(lk, f)
<1>1. /\ Len(lk2) = Len(lk) + 1 /\ Len(lk) \in Nat
      /\ \A i \in 1 .. Len(lk) : lk2[i] = lk[i]
      /\ lk2[Len(lk) + 1] = f
  BY AppendFrame
<1>2. \A i \in 1 .. Len(lk2) : i \in 1 .. Len(lk) \/ i = Len(lk) + 1
  BY <1>1
<1> HIDE DEF lk2
<1>3. f.id = 0 \/ (f.id = s /\ s > 0 /\ f.seq = w.frame.seq)
  BY DEF WireOK
<1>4. \A i \in 1 .. Len(lk2) : lk2[i].id <= s
  BY <1>1, <1>2, <1>3 DEF WireOK
<1>5. w.pc # "idle" =>
        /\ w.frame.id = s
        /\ s > 0
        /\ \A i \in 1 .. Len(lk2) : lk2[i].id = s => lk2[i].seq = w.frame.seq
  BY <1>1, <1>2, <1>3 DEF WireOK
<1>6. \A i, j \in 1 .. Len(lk2) :
        i < j /\ lk2[i].id # 0 /\ lk2[j].id # 0 =>
            /\ lk2[i].id <= lk2[j].id
            /\ lk2[i].id = lk2[j].id => lk2[i].seq = lk2[j].seq
  <2> SUFFICES ASSUME NEW i \in 1 .. Len(lk2), NEW j \in 1 .. Len(lk2), i < j,
                      lk2[i].id # 0, lk2[j].id # 0
               PROVE  /\ lk2[i].id <= lk2[j].id
                      /\ lk2[i].id = lk2[j].id => lk2[i].seq = lk2[j].seq
    OBVIOUS
  <2>1. i \in 1 .. Len(lk)
    BY <1>1
  <2>2. CASE j \in 1 .. Len(lk)
    BY <1>1, <2>1, <2>2 DEF WireOK
  <2>3. CASE j = Len(lk) + 1
    BY <1>1, <1>3, <2>1, <2>3 DEF WireOK
  <2> QED BY <1>2, <2>2, <2>3
<1> QED BY <1>4, <1>5, <1>6 DEF WireOK, lk2

LEMMA AppendTaken ==
    ASSUME NEW lk \in Seq(Frame), NEW s \in Nat, NEW f \in Frame,
           NEW d \in Seq(Nat), NEW r \in Nat,
           f.id = 0 \/ f.id = s,
           TakenOK(lk, d, r, s)
    PROVE  TakenOK(Append(lk, f), d, r, s)
<1> DEFINE lk2 == Append(lk, f)
<1>1. /\ Len(lk2) = Len(lk) + 1 /\ Len(lk) \in Nat
      /\ \A i \in 1 .. Len(lk) : lk2[i] = lk[i]
      /\ lk2[Len(lk) + 1] = f
  BY AppendFrame
<1>2. \A i \in 1 .. Len(lk2) : i \in 1 .. Len(lk) \/ i = Len(lk) + 1
  BY <1>1
<1> HIDE DEF lk2
<1>3. TakenOK(lk2, d, r, s)
  BY <1>1, <1>2 DEF TakenOK
<1> QED BY <1>3 DEF lk2

LEMMA AppendOnce ==
    ASSUME NEW lk \in Seq(Frame), NEW f \in Frame,
           NEW d, NEW r, NEW q, NEW w, NEW s, NEW sf,
           Recognised(f, d, r, q),
           OnceOK(lk, d, r, q, w, s, sf)
    PROVE  OnceOK(Append(lk, f), d, r, q, w, s, sf)
<1> DEFINE lk2 == Append(lk, f)
<1>1. /\ Len(lk2) = Len(lk) + 1 /\ Len(lk) \in Nat
      /\ \A i \in 1 .. Len(lk) : lk2[i] = lk[i]
      /\ lk2[Len(lk) + 1] = f
  BY AppendFrame
<1>2. \A i \in 1 .. Len(lk2) : i \in 1 .. Len(lk) \/ i = Len(lk) + 1
  BY <1>1
<1> HIDE DEF lk2
<1>3. OnceOK(lk2, d, r, q, w, s, sf)
  BY <1>1, <1>2 DEF OnceOK
<1> QED BY <1>3 DEF lk2

\* A new message is taken from the wire, or counted although it does not decode.
LEMMA TakeNewTaken ==
    ASSUME NEW lk \in Seq(Frame), lk # << >>, NEW w, NEW s \in Nat,
           NEW d \in Seq(Nat), NEW r2 \in {0, Head(lk).id}, Head(lk).id # 0,
           WireOK(lk, w, s), TakenOK(lk, d, 0, s)
    PROVE  TakenOK(Tail(lk), d, r2, s)
<1>1. /\ Tail(lk) \in Seq(Frame) /\ Len(Tail(lk)) = Len(lk) - 1
      /\ 1 \in 0 .. Len(lk) /\ Head(lk) = lk[1] /\ Len(lk) \in Nat
      /\ \A i \in 1 .. Len(Tail(lk)) : Tail(lk)[i] = lk[i + 1]
  BY TailFrames
<1>2. TakenOK(Tail(lk), d, 0, s)
  BY <1>1, DropFrames
<1>3. \A k \in 1 .. Len(Tail(lk)) : Tail(lk)[k].id # 0 => Head(lk).id <= Tail(lk)[k].id
  <2> SUFFICES ASSUME NEW k \in 1 .. Len(Tail(lk)), Tail(lk)[k].id # 0
               PROVE  Head(lk).id <= Tail(lk)[k].id
    OBVIOUS
  <2>1. k + 1 \in 1 .. Len(lk) /\ 1 \in 1 .. Len(lk) /\ 1 < k + 1
    BY <1>1
  <2> QED BY <1>1, <2>1 DEF WireOK
<1>4. Head(lk).id <= s /\ \A i \in 1 .. Len(d) : d[i] <= Head(lk).id
  BY <1>1 DEF WireOK, TakenOK
<1> QED BY <1>2, <1>3, <1>4 DEF TakenOK

LEMMA TakeNewOnce ==
    ASSUME NEW lk \in Seq(Frame), lk # << >>, NEW w \in Wr, NEW s \in Nat,
           NEW d \in Seq(Nat), NEW r2 \in {0, Head(lk).id}, Head(lk).id # 0,
           NEW q, NEW sf,
           (IF Head(lk).first /\ Head(lk).seq = 1 THEN 0 ELSE q) # Head(lk).seq,
           WireOK(lk, w, s), TakenOK(lk, d, 0, s), OnceOK(lk, d, 0, q, w, s, sf)
    PROVE  OnceOK(Tail(lk), d, r2, Head(lk).seq, w, s, sf)
<1> DEFINE f == Head(lk)
           lk2 == Tail(lk)
<1>1. /\ lk2 \in Seq(Frame) /\ Len(lk2) = Len(lk) - 1
      /\ 1 \in 0 .. Len(lk) /\ f = lk[1] /\ Len(lk) \in Nat
      /\ \A i \in 1 .. Len(lk2) : lk2[i] = lk[i + 1]
  BY TailFrames
<1>2. 1 \in 1 .. Len(lk) /\ f \in Frame /\ f.id \in Nat
  BY <1>1, FrameAt
<1>3. \A i \in 1 .. Len(d) : d[i] \in Nat /\ d[i] <= f.id /\ d[i] > 0
  BY <1>1, <1>2 DEF TakenOK
<1>4. \A i \in 1 .. Len(d) : d[i] = f.id => f.id = 1
  BY <1>1, <1>2 DEF OnceOK, Recognised
<1>5. ASSUME NEW g \in Frame, g.first => g.id = 1, f.id <= g.id \/ g.id = 0,
             g.id = f.id => g.seq = f.seq
      PROVE  Recognised(g, d, r2, f.seq)
  <2>1. g.id \in Nat /\ r2 \in {0, f.id}
    BY DEF Frame
  <2> HIDE DEF f
  <2>2. \A i \in 1 .. Len(d) : d[i] = g.id /\ g.id > 1 => g.seq = f.seq
    BY <1>2, <1>3, <1>5, <2>1
  <2>3. r2 = g.id /\ g.id > 1 => g.seq = f.seq
    BY <1>2, <1>5, <2>1
  <2> QED BY <1>5, <2>2, <2>3 DEF Recognised
<1>6. \A k \in 1 .. Len(lk2) : Recognised(lk2[k], d, r2, f.seq)
  <2> SUFFICES ASSUME NEW k \in 1 .. Len(lk2) PROVE Recognised(lk2[k], d, r2, f.seq)
    OBVIOUS
  <2>1. k + 1 \in 1 .. Len(lk) /\ 1 < k + 1 /\ lk2[k] = lk[k + 1]
    BY <1>1
  <2>2. lk2[k] \in Frame
    BY <1>1, FrameAt
  <2>3. lk2[k].first => lk2[k].id = 1
    BY <2>1 DEF OnceOK, Recognised
  <2>4. /\ f.id <= lk2[k].id \/ lk2[k].id = 0
        /\ lk2[k].id = f.id => lk2[k].seq = f.seq
    BY <1>1, <1>2, <2>1 DEF WireOK
  <2> QED BY <1>5, <2>2, <2>3, <2>4
<1>7. w.pc # "idle" => Recognised(w.frame, d, r2, f.seq)
  <2> SUFFICES ASSUME w.pc # "idle" PROVE Recognised(w.frame, d, r2, f.seq)
    OBVIOUS
  <2>1. /\ w.frame.id = s /\ f.id <= s
        /\ f.id = s => f.seq = w.frame.seq
    BY <1>1, <1>2 DEF WireOK
  <2>2. w.frame.first => w.frame.id = 1
    BY DEF OnceOK, Recognised
  <2>3. w.frame \in Frame
    BY DEF Wr
  <2> QED BY <1>5, <2>1, <2>2, <2>3
<1>8. \A i \in 1 .. Len(d) : d[i] = r2 => r2 = 1
  BY <1>3, <1>4
<1> QED BY <1>6, <1>7, <1>8 DEF OnceOK

\* The message in _uc_on_proto becomes the last one delivered.
LEMMA DeliverTaken ==
    ASSUME NEW lk \in Seq(Frame), NEW s \in Nat, NEW d \in Seq(Nat), NEW r \in Nat,
           r # 0, TakenOK(lk, d, r, s)
    PROVE  TakenOK(lk, Append(d, r), 0, s)
<1> DEFINE d2 == Append(d, r)
<1>1. /\ d2 \in Seq(Nat) /\ Len(d2) = Len(d) + 1 /\ Len(d) \in Nat
      /\ \A i \in 1 .. Len(d) : d2[i] = d[i] /\ d[i] \in Nat
      /\ d2[Len(d) + 1] = r
  BY AppendProperties
<1>2. \A i \in 1 .. Len(d2) : i \in 1 .. Len(d) \/ i = Len(d) + 1
  BY <1>1
<1> HIDE DEF d2
<1>3. \A k \in 1 .. Len(lk) : lk[k].id \in Nat
  BY FrameAt
<1>4. \A i \in 1 .. Len(d2) : d2[i] > 0 /\ d2[i] <= s
  <2>1. r > 0 /\ r <= s
    BY DEF TakenOK
  <2> QED BY <1>1, <1>2, <2>1 DEF TakenOK
<1>5. \A i, j \in 1 .. Len(d2) : i < j => d2[i] <= d2[j]
  <2> SUFFICES ASSUME NEW i \in 1 .. Len(d2), NEW j \in 1 .. Len(d2), i < j
               PROVE  d2[i] <= d2[j]
    OBVIOUS
  <2>1. i \in 1 .. Len(d)
    BY <1>1
  <2>2. CASE j \in 1 .. Len(d)
    BY <1>1, <2>1, <2>2 DEF TakenOK
  <2>3. CASE j = Len(d) + 1
    BY <1>1, <2>1, <2>3 DEF TakenOK
  <2> QED BY <1>2, <2>2, <2>3
<1>6. \A i \in 1 .. Len(d2), k \in 1 .. Len(lk) : lk[k].id # 0 => d2[i] <= lk[k].id
  <2> SUFFICES ASSUME NEW i \in 1 .. Len(d2), NEW k \in 1 .. Len(lk), lk[k].id # 0
               PROVE  d2[i] <= lk[k].id
    OBVIOUS
  <2>1. CASE i \in 1 .. Len(d)
    BY <1>1, <2>1 DEF TakenOK
  <2>2. CASE i = Len(d) + 1
    BY <1>1, <2>2 DEF TakenOK
  <2> QED BY <1>2, <2>1, <2>2
<1>7. TakenOK(lk, d2, 0, s)
  BY <1>3, <1>4, <1>5, <1>6 DEF TakenOK
<1> QED BY <1>7 DEF d2

LEMMA DeliverOnce ==
    ASSUME NEW lk \in Seq(Frame), NEW s \in Nat, NEW d \in Seq(Nat), NEW r \in Nat,
           r # 0, NEW w \in Wr, NEW q, NEW sf,
           TakenOK(lk, d, r, s), OnceOK(lk, d, r, q, w, s, sf)
    PROVE  OnceOK(lk, Append(d, r), 0, q, w, s, sf)
<1> DEFINE d2 == Append(d, r)
<1>1. /\ d2 \in Seq(Nat) /\ Len(d2) = Len(d) + 1 /\ Len(d) \in Nat
      /\ \A i \in 1 .. Len(d) : d2[i] = d[i] /\ d[i] \in Nat
      /\ d2[Len(d) + 1] = r
  BY AppendProperties
<1>2. \A i \in 1 .. Len(d2) : i \in 1 .. Len(d) \/ i = Len(d) + 1
  BY <1>1
<1> HIDE DEF d2
<1>3. \A i \in 1 .. Len(d2) : d2[i] > 0
  BY <1>1, <1>2, SMTT(60) DEF TakenOK
<1>4. \A i, j \in 1 .. Len(d2) : i < j /\ d2[i] = d2[j] => d2[i] = 1
  <2> SUFFICES ASSUME NEW i \in 1 .. Len(d2), NEW j \in 1 .. Len(d2), i < j,
                      d2[i] = d2[j]
               PROVE  d2[i] = 1
    OBVIOUS
  <2>1. i \in 1 .. Len(d)
    BY <1>1
  <2>2. CASE j \in 1 .. Len(d)
    BY <1>1, <2>1, <2>2 DEF OnceOK
  <2>3. CASE j = Len(d) + 1
    BY <1>1, <2>1, <2>3 DEF OnceOK
  <2> QED BY <1>2, <2>2, <2>3
<1>5. ASSUME NEW g \in Frame, Recognised(g, d, r, q) PROVE Recognised(g, d2, 0, q)
  BY <1>1, <1>2, <1>5, SMTT(60) DEF Recognised
<1>6. \A k \in 1 .. Len(lk) : Recognised(lk[k], d2, 0, q)
  BY <1>5, FrameAt DEF OnceOK
<1>7. w.pc # "idle" => Recognised(w.frame, d2, 0, q)
  BY <1>5 DEF OnceOK, Wr
<1> QED BY <1>3, <1>4, <1>6, <1>7, SMTT(60) DEF OnceOK, d2

\* A message is handed to uc_send: it is newer than everything.
LEMMA NewMessage ==
    ASSUME NEW lk \in Seq(Frame), NEW s \in Nat, NEW d \in Seq(Nat), NEW r \in Nat,
           NEW w \in Wr, NEW w2 \in Wr, NEW q, NEW sf \in BOOLEAN,
           WireOK(lk, w, s), TakenOK(lk, d, r, s),
           \/ w2.pc = "idle"
           \/ w2.frame.id = s + 1 /\ (w2.frame.first => ~sf)
    PROVE  /\ WireOK(lk, w2, s + 1)
           /\ TakenOK(lk, d, r, s + 1)
           /\ OnceOK(lk, d, r, q, w, s, sf) => OnceOK(lk, d, r, q, w2, s + 1, TRUE)
<1>1. /\ \A k \in 1 .. Len(lk) : lk[k].id \in Nat /\ lk[k].id <= s
      /\ \A i \in 1 .. Len(d) : d[i] \in Nat /\ d[i] <= s
      /\ r <= s
  BY FrameAt DEF WireOK, TakenOK
<1>2. WireOK(lk, w2, s + 1)
  BY <1>1 DEF WireOK
<1>3. TakenOK(lk, d, r, s + 1)
  BY <1>1, SMTT(60) DEF TakenOK
<1>4. ASSUME OnceOK(lk, d, r, q, w, s, sf) PROVE OnceOK(lk, d, r, q, w2, s + 1, TRUE)
  <2>1. ASSUME w2.pc # "idle" PROVE Recognised(w2.frame, d, r, q)
    <3>1. w2.frame.id = s + 1 /\ (w2.frame.first => ~sf)
      BY <2>1
    <3>2. w2.frame.first => w2.frame.id = 1
      <4>1. s > 0 => sf
        BY <1>4 DEF OnceOK
      <4> QED BY <3>1, <4>1
    <3>3. \A i \in 1 .. Len(d) : d[i] # w2.frame.id
      BY <1>1, <3>1
    <3>4. r # w2.frame.id
      BY <1>1, <3>1
    <3> QED BY <3>2, <3>3, <3>4 DEF Recognised
  <2> QED BY <1>4, <2>1 DEF OnceOK
<1> QED BY <1>2, <1>3, <1>4

\* The send in progress goes on with the same frame, or ends.
LEMMA SameMessage ==
    ASSUME NEW w, NEW w2,
           w2.pc = "idle" \/ (w.pc # "idle" /\ w2.frame = w.frame)
    PROVE  /\ \A lk, s : WireOK(lk, w, s) => WireOK(lk, w2, s)
           /\ \A lk, d, r, q, s, sf : OnceOK(lk, d, r, q, w, s, sf)
                    => OnceOK(lk, d, r, q, w2, s, sf)
<1>1. ASSUME NEW lk, NEW s, WireOK(lk, w, s) PROVE WireOK(lk, w2, s)
  BY <1>1 DEF WireOK
<1>2. ASSUME NEW lk, NEW d, NEW r, NEW q, NEW s, NEW sf, OnceOK(lk, d, r, q, w, s, sf)
      PROVE  OnceOK(lk, d, r, q, w2, s, sf)
  BY <1>2 DEF OnceOK
<1> QED BY <1>1, <1>2

LEMMA PeerOfPeer ==
    \A n, m \in Node : /\ Peer(n) \in Node /\ Peer(n) # n /\ Peer(Peer(n)) = n
                       /\ n = m \/ Peer(n) = m
BY DEF Peer, Node

LEMMA DirectionType ==
    ASSUME TypeOK, NEW n \in Node
    PROVE  /\ link[n] \in Seq(Frame) /\ delivered[n] \in Seq(Nat) /\ rx[n] \in Nat
           /\ recvSeq[n] \in Seqs
           /\ wr[Peer(n)] \in Wr /\ wr[Peer(n)].frame \in Frame
           /\ sent[Peer(n)] \in Nat /\ sentFirst[Peer(n)] \in BOOLEAN
<1>1. Peer(n) \in Node
  BY PeerType
<1>2. wr[Peer(n)] \in Wr
  BY <1>1 DEF TypeOK
<1>3. wr[Peer(n)].frame \in Frame
  BY <1>2 DEF Wr
<1> QED BY <1>1, <1>2, <1>3 DEF TypeOK

\* What the direction towards n depends on.
Direction(n) == <<link[n], delivered[n], rx[n], recvSeq[n], wr[Peer(n)], sent[Peer(n)],
                  sentFirst[Peer(n)], boots>>

DirInv(n) == WireInv(n) /\ TakenInv(n) /\ OnceInv(n)

LEMMA SameDirection ==
    ASSUME NEW n \in Node, DirInv(n), UNCHANGED Direction(n) PROVE DirInv(n)'
BY DEF DirInv, Direction, WireInv, TakenInv, OnceInv

\* Only the wire towards n changed: its oldest k frames are gone.
LEMMA DropDirection ==
    ASSUME TypeOK, TypeOK', NEW n \in Node, DirInv(n), NEW k \in 0 .. Len(link[n]),
           Len(link'[n]) = Len(link[n]) - k,
           \A i \in 1 .. Len(link'[n]) : link'[n][i] = link[n][i + k],
           UNCHANGED <<delivered[n], rx[n], recvSeq[n], wr[Peer(n)], sent[Peer(n)],
                       sentFirst[Peer(n)], boots>>
    PROVE  DirInv(n)'
<1>1. link[n] \in Seq(Frame) /\ link'[n] \in Seq(Frame)
  BY DEF TypeOK
<1>2. WireOK(link'[n], wr[Peer(n)], sent[Peer(n)])
  BY <1>1, DropFrames DEF DirInv, WireInv
<1>3. TakenOK(link'[n], delivered[n], rx[n], sent[Peer(n)])
  BY <1>1, DropFrames DEF DirInv, TakenInv
<1>4. boots = 0 => OnceOK(link'[n], delivered[n], rx[n], recvSeq[n], wr[Peer(n)],
                          sent[Peer(n)], sentFirst[Peer(n)])
  BY <1>1, DropFrames DEF DirInv, OnceInv
<1> QED BY <1>2, <1>3, <1>4 DEF DirInv, WireInv, TakenInv, OnceInv

\* Only the peer's send in progress changed: the same frame, or none.
LEMMA SameMessageDirection ==
    ASSUME NEW n \in Node, DirInv(n),
           \/ wr'[Peer(n)].pc = "idle"
           \/ wr[Peer(n)].pc # "idle" /\ wr'[Peer(n)].frame = wr[Peer(n)].frame,
           UNCHANGED <<link[n], delivered[n], rx[n], recvSeq[n], sent[Peer(n)],
                       sentFirst[Peer(n)], boots>>
    PROVE  DirInv(n)'
<1>1. WireOK(link[n], wr'[Peer(n)], sent[Peer(n)])
  BY SameMessage DEF DirInv, WireInv
<1>2. boots = 0 => OnceOK(link[n], delivered[n], rx[n], recvSeq[n], wr'[Peer(n)],
                          sent[Peer(n)], sentFirst[Peer(n)])
  BY SameMessage DEF DirInv, OnceInv
<1> QED BY <1>1, <1>2 DEF DirInv, WireInv, TakenInv, OnceInv

\* The peer's tasks hand over a new message, which is encoded or fails.
LEMMA NewMessageDirection ==
    ASSUME TypeOK, TypeOK', NEW n \in Node, DirInv(n),
           sent'[Peer(n)] = sent[Peer(n)] + 1, sentFirst'[Peer(n)] = TRUE,
           \/ wr'[Peer(n)].pc = "idle"
           \/ /\ wr'[Peer(n)].frame.id = sent[Peer(n)] + 1
              /\ wr'[Peer(n)].frame.first => ~sentFirst[Peer(n)],
           UNCHANGED <<link[n], delivered[n], rx[n], recvSeq[n], boots>>
    PROVE  DirInv(n)'
<1>1. wr'[Peer(n)] \in Wr
  BY PeerType DEF TypeOK
<1>2. /\ WireOK(link[n], wr'[Peer(n)], sent[Peer(n)] + 1)
      /\ TakenOK(link[n], delivered[n], rx[n], sent[Peer(n)] + 1)
      /\ boots = 0 => OnceOK(link[n], delivered[n], rx[n], recvSeq[n], wr'[Peer(n)],
                             sent[Peer(n)] + 1, TRUE)
  <2> DEFINE lk == link[n]  d == delivered[n]  r == rx[n]  q == recvSeq[n]
             w == wr[Peer(n)]  w2 == wr'[Peer(n)]
             s == sent[Peer(n)]  sf == sentFirst[Peer(n)]
  <2>1. /\ lk \in Seq(Frame) /\ s \in Nat /\ d \in Seq(Nat) /\ r \in Nat
        /\ w \in Wr /\ w2 \in Wr /\ sf \in BOOLEAN
    BY <1>1, DirectionType
  <2>2. WireOK(lk, w, s) /\ TakenOK(lk, d, r, s)
    BY DEF DirInv, WireInv, TakenInv
  <2>3. boots = 0 => OnceOK(lk, d, r, q, w, s, sf)
    BY DEF DirInv, OnceInv
  <2>4. w2.pc = "idle" \/ (w2.frame.id = s + 1 /\ (w2.frame.first => ~sf))
    OBVIOUS
  <2> HIDE DEF lk, d, r, q, w, w2, s, sf
  <2>5. WireOK(lk, w2, s + 1) /\ TakenOK(lk, d, r, s + 1)
    BY <2>1, <2>2, <2>4, NewMessage
  <2>6. boots = 0 => OnceOK(lk, d, r, q, w2, s + 1, TRUE)
    BY <2>1, <2>2, <2>3, <2>4, NewMessage
  <2> QED BY <2>5, <2>6 DEF lk, d, r, q, w2, s
<1> QED BY <1>2 DEF DirInv, WireInv, TakenInv, OnceInv

\* The peer writes the frame being sent, or a pure ACK.
LEMMA AppendDirection ==
    ASSUME TypeOK, NEW n \in Node, DirInv(n), NEW f \in Frame,
           link'[n] = Append(link[n], f),
           \/ f.id = 0 /\ ~f.first
           \/ wr[Peer(n)].pc # "idle" /\ f = wr[Peer(n)].frame,
           \/ wr'[Peer(n)].pc = "idle"
           \/ wr[Peer(n)].pc # "idle" /\ wr'[Peer(n)].frame = wr[Peer(n)].frame,
           UNCHANGED <<delivered[n], rx[n], recvSeq[n], sent[Peer(n)],
                       sentFirst[Peer(n)], boots>>
    PROVE  DirInv(n)'
<1>1. WireOK(link'[n], wr[Peer(n)], sent[Peer(n)])
  BY DirectionType, AppendWire DEF DirInv, WireInv
<1>2. f.id = 0 \/ f.id = sent[Peer(n)]
  BY DEF DirInv, WireInv, WireOK
<1>3. TakenOK(link'[n], delivered[n], rx[n], sent[Peer(n)])
  BY <1>2, DirectionType, AppendTaken DEF DirInv, TakenInv
<1>4. ASSUME boots = 0
      PROVE  OnceOK(link'[n], delivered[n], rx[n], recvSeq[n], wr[Peer(n)],
                    sent[Peer(n)], sentFirst[Peer(n)])
  <2>1. OnceOK(link[n], delivered[n], rx[n], recvSeq[n], wr[Peer(n)],
               sent[Peer(n)], sentFirst[Peer(n)])
    BY <1>4 DEF DirInv, OnceInv
  <2>2. Recognised(f, delivered[n], rx[n], recvSeq[n])
    <3>1. CASE f.id = 0 /\ ~f.first
      BY <3>1 DEF Recognised
    <3>2. CASE wr[Peer(n)].pc # "idle" /\ f = wr[Peer(n)].frame
      BY <2>1, <3>2 DEF OnceOK
    <3> QED BY <3>1, <3>2
  <2> QED BY <2>1, <2>2, DirectionType, AppendOnce
<1>5. WireOK(link'[n], wr'[Peer(n)], sent[Peer(n)])
  BY <1>1, SameMessage
<1>6. boots = 0 => OnceOK(link'[n], delivered[n], rx[n], recvSeq[n], wr'[Peer(n)],
                          sent[Peer(n)], sentFirst[Peer(n)])
  BY <1>4, SameMessage
<1> QED BY <1>3, <1>5, <1>6 DEF DirInv, WireInv, TakenInv, OnceInv

-----------------------------------------------------------------------------
(* Every action keeps both directions in order.                            *)

\* m's task hands over a message.
LEMMA EncodeOrder ==
    ASSUME TypeOK, TypeOK', NEW m \in Node, NEW n \in Node, DirInv(n), Encode(m)
    PROVE  DirInv(n)'
<1>1. CASE n = m
  <2>1. Peer(n) # m /\ Peer(n) \in Node
    BY <1>1, PeerOfPeer
  <2>2. UNCHANGED Direction(n)
    BY <2>1 DEF Encode, Direction, TypeOK
  <2> QED BY <2>2, SameDirection
<1>2. CASE Peer(n) = m
  <2>1. PICK kind \in SendKinds, hold \in {0, 1} :
          wr' = [wr EXCEPT ![m] = [pc |-> "encoded", retry |-> 0, hold |-> hold,
                                   stop |-> FALSE, frame |-> EncodedFrame(m, kind)]]
    BY DEF Encode
  <2>2. wr'[m].frame = EncodedFrame(m, kind)
    BY <2>1 DEF TypeOK
  <2>3. wr'[m].frame.id = sent[m] + 1 /\ (wr'[m].frame.first => ~sentFirst[m])
    <3>1. wr'[m].frame.id = sent[m] + 1
      BY <2>2 DEF EncodedFrame
    <3>2. PICK b \in BOOLEAN : b = sentFirst[m]
      BY DEF TypeOK
    <3>3. wr'[m].frame.first = ~b
      BY <2>2, <3>2 DEF EncodedFrame
    <3> QED BY <3>1, <3>2, <3>3
  <2>4. sent'[m] = sent[m] + 1 /\ sentFirst'[m] = TRUE
    BY DEF Encode, TypeOK
  <2>5. UNCHANGED <<link[n], delivered[n], rx[n], recvSeq[n], boots>>
    BY DEF Encode
  <2> QED BY <1>2, <2>3, <2>4, <2>5, NewMessageDirection
<1> QED BY <1>1, <1>2, PeerOfPeer

LEMMA EncodeFailsOrder ==
    ASSUME TypeOK, TypeOK', NEW m \in Node, NEW n \in Node, DirInv(n), EncodeFails(m)
    PROVE  DirInv(n)'
<1>1. CASE n = m
  <2>1. Peer(n) # m /\ Peer(n) \in Node
    BY <1>1, PeerOfPeer
  <2>2. UNCHANGED Direction(n)
    BY <2>1 DEF EncodeFails, Direction, TypeOK
  <2> QED BY <2>2, SameDirection
<1>2. CASE Peer(n) = m
  <2>1. wr'[m].pc = "idle"
    BY DEF EncodeFails
  <2>2. sent'[m] = sent[m] + 1 /\ sentFirst'[m] = TRUE
    BY DEF EncodeFails, TypeOK
  <2>3. UNCHANGED <<link[n], delivered[n], rx[n], recvSeq[n], boots>>
    BY DEF EncodeFails
  <2> QED BY <1>2, <2>1, <2>2, <2>3, NewMessageDirection
<1> QED BY <1>1, <1>2, PeerOfPeer

\* The rest of uc_send but the write: the frame stays, or the send ends.
LEMMA SenderOrder ==
    ASSUME TypeOK, TypeOK', NEW m \in Node, NEW n \in Node, DirInv(n),
           CheckAckTimer(m) \/ WriteFails(m) \/ AckReceived(m) \/ RetransmitTimeout(m)
    PROVE  DirInv(n)'
<1>1. UNCHANGED <<link, delivered, rx, recvSeq, sent, sentFirst, boots>>
  BY DEF CheckAckTimer, WriteFails, AckReceived, RetransmitTimeout, histVars
<1>2. wr[m].pc # "idle"
  BY DEF CheckAckTimer, WriteFails, AckReceived, RetransmitTimeout
<1>3. wr[m] \in Wr /\ wr \in [Node -> Wr]
  BY DEF TypeOK
<1>4. wr'[m].pc = "idle" \/ wr'[m].frame = wr[m].frame
  <2>1. CASE CheckAckTimer(m)
    BY <1>3, <2>1 DEF CheckAckTimer, Wr
  <2>2. CASE WriteFails(m)
    BY <1>3, <2>2 DEF WriteFails, Finish, IdleWr
  <2>3. CASE AckReceived(m)
    BY <1>3, <2>3 DEF AckReceived, Finish, IdleWr
  <2>4. CASE RetransmitTimeout(m)
    BY <1>3, <2>4 DEF RetransmitTimeout, Finish, IdleWr, Wr
  <2> QED BY <2>1, <2>2, <2>3, <2>4
<1>5. \A p \in Node : p # m => wr'[p] = wr[p]
  BY <1>3 DEF CheckAckTimer, WriteFails, AckReceived, RetransmitTimeout, Finish
<1>6. CASE n = m
  <2>1. wr'[Peer(n)] = wr[Peer(n)]
    BY <1>5, <1>6, PeerOfPeer
  <2>2. UNCHANGED Direction(n)
    BY <1>1, <2>1 DEF Direction
  <2> QED BY <2>2, SameDirection
<1>7. CASE Peer(n) = m
  BY <1>1, <1>2, <1>4, <1>7, SameMessageDirection
<1> QED BY <1>6, <1>7, PeerOfPeer

LEMMA TransmitOrder ==
    ASSUME TypeOK, TypeOK', NEW m \in Node, NEW n \in Node, DirInv(n), Transmit(m)
    PROVE  DirInv(n)'
<1>1. UNCHANGED <<delivered, rx, recvSeq, sent, sentFirst, boots>>
  BY DEF Transmit, histVars
<1>2. wr \in [Node -> Wr] /\ wr[m] \in Wr /\ link \in [Node -> Seq(Frame)]
  BY DEF TypeOK
<1>3. wr'[m].frame = wr[m].frame /\ wr[m].pc # "idle" /\ wr[m].frame \in Frame
  BY <1>2 DEF Transmit, Wr
<1>4. \A p \in Node : /\ p # m => wr'[p] = wr[p]
                      /\ p # Peer(m) => link'[p] = link[p]
                      /\ p = Peer(m) => link'[p] = Append(link[p], wr[m].frame)
  BY <1>2 DEF Transmit
<1>5. CASE n = m
  <2>1. n # Peer(m) /\ Peer(n) # m /\ Peer(n) \in Node
    BY <1>5, PeerOfPeer
  <2>2. UNCHANGED Direction(n)
    BY <1>1, <1>4, <2>1 DEF Direction
  <2> QED BY <2>2, SameDirection
<1>6. CASE Peer(n) = m
  <2>1. n = Peer(m)
    BY <1>6, PeerOfPeer
  <2>2. link'[n] = Append(link[n], wr[m].frame)
    BY <1>4, <2>1
  <2> QED BY <1>1, <1>3, <1>6, <2>2, AppendDirection
<1> QED BY <1>5, <1>6, PeerOfPeer

LEMMA IdleOrder ==
    ASSUME TypeOK, TypeOK', NEW m \in Node, NEW n \in Node, DirInv(n), Idle(m)
    PROVE  DirInv(n)'
<1>1. UNCHANGED <<delivered, rx, recvSeq, sent, sentFirst, boots, wr>>
  BY DEF Idle
<1>2. link \in [Node -> Seq(Frame)] /\ sendSeq[m] \in Seqs /\ recvSeq[m] \in Seqs
  BY DEF TypeOK
<1> DEFINE f == PureAck(NextSeq(sendSeq[m]), recvSeq[m])
<1>3. f \in Frame /\ f.id = 0 /\ ~f.first
  <2>1. f \in Frame
    BY <1>2, NextSeqType, PureAckType
  <2> QED BY <2>1 DEF PureAck
<1>4. \A p \in Node : /\ p # Peer(m) => link'[p] = link[p]
                      /\ p = Peer(m) => link'[p] = Append(link[p], f)
  BY <1>2 DEF Idle
<1>5. wr'[m].pc = "idle"
  BY <1>1 DEF Idle
<1> HIDE DEF f
<1>6. CASE n = m
  <2>1. n # Peer(m)
    BY <1>6, PeerOfPeer
  <2>2. UNCHANGED Direction(n)
    BY <1>1, <1>4, <2>1 DEF Direction
  <2> QED BY <2>2, SameDirection
<1>7. CASE Peer(n) = m
  <2>1. n = Peer(m)
    BY <1>7, PeerOfPeer
  <2>2. link'[n] = Append(link[n], f)
    BY <1>4, <2>1
  <2> QED BY <1>1, <1>3, <1>5, <1>7, <2>2, AppendDirection
<1> QED BY <1>6, <1>7, PeerOfPeer

\* Steps that no direction depends on.
LEMMA OtherOrder ==
    ASSUME NEW m \in Node, NEW n \in Node, DirInv(n),
           AckTimerExpires(m) \/ FreeRecvProto(m) \/ Establish(m) \/ Confirm(m)
    PROVE  DirInv(n)'
<1>1. UNCHANGED <<link, delivered, rx, recvSeq, wr, sent, sentFirst, boots>>
  BY DEF AckTimerExpires, FreeRecvProto, Establish, Confirm, histVars
<1>2. UNCHANGED Direction(n)
  BY <1>1 DEF Direction
<1> QED BY <1>2, SameDirection

\* A frame leaves the wire to m and nothing else of a direction changes.
LEMMA ConsumeOrder ==
    ASSUME TypeOK, TypeOK', NEW m \in Node, NEW n \in Node, DirInv(n),
           link[m] # << >>, Consume(m),
           UNCHANGED <<delivered, rx, wr, sent, sentFirst, boots>>,
           UNCHANGED recvSeq
    PROVE  DirInv(n)'
<1>1. link \in [Node -> Seq(Frame)] /\ link[m] \in Seq(Frame)
  BY DEF TypeOK
<1>2. CASE n = m
  <2>1. link'[n] = Tail(link[n])
    BY <1>1, <1>2 DEF Consume
  <2>2. Len(link'[n]) = Len(link[n]) - 1 /\ 1 \in 0 .. Len(link[n])
    BY <1>1, <1>2, <2>1, TailFrames
  <2>3. \A i \in 1 .. Len(link'[n]) : link'[n][i] = link[n][i + 1]
    BY <1>1, <1>2, <2>1, TailFrames
  <2> QED BY <2>2, <2>3, DropDirection
<1>3. CASE n # m
  <2>1. link'[n] = link[n]
    BY <1>1, <1>3 DEF Consume
  <2>2. UNCHANGED Direction(n)
    BY <2>1 DEF Direction
  <2> QED BY <2>2, SameDirection
<1> QED BY <1>2, <1>3

LEMMA FaultOrder ==
    ASSUME TypeOK, TypeOK', NEW m \in Node, NEW n \in Node, DirInv(n),
           Lose(m) \/ Corrupt(m)
    PROVE  DirInv(n)'
<1>1. /\ link[m] # << >> /\ Consume(m)
      /\ UNCHANGED <<delivered, rx, wr, sent, sentFirst, boots>> /\ UNCHANGED recvSeq
  BY DEF Lose, Corrupt, nodeVars
<1> QED BY <1>1, ConsumeOrder

\* Before any reboot a frame marked as the first is message 1, and taking the
\* number that n already has for it means that n took it.
LEMMA BaseSeqOrder ==
    ASSUME TypeOK, NEW n \in Node, DirInv(n), link[n] # << >>, boots = 0,
           ~IsNew(n, Head(link[n]))
    PROVE  BaseSeq(n, Head(link[n])) = recvSeq[n]
<1> DEFINE f == Head(link[n])
<1>1. link[n] \in Seq(Frame)
  BY DEF TypeOK
<1>2. f = link[n][1] /\ 1 \in 1 .. Len(link[n])
  BY <1>1, TailFrames
<1>3. f.first => f.id = 1
  BY <1>2 DEF DirInv, OnceInv, OnceOK, Recognised
<1> HIDE DEF f
<1>4. ASSUME f.first, f.seq = 1 PROVE FALSE
  <2>1. BaseSeq(n, f) = 0
    BY <1>4 DEF BaseSeq
  <2>2. IsNew(n, f)
    BY <1>3, <1>4, <2>1 DEF IsNew
  <2> QED BY <2>2 DEF f
<1>5. BaseSeq(n, f) = recvSeq[n]
  BY <1>4 DEF BaseSeq
<1> QED BY <1>5 DEF f

LEMMA ReceiveNewOrder ==
    ASSUME TypeOK, TypeOK', NEW n \in Node, DirInv(n), link[n] # << >>, rx[n] = 0,
           Consume(n), ReceiveNew(n, Head(link[n]))
    PROVE  DirInv(n)'
<1> DEFINE f == Head(link[n])
           lk == link[n]  d == delivered[n]  q == recvSeq[n]
           w == wr[Peer(n)]  s == sent[Peer(n)]  sf == sentFirst[Peer(n)]
           r2 == rx'[n]
<1>1. /\ lk \in Seq(Frame) /\ lk # << >> /\ d \in Seq(Nat) /\ w \in Wr /\ s \in Nat
  BY DirectionType
<1>2. /\ link'[n] = Tail(lk) /\ recvSeq'[n] = f.seq
      /\ UNCHANGED <<delivered, wr, sent, sentFirst, boots>>
  BY DEF Consume, ReceiveNew, TypeOK
<1>3. r2 \in {0, f.id} /\ f.id # 0
  <2>1. f.id # 0
    BY DEF ReceiveNew, IsNew
  <2>2. rx' = [rx EXCEPT ![n] = f.id] \/ rx' = rx
    BY DEF ReceiveNew
  <2> QED BY <2>1, <2>2 DEF TypeOK
<1>4. (IF f.first /\ f.seq = 1 THEN 0 ELSE q) # f.seq
  BY DEF ReceiveNew, IsNew, BaseSeq
<1>5. WireOK(lk, w, s) /\ TakenOK(lk, d, 0, s)
  BY DEF DirInv, WireInv, TakenInv
<1>6. boots = 0 => OnceOK(lk, d, 0, q, w, s, sf)
  BY DEF DirInv, OnceInv
<1>7. WireOK(Tail(lk), w, s)
  <2>1. /\ Tail(lk) \in Seq(Frame) /\ Len(Tail(lk)) = Len(lk) - 1
        /\ 1 \in 0 .. Len(lk)
        /\ \A i \in 1 .. Len(Tail(lk)) : Tail(lk)[i] = lk[i + 1]
    BY <1>1, TailFrames
  <2> HIDE DEF lk, w, s
  <2> QED BY <1>1, <1>5, <2>1, DropFrames
<1>8. TakenOK(Tail(lk), d, r2, s)
  <2>1. f = Head(lk)
    OBVIOUS
  <2> HIDE DEF lk, w, s, d, f, r2
  <2> QED BY <1>1, <1>3, <1>5, <2>1, TakeNewTaken
<1>9. boots = 0 => OnceOK(Tail(lk), d, r2, f.seq, w, s, sf)
  <2>1. f = Head(lk)
    OBVIOUS
  <2> HIDE DEF lk, w, s, d, f, r2, q, sf
  <2> QED BY <1>1, <1>3, <1>4, <1>5, <1>6, <2>1, TakeNewOnce
<1> QED BY <1>2, <1>7, <1>8, <1>9 DEF DirInv, WireInv, TakenInv, OnceInv

\* recv_seq_num moves although no message is taken only after a reboot.
LEMMA ReceiveOtherOrder ==
    ASSUME TypeOK, TypeOK', NEW n \in Node, DirInv(n), link[n] # << >>,
           Consume(n), ReceiveOther(n, Head(link[n]))
    PROVE  DirInv(n)'
<1>1. link[n] \in Seq(Frame) /\ link'[n] = Tail(link[n])
  BY DEF Consume, TypeOK
<1>2. /\ UNCHANGED <<delivered, rx, wr, sent, sentFirst, boots>>
      /\ recvSeq'[n] = BaseSeq(n, Head(link[n])) /\ ~IsNew(n, Head(link[n]))
  BY DEF ReceiveOther, histVars, TypeOK
<1>3. /\ Tail(link[n]) \in Seq(Frame) /\ Len(Tail(link[n])) = Len(link[n]) - 1
      /\ 1 \in 0 .. Len(link[n])
      /\ \A i \in 1 .. Len(Tail(link[n])) : Tail(link[n])[i] = link[n][i + 1]
  BY <1>1, TailFrames
<1>4. WireOK(link'[n], wr[Peer(n)], sent[Peer(n)])
  BY <1>1, <1>3, DropFrames DEF DirInv, WireInv
<1>5. TakenOK(link'[n], delivered[n], rx[n], sent[Peer(n)])
  BY <1>1, <1>3, DropFrames DEF DirInv, TakenInv
<1>6. ASSUME boots = 0
      PROVE  OnceOK(link'[n], delivered[n], rx[n], recvSeq'[n], wr[Peer(n)],
                    sent[Peer(n)], sentFirst[Peer(n)])
  <2>1. recvSeq'[n] = recvSeq[n]
    BY <1>2, <1>6, BaseSeqOrder
  <2>2. OnceOK(link[n], delivered[n], rx[n], recvSeq'[n], wr[Peer(n)],
               sent[Peer(n)], sentFirst[Peer(n)])
    BY <1>6, <2>1 DEF DirInv, OnceInv
  <2> QED BY <1>1, <1>3, <2>2, DropFrames
<1> QED BY <1>2, <1>4, <1>5, <1>6 DEF DirInv, WireInv, TakenInv, OnceInv

LEMMA ReceiveOrder ==
    ASSUME TypeOK, TypeOK', NEW m \in Node, NEW n \in Node, DirInv(n), Receive(m)
    PROVE  DirInv(n)'
<1> DEFINE f == Head(link[m])
<1>1. link[m] # << >> /\ Consume(m) /\ rx[m] = 0
  BY DEF Receive
<1>2. CASE ReceiveGlued(m) \/ ReceiveUnreadable(m, f) \/ ReceiveReplay(m, f)
  <2>1. UNCHANGED <<delivered, rx, wr, sent, sentFirst, boots>> /\ UNCHANGED recvSeq
    BY <1>2 DEF ReceiveGlued, ReceiveUnreadable, ReceiveReplay, histVars
  <2> QED BY <1>1, <2>1, ConsumeOrder
<1>3. CASE ReceiveNew(m, f) \/ ReceiveOther(m, f)
  <2>1. CASE n = m
    BY <1>1, <1>3, <2>1, ReceiveNewOrder, ReceiveOtherOrder
  <2>2. CASE n # m
    <3>1. link'[n] = link[n]
      BY <1>1, <2>2 DEF Consume, TypeOK
    <3>2. recvSeq'[n] = recvSeq[n] /\ rx'[n] = rx[n]
      BY <1>3, <2>2, ZenonT(60) DEF ReceiveNew, ReceiveOther, TypeOK
    <3>3. UNCHANGED <<delivered, wr, sent, sentFirst, boots>>
      BY <1>3 DEF ReceiveNew, ReceiveOther, histVars
    <3>4. UNCHANGED Direction(n)
      BY <3>1, <3>2, <3>3 DEF Direction
    <3> QED BY <3>4, SameDirection
  <2> QED BY <2>1, <2>2
<1> QED BY <1>2, <1>3 DEF Receive

LEMMA OnProtoOrder ==
    ASSUME TypeOK, TypeOK', NEW m \in Node, NEW n \in Node, DirInv(n), OnProto(m)
    PROVE  DirInv(n)'
<1>1. UNCHANGED <<link, recvSeq, wr, sent, sentFirst, boots>>
  BY DEF OnProto
<1>2. CASE n = m
  <2> DEFINE lk == link[n]  d == delivered[n]  q == recvSeq[n]  r == rx[n]
             w == wr[Peer(n)]  s == sent[Peer(n)]  sf == sentFirst[Peer(n)]
  <2>1. lk \in Seq(Frame) /\ d \in Seq(Nat) /\ w \in Wr /\ s \in Nat /\ r \in Nat
    BY DirectionType
  <2>2. r # 0 /\ delivered'[n] = Append(d, r) /\ rx'[n] = 0
    BY <1>2 DEF OnProto, TypeOK
  <2>3. WireOK(lk, w, s) /\ TakenOK(lk, d, r, s)
    BY DEF DirInv, WireInv, TakenInv
  <2>4. boots = 0 => OnceOK(lk, d, r, q, w, s, sf)
    BY DEF DirInv, OnceInv
  <2>5. TakenOK(lk, Append(d, r), 0, s)
    <3> HIDE DEF lk, d, q, r, w, s, sf
    <3> QED BY <2>1, <2>2, <2>3, DeliverTaken
  <2>6. boots = 0 => OnceOK(lk, Append(d, r), 0, q, w, s, sf)
    <3> HIDE DEF lk, d, q, r, w, s, sf
    <3> QED BY <2>1, <2>2, <2>3, <2>4, DeliverOnce
  <2> QED BY <1>1, <2>2, <2>3, <2>5, <2>6 DEF DirInv, WireInv, TakenInv, OnceInv
<1>3. CASE n # m
  <2>1. delivered'[n] = delivered[n] /\ rx'[n] = rx[n]
    BY <1>3 DEF OnProto, TypeOK
  <2>2. UNCHANGED Direction(n)
    BY <1>1, <2>1 DEF Direction
  <2> QED BY <2>2, SameDirection
<1> QED BY <1>2, <1>3

\* A reboot forgets what was taken and not delivered, or the send in progress;
\* from then on boots > 0 and nothing is claimed about repetition.
LEMMA RebootOrder ==
    ASSUME TypeOK, TypeOK', NEW m \in Node, NEW n \in Node, DirInv(n), Reboot(m)
    PROVE  DirInv(n)'
<1>1. boots' # 0
  BY DEF Reboot, TypeOK
<1>2. UNCHANGED <<sent, delivered>>
  BY DEF Reboot
<1>3. link \in [Node -> Seq(Frame)] /\ link' \in [Node -> Seq(Frame)]
  BY DEF TypeOK
<1>4. CASE n = m
  <2>1. PICK k \in 0 .. Len(link[n]) :
            link' = [link EXCEPT ![n] = SubSeq(link[n], k + 1, Len(link[n]))]
    BY <1>4 DEF Reboot
  <2>2. link'[n] = SubSeq(link[n], k + 1, Len(link[n])) /\ link[n] \in Seq(Frame)
    BY <1>3, <2>1
  <2>3. Len(link'[n]) = Len(link[n]) - k /\ link'[n] \in Seq(Frame)
    BY <1>3, <2>2
  <2>4. \A i \in 1 .. Len(link'[n]) : link'[n][i] = link[n][i + k]
    BY <2>2, <2>3
  <2>5. wr'[Peer(n)] = wr[Peer(n)] /\ rx'[n] = 0
    BY <1>4, PeerOfPeer DEF Reboot, TypeOK
  <2>6. WireOK(link'[n], wr[Peer(n)], sent[Peer(n)])
    BY <2>2, <2>3, <2>4, DropFrames DEF DirInv, WireInv
  <2>7. TakenOK(link'[n], delivered[n], rx[n], sent[Peer(n)])
    BY <2>2, <2>3, <2>4, DropFrames DEF DirInv, TakenInv
  <2>8. TakenOK(link'[n], delivered[n], 0, sent[Peer(n)])
    <3>1. sent[Peer(n)] \in Nat
      BY DirectionType
    <3>2. \A j \in 1 .. Len(link'[n]) : link'[n][j].id \in Nat
      BY <2>3, FrameAt
    <3> QED BY <2>7, <3>1, <3>2 DEF TakenOK
  <2> QED BY <1>1, <1>2, <2>5, <2>6, <2>8 DEF DirInv, WireInv, TakenInv, OnceInv
<1>5. CASE Peer(n) = m
  <2>1. wr'[Peer(n)] = IdleWr
    BY <1>5 DEF Reboot, TypeOK
  <2>2. wr'[Peer(n)].pc = "idle"
    BY <2>1 DEF IdleWr
  <2>3. link'[n] = link[n] /\ rx'[n] = rx[n]
    <3>1. n # m
      BY <1>5, PeerOfPeer
    <3> QED BY <3>1 DEF Reboot, TypeOK
  <2>4. WireOK(link[n], wr'[Peer(n)], sent[Peer(n)])
    BY <2>2, SameMessage DEF DirInv, WireInv
  <2> QED BY <1>1, <1>2, <2>3, <2>4 DEF DirInv, WireInv, TakenInv, OnceInv
<1> QED BY <1>4, <1>5, PeerOfPeer

LEMMA InitOrder == Init => OrderInv
<1> SUFFICES ASSUME Init, NEW n \in Node PROVE WireInv(n) /\ TakenInv(n) /\ OnceInv(n)
  BY DEF OrderInv
<1>1. Peer(n) \in Node
  BY PeerType
<1>2. /\ link[n] = << >> /\ delivered[n] = << >> /\ rx[n] = 0 /\ sent[Peer(n)] = 0
      /\ wr[Peer(n)].pc = "idle"
  BY <1>1 DEF Init, IdleWr
<1> QED BY <1>2 DEF WireInv, TakenInv, OnceInv, WireOK, TakenOK, OnceOK

LEMMA NextOrder == TypeOK /\ TypeOK' /\ OrderInv /\ [Next]_vars => OrderInv'
<1> SUFFICES ASSUME TypeOK, TypeOK', OrderInv, [Next]_vars, NEW n \in Node
             PROVE  DirInv(n)'
  BY DEF OrderInv, DirInv
<1>1. DirInv(n)
  BY DEF OrderInv, DirInv
<1>2. CASE UNCHANGED vars
  <2>1. UNCHANGED Direction(n)
    BY <1>2 DEF vars, nodeVars, histVars, Direction
  <2> QED BY <1>1, <2>1, SameDirection
<1>3. CASE Next
  <2>1. PICK m \in Node :
            \/ Encode(m) \/ EncodeFails(m) \/ WriteFails(m)
            \/ Sender(m) \/ Receive(m) \/ OnProto(m) \/ AckTimerExpires(m) \/ Idle(m)
            \/ FreeRecvProto(m) \/ Environment(m)
    BY <1>3 DEF Next
  <2>2. CASE Encode(m) \/ EncodeFails(m)
    BY <1>1, <2>2, EncodeOrder, EncodeFailsOrder
  <2>3. CASE WriteFails(m) \/ Sender(m)
    BY <1>1, <2>3, SenderOrder, TransmitOrder DEF Sender
  <2>4. CASE Receive(m) \/ OnProto(m)
    BY <1>1, <2>4, ReceiveOrder, OnProtoOrder
  <2>5. CASE Idle(m)
    BY <1>1, <2>5, IdleOrder
  <2>6. CASE Environment(m) \/ AckTimerExpires(m) \/ FreeRecvProto(m)
    BY <1>1, <2>6, FaultOrder, RebootOrder, OtherOrder DEF Environment
  <2> QED BY <2>1, <2>2, <2>3, <2>4, <2>5, <2>6
<1> QED BY <1>2, <1>3

LEMMA OrderInvOrders == TypeOK /\ OrderInv => OrderedOnce
<1> SUFFICES ASSUME TypeOK, OrderInv, NEW n \in Node,
                    NEW i \in 1 .. Len(delivered[n]), NEW j \in 1 .. Len(delivered[n]),
                    i < j
             PROVE  \/ delivered[n][i] < delivered[n][j]
                    \/ /\ delivered[n][i] = delivered[n][j]
                       /\ boots > 0 \/ delivered[n][i] = 1
  BY DEF OrderedOnce
<1>1. delivered[n] \in Seq(Nat) /\ boots \in Nat
  BY DEF TypeOK
<1>2. delivered[n][i] \in Nat /\ delivered[n][j] \in Nat
  BY <1>1
<1>3. delivered[n][i] <= delivered[n][j]
  BY DEF OrderInv, TakenInv, TakenOK
<1>4. boots = 0 /\ delivered[n][i] = delivered[n][j] => delivered[n][i] = 1
  BY DEF OrderInv, OnceInv, OnceOK
<1> QED BY <1>1, <1>2, <1>3, <1>4

\* Messages are delivered in the order in which the peer's tasks took wr_mutex,
\* and none but the first twice while neither MCU reboots: for every pool size,
\* retransmission limit and largest sequence number, however often the sequence
\* numbers wrap, and for any number of messages, faults, reboots and sessions.
THEOREM DeliveryOrder == Spec => []OrderedOnce
<1>1. Init => OrderInv
  BY InitOrder
<1>2. TypeOK /\ TypeOK' /\ OrderInv /\ [Next]_vars => OrderInv'
  BY NextOrder
<1>3. TypeOK /\ OrderInv => OrderedOnce
  BY OrderInvOrders
<1> QED BY <1>1, <1>2, <1>3, TypeCorrect, PTL DEF Spec

-----------------------------------------------------------------------------
(***************************************************************************)
(* Giving up.  When the tasks of h send and those of its peer only         *)
(* receive, timers are timely and nothing is encrypted, a message of h is  *)
(* at one place at a time: on the wire to the peer, with the peer, which   *)
(* owes an ACK, on its way back as an ACK, or acknowledged.  It is at none *)
(* only when a fault took the frame or the ACK, and a fault takes at most  *)
(* two: the one it hits, and the one glued to what it left in              *)
(* rd_enc_buffer.  Left(h) counts what the faults so far may still take.   *)
(***************************************************************************)
Owes(n) == ackTimer[n] \/ "ACK_TIMER" \in events[n]

Calm(n) == rx[n] = 0 /\ ~Owes(n)

Stale(n) == IF rdStale[n] THEN 1 ELSE 0

Left(h) == 2 * faults - Stale(h) - Stale(Peer(h))

Only(f) == <<f>>

\* The message of h is nowhere, on the wire, with the peer, or on its way back.
Nowhere(h) == link[Peer(h)] = << >> /\ link[h] = << >> /\ Calm(Peer(h))

OnWire(h) ==
    /\ link[Peer(h)] = Only(wr[h].frame) /\ link[h] = << >>
    /\ Calm(Peer(h)) /\ "ACK" \notin events[h]

WithPeer(h) ==
    /\ link[Peer(h)] = << >> /\ link[h] = << >>
    /\ Owes(Peer(h)) /\ recvSeq[Peer(h)] = sendSeq[h] /\ "ACK" \notin events[h]

OnWayBack(h) ==
    /\ link[Peer(h)] = << >>
    /\ \E s \in Seqs : link[h] = Only(PureAck(s, sendSeq[h]))
    /\ Calm(Peer(h)) /\ "ACK" \notin events[h]

Acked(h) == Nowhere(h) /\ "ACK" \in events[h]

Spoilt(h) == Nowhere(h) /\ wr[h].retry < Left(h)

Silent(n) == wr[n] = IdleWr /\ sent[n] = 0

SendOK(h) ==
    wr[h].pc # "idle" =>
        /\ wr[h].frame.seq = sendSeq[h]
        /\ wr[h].frame.id # 0
        /\ wr[h].frame.enc = Plain

PlaceOK(h) ==
    IF wr[h].pc = "wait"
    THEN OnWire(h) \/ WithPeer(h) \/ OnWayBack(h) \/ Acked(h) \/ Spoilt(h)
    ELSE Nowhere(h)

OneWayInv(h) ==
    /\ Calm(h)
    /\ Silent(Peer(h))
    /\ SendOK(h)
    /\ wr[h].retry <= Left(h)
    /\ PlaceOK(h)
    /\ NoSendGivesUp

\* What the hypotheses of the theorem say.
OneWay(h) ==
    /\ Timely
    /\ MaxReboots = 0
    /\ MaxMsgs[Peer(h)] = 0
    /\ \A kind \in SendKinds : ~kind.secret
    /\ RetransmitMax > 2 * MaxFaults

LEMMA FaultsGrow ==
    ASSUME TypeOK, TypeOK', Fault \/ UNCHANGED faults
    PROVE  faults \in Nat /\ faults' \in Nat /\ faults' >= faults
<1>1. faults \in 0 .. MaxFaults /\ faults' \in 0 .. MaxFaults
  BY DEF TypeOK
<1> QED BY <1>1 DEF Fault

LEMMA OnlyFrame ==
    ASSUME NEW f \in Frame
    PROVE  /\ Append(<< >>, f) = Only(f)
           /\ Only(f) # << >>
           /\ Head(Only(f)) = f
           /\ Tail(Only(f)) = << >>
           /\ Only(f) \in Seq(Frame)
BY DEF Only

\* What h and its peer d are to each other, and the types of what matters here.
LEMMA OneWayType ==
    ASSUME TypeOK, NEW h \in Node
    PROVE  /\ Peer(h) \in Node /\ Peer(h) # h /\ Peer(Peer(h)) = h
           /\ \A n \in Node : n = h \/ n = Peer(h)
           /\ \A n \in Node : /\ Stale(n) \in {0, 1}
                              /\ wr[n] \in Wr
                              /\ wr[n].retry \in 0 .. RetransmitMax
                              /\ wr[n].frame \in Frame
                              /\ link[n] \in Seq(Frame)
           /\ faults \in 0 .. MaxFaults
           /\ Left(h) \in Int /\ Left(h) <= 2 * MaxFaults
<1>1. /\ Peer(h) \in Node /\ Peer(h) # h /\ Peer(Peer(h)) = h
      /\ \A n \in Node : n = h \/ n = Peer(h)
  BY DEF Peer, Node
<1>2. \A n \in Node : /\ Stale(n) \in {0, 1}
                      /\ wr[n] \in Wr
                      /\ wr[n].retry \in 0 .. RetransmitMax
                      /\ wr[n].frame \in Frame
                      /\ link[n] \in Seq(Frame)
  BY DEF TypeOK, Stale, Wr
<1>3. faults \in 0 .. MaxFaults
  BY DEF TypeOK
<1>4. Left(h) \in Int /\ Left(h) <= 2 * MaxFaults
  BY <1>1, <1>2, <1>3 DEF Left
<1> QED BY <1>1, <1>2, <1>3, <1>4

LEMMA InitOneWay == ASSUME NEW h \in Node, Init PROVE OneWayInv(h)
<1>1. Peer(h) \in Node
  BY PeerType
<1>2. Calm(h) /\ Nowhere(h) /\ Silent(Peer(h))
  BY <1>1 DEF Init, Calm, Owes, Nowhere, Silent
<1>3. wr[h] = IdleWr /\ wr[h].pc = "idle" /\ wr[h].retry = 0
  BY DEF Init, IdleWr
<1>4. Left(h) = 0
  <2>1. rdStale[h] = FALSE /\ rdStale[Peer(h)] = FALSE /\ faults = 0
    BY <1>1 DEF Init
  <2>2. Stale(h) = 0 /\ Stale(Peer(h)) = 0
    BY <2>1 DEF Stale
  <2> QED BY <2>1, <2>2 DEF Left
<1>5. NoSendGivesUp
  BY DEF Init, NoSendGivesUp
<1> QED BY <1>2, <1>3, <1>4, <1>5 DEF OneWayInv, SendOK, PlaceOK

\* A send that ends with another result than UC_ERR_MAX_RETRANSMITS.
LEMMA FinishOneWay ==
    ASSUME TypeOK, NEW n \in Node, NoSendGivesUp, NEW i, NEW o, o # "max_retransmits",
           result' = [result EXCEPT ![n][i] = o]
    PROVE  NoSendGivesUp'
<1> SUFFICES ASSUME NEW m \in Node, NEW j \in 1 .. MaxMsgs[m]
             PROVE  result'[m][j] # "max_retransmits"
  BY DEF NoSendGivesUp
<1>1. /\ result = [k \in Node |-> result[k]]
      /\ \A k \in Node : result[k] \in [1 .. MaxMsgs[k] -> Results]
  BY DEF TypeOK
<1>2. result[m][j] # "max_retransmits"
  BY DEF NoSendGivesUp
<1>3. CASE m # n
  BY <1>1, <1>2, <1>3
<1>4. CASE m = n
  <2>1. result'[n] = [result[n] EXCEPT ![i] = o]
    BY <1>1
  <2> QED BY <1>1, <1>2, <1>4, <2>1
<1> QED BY <1>3, <1>4

LEMMA SameResults ==
    ASSUME NoSendGivesUp, UNCHANGED result
    PROVE  NoSendGivesUp'
BY DEF NoSendGivesUp

LEMMA SameOneWay ==
    ASSUME NEW h \in Node, OneWayInv(h),
           UNCHANGED <<ackTimer, events, rx, rdStale, wr, link, sendSeq, recvSeq, sent,
                       result, faults>>
    PROVE  OneWayInv(h)'
<1>1. /\ UNCHANGED <<Calm(h), Silent(Peer(h)), SendOK(h), Left(h), Nowhere(h)>>
      /\ UNCHANGED <<OnWire(h), WithPeer(h), OnWayBack(h)>>
  BY DEF Calm, Owes, Silent, SendOK, Left, Stale, Nowhere, OnWire, WithPeer, OnWayBack
<1>2. UNCHANGED <<Acked(h), Spoilt(h)>>
  BY <1>1 DEF Acked, Spoilt
<1>3. NoSendGivesUp'
  BY SameResults DEF OneWayInv
<1> QED BY <1>1, <1>2, <1>3 DEF OneWayInv, PlaceOK

\* Only the tasks of h are inside uc_send, and only their peer owes ACKs.
LEMMA OnlyOneSends ==
    ASSUME TypeOK, NEW h \in Node, OneWay(h), OneWayInv(h), NEW n \in Node
    PROVE  /\ wr[n].pc # "idle" => n = h
           /\ sent[n] < MaxMsgs[n] => n = h
           /\ Owes(n) \/ rx[n] # 0 => n = Peer(h)
<1>1. n = h \/ n = Peer(h)
  BY OneWayType
<1>2. wr[Peer(h)].pc = "idle" /\ sent[Peer(h)] = 0
  BY DEF OneWayInv, Silent, IdleWr
<1>3. MaxMsgs[Peer(h)] = 0
  BY DEF OneWay
<1> QED BY <1>1, <1>2, <1>3 DEF OneWayInv, Calm

LEMMA EncodeOneWay ==
    ASSUME TypeOK, TypeOK', NEW h \in Node, OneWay(h), OneWayInv(h),
           NEW n \in Node, Encode(n)
    PROVE  OneWayInv(h)'
<1>1. n = h
  BY OnlyOneSends DEF Encode
<1>2. /\ Peer(h) \in Node /\ Peer(h) # h
      /\ wr \in [Node -> Wr] /\ sendSeq \in [Node -> Seqs] /\ sent \in [Node -> Nat]
  BY OneWayType DEF TypeOK
<1>3. PICK kind \in SendKinds, hold \in {0, 1} :
        wr' = [wr EXCEPT ![h] = [pc |-> "encoded", retry |-> 0, hold |-> hold,
                                 stop |-> FALSE, frame |-> EncodedFrame(h, kind)]]
  BY <1>1 DEF Encode
<1>4. /\ wr[h].pc = "idle"
      /\ sendSeq'[h] = NextSeq(sendSeq[h])
      /\ sent' = [sent EXCEPT ![h] = @ + 1]
      /\ UNCHANGED <<recvSeq, events, ackTimer, rx, rdStale, link, result, faults>>
  BY <1>1, <1>2 DEF Encode, BumpSeq
<1>5. /\ wr'[h].pc = "encoded" /\ wr'[h].retry = 0
      /\ wr'[h].frame = EncodedFrame(h, kind)
      /\ wr'[Peer(h)] = wr[Peer(h)] /\ sent'[Peer(h)] = sent[Peer(h)]
  BY <1>2, <1>3, <1>4
<1>6. SendOK(h)'
  <2>1. ~kind.secret
    BY DEF OneWay
  <2>2. EncodedFrame(h, kind).enc = Plain
    BY <2>1 DEF EncodedFrame, Encrypts
  <2>3. EncodedFrame(h, kind).seq = sendSeq'[h] /\ EncodedFrame(h, kind).id # 0
    BY <1>2, <1>4 DEF EncodedFrame
  <2> QED BY <1>5, <2>2, <2>3 DEF SendOK
<1>7. Calm(h)' /\ Silent(Peer(h))' /\ Nowhere(h)'
  BY <1>4, <1>5 DEF OneWayInv, Calm, Owes, Silent, Nowhere, PlaceOK
<1>8. wr'[h].retry <= Left(h)'
  <2>1. wr[h].retry <= Left(h) /\ wr[h].retry \in Nat
    BY OneWayType DEF OneWayInv
  <2>2. UNCHANGED Left(h)
    BY <1>4 DEF Left, Stale
  <2> QED BY <1>5, <2>1, <2>2, OneWayType
<1>9. NoSendGivesUp'
  BY <1>4, SameResults DEF OneWayInv
<1> QED BY <1>5, <1>6, <1>7, <1>8, <1>9 DEF OneWayInv, PlaceOK

LEMMA EncodeFailsOneWay ==
    ASSUME TypeOK, TypeOK', NEW h \in Node, OneWay(h), OneWayInv(h),
           NEW n \in Node, EncodeFails(n)
    PROVE  OneWayInv(h)'
<1>1. n = h
  BY OnlyOneSends DEF EncodeFails
<1>2. Peer(h) \in Node /\ Peer(h) # h /\ sent \in [Node -> Nat]
  BY OneWayType DEF TypeOK
<1>3. /\ wr[h].pc = "idle"
      /\ sent'[Peer(h)] = sent[Peer(h)]
      /\ result' = [result EXCEPT ![h][sent[h] + 1] = "failed"]
      /\ UNCHANGED <<recvSeq, events, ackTimer, wr, rx, rdStale, link>>
  BY <1>1, <1>2 DEF EncodeFails
<1>4. faults \in Nat /\ faults' \in Nat /\ faults' >= faults
  BY FaultsGrow DEF EncodeFails
<1>5. Calm(h)' /\ Silent(Peer(h))' /\ Nowhere(h)' /\ SendOK(h)'
  BY <1>3 DEF OneWayInv, Calm, Owes, Silent, Nowhere, PlaceOK, SendOK
<1>6. wr'[h].retry <= Left(h)'
  <2>1. wr[h].retry <= Left(h) /\ wr[h].retry \in Nat
    BY OneWayType DEF OneWayInv
  <2>2. UNCHANGED <<Stale(h), Stale(Peer(h))>> /\ Stale(h) \in Nat /\ Stale(Peer(h)) \in Nat
    BY <1>3 DEF Stale
  <2> QED BY <1>3, <1>4, <2>1, <2>2 DEF Left
<1>7. NoSendGivesUp'
  BY <1>3, FinishOneWay DEF OneWayInv
<1> QED BY <1>3, <1>5, <1>6, <1>7 DEF OneWayInv, PlaceOK

LEMMA CheckAckTimerOneWay ==
    ASSUME TypeOK, TypeOK', NEW h \in Node, OneWay(h), OneWayInv(h),
           NEW n \in Node, CheckAckTimer(n)
    PROVE  OneWayInv(h)'
<1>1. n = h
  BY OnlyOneSends DEF CheckAckTimer
<1>2. Peer(h) \in Node /\ Peer(h) # h /\ wr \in [Node -> Wr] /\ wr[h] \in Wr
  BY OneWayType DEF TypeOK
<1>3. /\ wr[h].pc = "encoded"
      /\ wr'[h].pc = "write" /\ wr'[h].frame = wr[h].frame /\ wr'[h].retry = wr[h].retry
      /\ wr'[Peer(h)] = wr[Peer(h)]
      /\ UNCHANGED <<sendSeq, recvSeq, events, ackTimer, rx, rdStale, link, sent, result,
                     faults>>
  BY <1>1, <1>2 DEF CheckAckTimer, Wr, histVars
<1>4. Calm(h)' /\ Silent(Peer(h))' /\ Nowhere(h)' /\ SendOK(h)'
  BY <1>3 DEF OneWayInv, Calm, Owes, Silent, Nowhere, PlaceOK, SendOK
<1>5. UNCHANGED Left(h)
  BY <1>3 DEF Left, Stale
<1>6. NoSendGivesUp'
  BY <1>3, SameResults DEF OneWayInv
<1> QED BY <1>3, <1>4, <1>5, <1>6 DEF OneWayInv, PlaceOK

LEMMA TransmitOneWay ==
    ASSUME TypeOK, TypeOK', NEW h \in Node, OneWay(h), OneWayInv(h),
           NEW n \in Node, Transmit(n)
    PROVE  OneWayInv(h)'
<1>1. n = h
  BY OnlyOneSends DEF Transmit
<1>2. /\ Peer(h) \in Node /\ Peer(h) # h
      /\ wr \in [Node -> Wr] /\ wr[h] \in Wr /\ wr[h].frame \in Frame
      /\ link \in [Node -> Seq(Frame)]
      /\ ackTimer \in [Node -> BOOLEAN]
      /\ events \in [Node -> SUBSET {"ACK", "ACK_TIMER"}]
  BY OneWayType DEF TypeOK
<1>3. /\ wr[h].pc = "write"
      /\ wr'[h].pc = "wait" /\ wr'[h].frame = wr[h].frame /\ wr'[h].retry = wr[h].retry
      /\ wr'[Peer(h)] = wr[Peer(h)]
  BY <1>1, <1>2 DEF Transmit, Wr
<1>4. UNCHANGED <<sendSeq, recvSeq, rx, rdStale, sent, result, faults>>
  BY DEF Transmit, histVars
<1>5. /\ link'[Peer(h)] = Append(link[Peer(h)], wr[h].frame)
      /\ link'[h] = link[h]
  BY <1>1, <1>2 DEF Transmit
<1>6. /\ ackTimer'[h] = (ackTimer[h] /\ ~wr[h].stop)
      /\ ackTimer'[Peer(h)] = ackTimer[Peer(h)]
      /\ events'[h] = events[h] \ {"ACK"}
      /\ events'[Peer(h)] = events[Peer(h)]
  BY <1>1, <1>2 DEF Transmit
<1>7. Calm(h)' /\ Silent(Peer(h))' /\ SendOK(h)'
  BY <1>3, <1>4, <1>6 DEF OneWayInv, Calm, Owes, Silent, SendOK
<1>8. OnWire(h)'
  <2>1. link[Peer(h)] = << >> /\ link[h] = << >> /\ Calm(Peer(h))
    BY <1>3 DEF OneWayInv, PlaceOK, Nowhere
  <2>2. link'[Peer(h)] = Only(wr[h].frame)
    BY <1>2, <1>5, <2>1, OnlyFrame
  <2>3. Calm(Peer(h))'
    BY <1>4, <1>6, <2>1 DEF Calm, Owes
  <2> QED BY <1>3, <1>5, <1>6, <2>1, <2>2, <2>3 DEF OnWire
<1>9. UNCHANGED Left(h)
  BY <1>4 DEF Left, Stale
<1>10. NoSendGivesUp'
  BY <1>4, SameResults DEF OneWayInv
<1> QED BY <1>3, <1>7, <1>8, <1>9, <1>10 DEF OneWayInv, PlaceOK

\* A send of h ends otherwise than by giving up.
LEMMA EndOneWay ==
    ASSUME TypeOK, TypeOK', NEW h \in Node, OneWay(h), OneWayInv(h), Nowhere(h),
           NEW o, o # "max_retransmits", Finish(h, o),
           events'[h] \subseteq events[h], ackTimer'[h] => ackTimer[h],
           UNCHANGED <<events[Peer(h)], ackTimer[Peer(h)]>>,
           UNCHANGED <<rx, rdStale, link, sent>>, Fault \/ UNCHANGED faults
    PROVE  OneWayInv(h)'
<1>1. /\ Peer(h) \in Node /\ Peer(h) # h /\ wr \in [Node -> Wr]
      /\ wr[h].retry \in Nat
      /\ faults \in Nat /\ faults' \in Nat /\ faults' >= faults
  <2>1. wr \in [Node -> Wr]
    BY DEF TypeOK
  <2> QED BY <2>1, OneWayType, FaultsGrow
<1>2. /\ wr'[h] = IdleWr /\ wr'[Peer(h)] = wr[Peer(h)]
      /\ wr'[h].pc = "idle" /\ wr'[h].retry = 0
      /\ result' = [result EXCEPT ![h][wr[h].frame.id] = o]
  BY <1>1 DEF Finish, IdleWr
<1>3. Calm(h)' /\ Silent(Peer(h))' /\ SendOK(h)' /\ Nowhere(h)'
  BY <1>2 DEF OneWayInv, Calm, Owes, Silent, SendOK, Nowhere
<1>4. wr'[h].retry <= Left(h)'
  <2>1. wr[h].retry <= Left(h)
    BY DEF OneWayInv
  <2>2. UNCHANGED <<Stale(h), Stale(Peer(h))>> /\ Stale(h) \in Nat /\ Stale(Peer(h)) \in Nat
    BY DEF Stale
  <2> QED BY <1>1, <1>2, <2>1, <2>2 DEF Left
<1>5. NoSendGivesUp'
  BY <1>2, FinishOneWay DEF OneWayInv
<1> QED BY <1>2, <1>3, <1>4, <1>5 DEF OneWayInv, PlaceOK

LEMMA WriteFailsOneWay ==
    ASSUME TypeOK, TypeOK', NEW h \in Node, OneWay(h), OneWayInv(h),
           NEW n \in Node, WriteFails(n)
    PROVE  OneWayInv(h)'
<1>1. n = h
  BY OnlyOneSends DEF WriteFails
<1>2. /\ Peer(h) \in Node /\ Peer(h) # h
      /\ ackTimer \in [Node -> BOOLEAN]
      /\ events \in [Node -> SUBSET {"ACK", "ACK_TIMER"}]
  BY OneWayType DEF TypeOK
<1>3. Nowhere(h)
  BY <1>1 DEF OneWayInv, PlaceOK, WriteFails
<1>4. /\ events'[h] \subseteq events[h] /\ (ackTimer'[h] => ackTimer[h])
      /\ UNCHANGED <<events[Peer(h)], ackTimer[Peer(h)]>>
  BY <1>1, <1>2 DEF WriteFails
<1>5. Finish(h, "failed") /\ UNCHANGED <<rx, rdStale, link, sent>>
  BY <1>1 DEF WriteFails
<1>6. Fault
  BY DEF WriteFails
<1> QED BY <1>3, <1>4, <1>5, <1>6, EndOneWay

LEMMA AckReceivedOneWay ==
    ASSUME TypeOK, TypeOK', NEW h \in Node, OneWay(h), OneWayInv(h),
           NEW n \in Node, AckReceived(n)
    PROVE  OneWayInv(h)'
<1>1. n = h
  BY OnlyOneSends DEF AckReceived
<1>2. /\ Peer(h) \in Node /\ Peer(h) # h
      /\ events \in [Node -> SUBSET {"ACK", "ACK_TIMER"}]
  BY OneWayType DEF TypeOK
<1>3. Nowhere(h)
  BY <1>1 DEF OneWayInv, PlaceOK, AckReceived, OnWire, WithPeer, OnWayBack, Acked, Spoilt
<1>4. /\ events'[h] \subseteq events[h] /\ (ackTimer'[h] => ackTimer[h])
      /\ UNCHANGED <<events[Peer(h)], ackTimer[Peer(h)]>>
  BY <1>1, <1>2 DEF AckReceived
<1>5. Finish(h, "ok") /\ UNCHANGED <<rx, rdStale, link, sent>> /\ UNCHANGED faults
  BY <1>1 DEF AckReceived
<1> QED BY <1>2, <1>3, <1>4, <1>5, EndOneWay

\* The timer fires when nothing else is due: the attempt was spoilt, and as every
\* spoilt attempt was paid for by a fault, it was not the last one.
LEMMA RetransmitTimeoutOneWay ==
    ASSUME TypeOK, TypeOK', NEW h \in Node, OneWay(h), OneWayInv(h),
           NEW n \in Node, RetransmitTimeout(n)
    PROVE  OneWayInv(h)'
<1>1. n = h
  BY OnlyOneSends DEF RetransmitTimeout
<1>2. Peer(h) \in Node /\ Peer(h) # h /\ wr \in [Node -> Wr] /\ wr[h] \in Wr
  BY OneWayType DEF TypeOK
<1>3. wr[h].pc = "wait" /\ "ACK" \notin events[h] /\ Quiet
  BY <1>1 DEF RetransmitTimeout, OneWay
<1>4. Spoilt(h)
  <2>1. ~OnWire(h)
    BY <1>2, <1>3, OneWayType, OnlyFrame DEF Quiet, OnWire
  <2>2. ~WithPeer(h)
    <3>1. wr[Peer(h)].pc = "idle"
      BY DEF OneWayInv, Silent, IdleWr
    <3> QED BY <1>2, <1>3, <3>1 DEF Quiet, WithPeer, Owes
  <2>3. ~OnWayBack(h)
    <3>1. sendSeq[h] \in Seqs
      BY DEF TypeOK
    <3>2. \A s \in Seqs : Only(PureAck(s, sendSeq[h])) # << >>
      BY <3>1, OnlyFrame, PureAckType
    <3> QED BY <1>3, <3>2 DEF Quiet, OnWayBack
  <2> QED BY <1>3, <2>1, <2>2, <2>3 DEF OneWayInv, PlaceOK, Acked
<1>5. wr[h].retry + 1 < RetransmitMax
  <2>1. wr[h].retry < Left(h) /\ RetransmitMax > 2 * MaxFaults
    BY <1>4 DEF Spoilt, OneWay
  <2>2. Left(h) \in Int /\ Left(h) <= 2 * MaxFaults /\ wr[h].retry \in Nat
    BY OneWayType
  <2> QED BY <2>1, <2>2
<1>6. /\ wr' = [wr EXCEPT ![h].pc = "write", ![h].retry = @ + 1]
      /\ UNCHANGED result
  <2>1. wr[h].retry \in Nat
    BY <1>2 DEF Wr
  <2> QED BY <1>1, <1>5, <2>1 DEF RetransmitTimeout
<1>7. /\ wr'[h].pc = "write" /\ wr'[h].frame = wr[h].frame
      /\ wr'[h].retry = wr[h].retry + 1
      /\ wr'[Peer(h)] = wr[Peer(h)]
  BY <1>2, <1>6 DEF Wr
<1>8. UNCHANGED <<sendSeq, recvSeq, events, ackTimer, rx, rdStale, link, sent, faults>>
  BY DEF RetransmitTimeout
<1>9. Calm(h)' /\ Silent(Peer(h))' /\ SendOK(h)' /\ Nowhere(h)'
  BY <1>3, <1>4, <1>7, <1>8 DEF OneWayInv, Calm, Owes, Silent, SendOK, Nowhere, Spoilt
<1>10. wr'[h].retry <= Left(h)'
  <2>1. UNCHANGED Left(h)
    BY <1>8 DEF Left, Stale
  <2> QED BY <1>4, <1>7, <2>1, OneWayType DEF Spoilt
<1>11. NoSendGivesUp'
  BY <1>6, SameResults DEF OneWayInv
<1> QED BY <1>7, <1>9, <1>10, <1>11 DEF OneWayInv, PlaceOK

\* A step of the peer or of the wire that leaves h and its send alone.
PeerStep(h) ==
    UNCHANGED <<ackTimer[h], events[h], rx[h], wr, sendSeq[h], sent, result>>

LEMMA PeerOneWay ==
    ASSUME TypeOK, TypeOK', NEW h \in Node, OneWayInv(h), PeerStep(h),
           wr[h].retry <= Left(h)', PlaceOK(h)'
    PROVE  OneWayInv(h)'
<1>1. Calm(h)' /\ Silent(Peer(h))' /\ SendOK(h)'
  BY DEF OneWayInv, PeerStep, Calm, Owes, Silent, SendOK
<1>2. NoSendGivesUp'
  BY SameResults DEF OneWayInv, PeerStep
<1> QED BY <1>1, <1>2 DEF OneWayInv, PeerStep

\* The peer owes an ACK, or holds a message, only when the message of h is there.
LEMMA PeerHasIt ==
    ASSUME NEW h \in Node, OneWayInv(h), ~Calm(Peer(h))
    PROVE  wr[h].pc = "wait" /\ WithPeer(h)
BY DEF OneWayInv, PlaceOK, Nowhere, OnWire, OnWayBack, Acked, Spoilt

LEMMA AckTimerExpiresOneWay ==
    ASSUME TypeOK, TypeOK', NEW h \in Node, OneWay(h), OneWayInv(h),
           NEW n \in Node, AckTimerExpires(n)
    PROVE  OneWayInv(h)'
<1>1. n = Peer(h) /\ ~Calm(Peer(h))
  BY OnlyOneSends DEF AckTimerExpires, Owes, Calm
<1>2. /\ Peer(h) \in Node /\ Peer(h) # h
      /\ ackTimer \in [Node -> BOOLEAN]
      /\ events \in [Node -> SUBSET {"ACK", "ACK_TIMER"}]
  BY OneWayType DEF TypeOK
<1>3. UNCHANGED <<sendSeq, recvSeq, wr, rx, rdStale, link, sent, result, faults>>
  BY DEF AckTimerExpires, histVars
<1>4. UNCHANGED <<ackTimer[h], events[h]>> /\ "ACK_TIMER" \in events'[Peer(h)]
  BY <1>1, <1>2 DEF AckTimerExpires
<1>5. PlaceOK(h)'
  <2>1. wr[h].pc = "wait" /\ WithPeer(h)
    BY <1>1, PeerHasIt
  <2>2. WithPeer(h)'
    BY <1>3, <1>4, <2>1 DEF WithPeer, Owes
  <2> QED BY <1>3, <2>1, <2>2 DEF PlaceOK
<1>6. UNCHANGED Left(h)
  BY <1>3 DEF Left, Stale
<1>7. PeerStep(h)
  BY <1>3, <1>4 DEF PeerStep
<1> QED BY <1>5, <1>6, <1>7, PeerOneWay DEF OneWayInv

LEMMA OnProtoOneWay ==
    ASSUME TypeOK, TypeOK', NEW h \in Node, OneWay(h), OneWayInv(h),
           NEW n \in Node, OnProto(n)
    PROVE  OneWayInv(h)'
<1>1. n = Peer(h) /\ ~Calm(Peer(h))
  BY OnlyOneSends DEF OnProto, Calm
<1>2. Peer(h) \in Node /\ Peer(h) # h /\ rx \in [Node -> Nat]
  BY OneWayType DEF TypeOK
<1>3. /\ UNCHANGED <<ackTimer, events, sendSeq, recvSeq, wr, rdStale, link, sent, result,
                     faults>>
      /\ UNCHANGED rx[h]
  BY <1>1, <1>2 DEF OnProto
<1>4. PlaceOK(h)'
  <2>1. wr[h].pc = "wait" /\ WithPeer(h)
    BY <1>1, PeerHasIt
  <2>2. WithPeer(h)'
    BY <1>3, <2>1 DEF WithPeer, Owes
  <2> QED BY <1>3, <2>1, <2>2 DEF PlaceOK
<1>5. UNCHANGED Left(h)
  BY <1>3 DEF Left, Stale
<1>6. PeerStep(h)
  BY <1>3 DEF PeerStep
<1> QED BY <1>4, <1>5, <1>6, PeerOneWay DEF OneWayInv

LEMMA IdleOneWay ==
    ASSUME TypeOK, TypeOK', NEW h \in Node, OneWay(h), OneWayInv(h),
           NEW n \in Node, Idle(n)
    PROVE  OneWayInv(h)'
<1>1. n = Peer(h) /\ ~Calm(Peer(h))
  BY OnlyOneSends DEF Idle, Owes, Calm
<1>2. /\ Peer(h) \in Node /\ Peer(h) # h /\ Peer(Peer(h)) = h
      /\ ackTimer \in [Node -> BOOLEAN]
      /\ events \in [Node -> SUBSET {"ACK", "ACK_TIMER"}]
      /\ link \in [Node -> Seq(Frame)]
      /\ sendSeq \in [Node -> Seqs] /\ recvSeq \in [Node -> Seqs]
  BY OneWayType DEF TypeOK
<1>3. rx[Peer(h)] = 0 /\ UNCHANGED <<recvSeq, wr, rx, rdStale, sent, result, faults>>
  BY <1>1 DEF Idle
<1>4. /\ UNCHANGED <<ackTimer[h], events[h], sendSeq[h]>>
      /\ ~ackTimer'[Peer(h)] /\ "ACK_TIMER" \notin events'[Peer(h)]
  BY <1>1, <1>2 DEF Idle, BumpSeq
<1>5. wr[h].pc = "wait" /\ WithPeer(h)
  BY <1>1, PeerHasIt
<1>6. /\ link'[h] = Append(link[h], PureAck(NextSeq(sendSeq[Peer(h)]), recvSeq[Peer(h)]))
      /\ link'[Peer(h)] = link[Peer(h)]
  BY <1>1, <1>2 DEF Idle
<1>7. PlaceOK(h)'
  <2>1. NextSeq(sendSeq[Peer(h)]) \in Seqs /\ sendSeq[h] \in Seqs
    BY <1>2, NextSeqType
  <2>2. link'[h] = Only(PureAck(NextSeq(sendSeq[Peer(h)]), sendSeq[h]))
    BY <1>5, <1>6, <2>1, OnlyFrame, PureAckType DEF WithPeer
  <2>3. OnWayBack(h)'
    BY <1>3, <1>4, <1>5, <1>6, <2>1, <2>2 DEF WithPeer, OnWayBack, Calm, Owes
  <2> QED BY <1>3, <1>5, <2>3 DEF PlaceOK
<1>8. UNCHANGED Left(h)
  BY <1>3 DEF Left, Stale
<1>9. PeerStep(h)
  BY <1>3, <1>4 DEF PeerStep
<1> QED BY <1>7, <1>8, <1>9, PeerOneWay DEF OneWayInv

\* A frame that is taken from the wire is the message of h or the ACK for it.
LEMMA FrameTaken ==
    ASSUME TypeOK, NEW h \in Node, OneWayInv(h), NEW n \in Node, link[n] # << >>
    PROVE  /\ wr[h].pc = "wait" /\ "ACK" \notin events[h] /\ Calm(Peer(h))
           /\ \/ n = Peer(h) /\ Head(link[n]) = wr[h].frame
              \/ /\ n = h
                 /\ \E s \in Seqs : Head(link[n]) = PureAck(s, sendSeq[h])
           /\ Consume(n) => /\ link'[h] = << >> /\ link'[Peer(h)] = << >>
<1>1. /\ n = h \/ n = Peer(h)
      /\ Peer(h) \in Node /\ Peer(h) # h
      /\ wr[h].frame \in Frame /\ sendSeq[h] \in Seqs
      /\ link \in [Node -> Seq(Frame)]
  BY OneWayType DEF TypeOK
<1>2. wr[h].pc = "wait" /\ (OnWire(h) \/ OnWayBack(h))
  BY <1>1 DEF OneWayInv, PlaceOK, Nowhere, WithPeer, Acked, Spoilt
<1>3. CASE OnWire(h)
  <2>1. n = Peer(h) /\ link[n] = Only(wr[h].frame) /\ link[h] = << >>
    BY <1>1, <1>3 DEF OnWire
  <2>2. Head(link[n]) = wr[h].frame /\ Tail(link[n]) = << >>
    BY <1>1, <2>1, OnlyFrame
  <2> QED BY <1>1, <1>2, <1>3, <2>1, <2>2 DEF OnWire, Consume
<1>4. CASE OnWayBack(h)
  <2>1. PICK s \in Seqs : link[h] = Only(PureAck(s, sendSeq[h]))
    BY <1>4 DEF OnWayBack
  <2>2. n = h /\ link[Peer(h)] = << >>
    BY <1>1, <1>4 DEF OnWayBack
  <2>3. Head(link[n]) = PureAck(s, sendSeq[h]) /\ Tail(link[n]) = << >>
    BY <1>1, <2>1, <2>2, OnlyFrame, PureAckType
  <2> QED BY <1>1, <1>2, <1>4, <2>2, <2>3 DEF OnWayBack, Consume
<1> QED BY <1>2, <1>3, <1>4

LEMMA LeftAfter == ASSUME TypeOK', NEW h \in Node PROVE Left(h)' \in Int
<1>1. faults' \in 0 .. MaxFaults
  BY DEF TypeOK
<1>2. Stale(h)' \in {0, 1} /\ Stale(Peer(h))' \in {0, 1}
  BY DEF Stale
<1> QED BY <1>1, <1>2 DEF Left

\* A frame is lost, and a fault pays for it.
LEMMA SpoilOneWay ==
    ASSUME TypeOK, TypeOK', NEW h \in Node, OneWayInv(h), NEW n \in Node,
           link[n] # << >>, Consume(n),
           UNCHANGED <<ackTimer, events, rx, wr, sendSeq, sent, result>>,
           Left(h)' > Left(h)
    PROVE  OneWayInv(h)'
<1>1. wr[h].pc = "wait" /\ Calm(Peer(h)) /\ link'[h] = << >> /\ link'[Peer(h)] = << >>
  BY FrameTaken
<1>2. Nowhere(h)'
  BY <1>1 DEF Nowhere, Calm, Owes
<1>3. wr[h].retry < Left(h)'
  <2>1. wr[h].retry <= Left(h) /\ wr[h].retry \in Int /\ Left(h) \in Int
    BY OneWayType DEF OneWayInv
  <2> QED BY <2>1, LeftAfter
<1>4. PlaceOK(h)'
  BY <1>1, <1>2, <1>3 DEF PlaceOK, Spoilt
<1>5. PeerStep(h)
  BY DEF PeerStep
<1>6. wr[h].retry <= Left(h)'
  <2>1. wr[h].retry \in Int
    BY OneWayType
  <2> QED BY <1>3, <2>1, LeftAfter
<1> QED BY <1>4, <1>5, <1>6, PeerOneWay

\* What the faults may still take, after a step that changes rd_index of one node.
LEMMA LeftChange ==
    ASSUME TypeOK, TypeOK', NEW h \in Node, NEW n \in Node,
           \A m \in Node : m # n => rdStale'[m] = rdStale[m]
    PROVE  Left(h)' - Left(h) = 2 * (faults' - faults) - (Stale(n)' - Stale(n))
<1>1. /\ n = h \/ n = Peer(h)
      /\ Peer(h) \in Node /\ Peer(h) # h
  BY OneWayType
<1>2. \A m \in Node : Stale(m) \in Int /\ Stale(m)' \in Int
  BY DEF Stale
<1>3. \A m \in Node : m # n => Stale(m)' = Stale(m)
  BY DEF Stale
<1>4. faults \in Int /\ faults' \in Int
  <2>1. faults \in 0 .. MaxFaults /\ faults' \in 0 .. MaxFaults
    BY DEF TypeOK
  <2> QED BY <2>1
<1>5. Left(h) = 2 * faults - Stale(h) - Stale(Peer(h))
  BY DEF Left
<1>6. Left(h)' = 2 * faults' - Stale(h)' - Stale(Peer(h))'
  BY DEF Left
<1>7. CASE n = h
  <2>1. Stale(Peer(h))' = Stale(Peer(h))
    BY <1>1, <1>3, <1>7
  <2> QED BY <1>1, <1>2, <1>4, <1>5, <1>6, <1>7, <2>1
<1>8. CASE n = Peer(h)
  <2>1. Stale(h)' = Stale(h)
    BY <1>1, <1>3, <1>8
  <2> QED BY <1>1, <1>2, <1>4, <1>5, <1>6, <1>8, <2>1
<1> QED BY <1>1, <1>7, <1>8

LEMMA WireOneWay ==
    ASSUME TypeOK, TypeOK', NEW h \in Node, OneWay(h), OneWayInv(h),
           NEW n \in Node, Lose(n) \/ Corrupt(n)
    PROVE  OneWayInv(h)'
<1>1. /\ link[n] # << >> /\ Consume(n)
      /\ UNCHANGED <<ackTimer, events, rx, wr, sendSeq, sent, result>>
  BY DEF Lose, Corrupt, nodeVars
<1>2. faults \in Int /\ faults' = faults + 1
  BY FaultsGrow DEF Lose, Corrupt, Fault
<1>3. \A m \in Node : m # n => rdStale'[m] = rdStale[m]
  <2>1. rdStale \in [Node -> BOOLEAN]
    BY DEF TypeOK
  <2> QED BY <2>1 DEF Lose, Corrupt, nodeVars
<1>4. Stale(n) \in {0, 1} /\ Stale(n)' \in {0, 1}
  BY DEF Stale
<1>5. Left(h)' > Left(h)
  <2>1. Left(h)' - Left(h) = 2 * (faults' - faults) - (Stale(n)' - Stale(n))
    BY <1>3, LeftChange
  <2> QED BY <1>2, <1>4, <2>1, OneWayType, LeftAfter
<1> QED BY <1>1, <1>5, SpoilOneWay

LEMMA GluedOneWay ==
    ASSUME TypeOK, TypeOK', NEW h \in Node, OneWay(h), OneWayInv(h), NEW n \in Node,
           link[n] # << >>, Consume(n), ReceiveGlued(n)
    PROVE  OneWayInv(h)'
<1>1. UNCHANGED <<ackTimer, events, rx, wr, sendSeq, sent, result, faults>>
  BY DEF ReceiveGlued, histVars
<1>2. /\ rdStale[n] = TRUE /\ rdStale'[n] = FALSE
      /\ \A m \in Node : m # n => rdStale'[m] = rdStale[m]
  <2>1. rdStale \in [Node -> BOOLEAN]
    BY DEF TypeOK
  <2> QED BY <2>1 DEF ReceiveGlued
<1>3. Stale(n) = 1 /\ Stale(n)' = 0
  BY <1>2 DEF Stale
<1>4. Left(h)' > Left(h)
  <2>1. Left(h)' - Left(h) = 2 * (faults' - faults) - (Stale(n)' - Stale(n))
    BY <1>2, LeftChange
  <2>2. faults' - faults = 0
    <3>1. faults \in Nat
      BY <1>1, FaultsGrow
    <3> QED BY <1>1, <3>1
  <2> QED BY <1>3, <2>1, <2>2, OneWayType, LeftAfter
<1> QED BY <1>1, <1>4, SpoilOneWay

\* The peer takes the message of h: from now on it owes the ACK.
LEMMA TakeOneWay ==
    ASSUME TypeOK, TypeOK', NEW h \in Node, OneWayInv(h),
           link[Peer(h)] # << >>, Consume(Peer(h)),
           Owes(Peer(h))', recvSeq'[Peer(h)] = sendSeq[h],
           PeerStep(h), Left(h)' >= Left(h)
    PROVE  OneWayInv(h)'
<1>1. Peer(h) \in Node
  BY OneWayType
<1>2. /\ wr[h].pc = "wait" /\ "ACK" \notin events[h]
      /\ link'[h] = << >> /\ link'[Peer(h)] = << >>
  BY <1>1, FrameTaken
<1>3. WithPeer(h)'
  BY <1>2 DEF WithPeer, PeerStep
<1>4. PlaceOK(h)'
  BY <1>2, <1>3 DEF PlaceOK, PeerStep
<1>5. wr[h].retry <= Left(h)'
  <2>1. wr[h].retry <= Left(h) /\ wr[h].retry \in Int /\ Left(h) \in Int
    BY OneWayType DEF OneWayInv
  <2> QED BY <2>1, LeftAfter
<1> QED BY <1>4, <1>5, PeerOneWay

LEMMA PeerReceivesOneWay ==
    ASSUME TypeOK, TypeOK', NEW h \in Node, OneWay(h), OneWayInv(h),
           link[Peer(h)] # << >>, Consume(Peer(h)), NEW f, f = wr[h].frame,
           ReceiveNew(Peer(h), f) \/ ReceiveOther(Peer(h), f)
    PROVE  OneWayInv(h)'
<1> DEFINE d == Peer(h)
<1>1. /\ d \in Node /\ d # h
      /\ ackTimer \in [Node -> BOOLEAN]
      /\ events \in [Node -> SUBSET {"ACK", "ACK_TIMER"}]
      /\ rx \in [Node -> Nat] /\ recvSeq \in [Node -> Seqs]
      /\ rdStale \in [Node -> BOOLEAN]
      /\ f \in Frame
  BY OneWayType DEF TypeOK
<1>2. f.id # 0 /\ f.seq = sendSeq[h]
  <2>1. wr[h].pc = "wait"
    BY <1>1, FrameTaken
  <2> QED BY <2>1 DEF OneWayInv, SendOK
<1>3. UNCHANGED <<wr, sendSeq, sent, result>>
  BY DEF ReceiveNew, ReceiveOther, histVars
<1>4. UNCHANGED <<ackTimer[h], events[h], rx[h]>>
  BY <1>1 DEF ReceiveNew, ReceiveOther
<1>5. PeerStep(h)
  BY <1>3, <1>4 DEF PeerStep
<1>6. CASE ReceiveNew(d, f)
  <2>1. recvSeq'[d] = sendSeq[h]
    BY <1>1, <1>2, <1>6 DEF ReceiveNew
  <2>2. Owes(d)'
    BY <1>1, <1>6 DEF ReceiveNew, Owes, Frame
  <2>3. Left(h)' >= Left(h)
    <3>1. \A m \in Node : m # d => rdStale'[m] = rdStale[m]
      BY <1>1, <1>6 DEF ReceiveNew
    <3>2. /\ faults \in Int /\ faults' \in Int
          /\ Stale(d) \in {0, 1} /\ Stale(d)' \in {0, 1}
      BY <1>6, FaultsGrow DEF ReceiveNew, Stale
    <3>3. 2 * (faults' - faults) >= Stale(d)' - Stale(d)
      <4>1. CASE UNCHANGED <<rdStale, faults>>
        BY <3>2, <4>1 DEF Stale
      <4>2. CASE Fault
        BY <3>2, <4>2 DEF Fault
      <4> QED BY <1>6, <4>1, <4>2 DEF ReceiveNew
    <3>4. Left(h)' - Left(h) = 2 * (faults' - faults) - (Stale(d)' - Stale(d))
      BY <1>1, <3>1, LeftChange
    <3> QED BY <3>2, <3>3, <3>4, OneWayType, LeftAfter
  <2> QED BY <1>5, <2>1, <2>2, <2>3, TakeOneWay
<1>7. CASE ReceiveOther(d, f)
  <2>1. recvSeq'[d] = sendSeq[h]
    BY <1>1, <1>2, <1>7 DEF ReceiveOther, IsNew
  <2>2. Owes(d)'
    BY <1>1, <1>2, <1>7 DEF ReceiveOther, Owes
  <2>3. Left(h)' >= Left(h)
    <3>1. UNCHANGED Left(h)
      BY <1>7 DEF ReceiveOther, histVars, Left, Stale
    <3> QED BY <3>1, OneWayType
  <2> QED BY <1>5, <2>1, <2>2, <2>3, TakeOneWay
<1> QED BY <1>6, <1>7

\* h takes the ACK, which is for the last number that it sent.
LEMMA AckOneWay ==
    ASSUME TypeOK, TypeOK', NEW h \in Node, OneWay(h), OneWayInv(h),
           link[h] # << >>, Consume(h), NEW s \in Seqs,
           NEW f, f = PureAck(s, sendSeq[h]), ReceiveOther(h, f)
    PROVE  OneWayInv(h)'
<1>1. /\ Peer(h) \in Node /\ Peer(h) # h
      /\ events \in [Node -> SUBSET {"ACK", "ACK_TIMER"}]
      /\ sendSeq[h] \in Seqs
  BY OneWayType DEF TypeOK
<1>2. f.id = 0 /\ f.ack = sendSeq[h]
  BY DEF PureAck
<1>3. UNCHANGED <<ackTimer, rx, wr, sendSeq, sent, result, rdStale, faults>>
  BY DEF ReceiveOther, histVars
<1>4. events'[h] = events[h] \cup {"ACK"} /\ events'[Peer(h)] = events[Peer(h)]
  <2>1. AckEvents(h, f) = events[h] \cup {"ACK"}
    BY <1>1, <1>2 DEF AckEvents, Seqs
  <2> QED BY <1>1, <1>2, <2>1 DEF ReceiveOther
<1>5. /\ wr[h].pc = "wait" /\ Calm(Peer(h))
      /\ link'[h] = << >> /\ link'[Peer(h)] = << >>
  BY FrameTaken
<1>6. Acked(h)'
  BY <1>3, <1>4, <1>5 DEF Acked, Nowhere, Calm, Owes
<1>7. Calm(h)' /\ Silent(Peer(h))' /\ SendOK(h)'
  BY <1>3, <1>4 DEF OneWayInv, Calm, Owes, Silent, SendOK
<1>8. UNCHANGED Left(h)
  BY <1>3 DEF Left, Stale
<1>9. NoSendGivesUp'
  BY <1>3, SameResults DEF OneWayInv
<1> QED BY <1>3, <1>5, <1>6, <1>7, <1>8, <1>9 DEF OneWayInv, PlaceOK

LEMMA ReceiveOneWay ==
    ASSUME TypeOK, TypeOK', NEW h \in Node, OneWay(h), OneWayInv(h),
           NEW n \in Node, Receive(n)
    PROVE  OneWayInv(h)'
<1> DEFINE f == Head(link[n])
<1>1. link[n] # << >> /\ Consume(n)
  BY DEF Receive
<1>2. \/ n = Peer(h) /\ f = wr[h].frame
      \/ n = h /\ \E s \in Seqs : f = PureAck(s, sendSeq[h])
  BY <1>1, FrameTaken
<1>3. f.enc = Plain
  <2>1. wr[h].pc = "wait"
    BY <1>1, FrameTaken
  <2>2. wr[h].frame.enc = Plain
    BY <2>1 DEF OneWayInv, SendOK
  <2>3. \A s \in Seqs : PureAck(s, sendSeq[h]).enc = Plain
    BY DEF PureAck
  <2> HIDE DEF f
  <2> QED BY <1>2, <2>2, <2>3
<1>4. ReceiveGlued(n) \/ ReceiveNew(n, f) \/ ReceiveOther(n, f)
  BY <1>3 DEF Receive, ReceiveUnreadable, ReceiveReplay, Readable, Fresh
<1>5. CASE ReceiveGlued(n)
  BY <1>1, <1>5, GluedOneWay
<1>6. CASE ReceiveNew(n, f) \/ ReceiveOther(n, f)
  <2>1. CASE n = Peer(h) /\ f = wr[h].frame
    BY <1>1, <1>6, <2>1, PeerReceivesOneWay
  <2>2. CASE n = h /\ \E s \in Seqs : f = PureAck(s, sendSeq[h])
    <3>1. PICK s \in Seqs : f = PureAck(s, sendSeq[h])
      BY <2>2
    <3>2. f.id = 0
      BY <3>1 DEF PureAck
    <3>3. ReceiveOther(h, f)
      BY <1>6, <2>2, <3>2 DEF ReceiveNew, IsNew
    <3> QED BY <1>1, <2>2, <3>1, <3>3, AckOneWay
  <2> QED BY <1>2, <2>1, <2>2
<1> QED BY <1>4, <1>5, <1>6

LEMMA NextOneWay ==
    ASSUME NEW h \in Node, OneWay(h)
    PROVE  TypeOK /\ TypeOK' /\ OneWayInv(h) /\ [Next]_vars => OneWayInv(h)'
<1> SUFFICES ASSUME TypeOK, TypeOK', OneWayInv(h), [Next]_vars PROVE OneWayInv(h)'
  OBVIOUS
<1>1. CASE UNCHANGED vars
  BY <1>1, SameOneWay DEF vars, nodeVars, histVars
<1>2. CASE Next
  <2>1. PICK n \in Node :
            \/ Encode(n) \/ EncodeFails(n) \/ WriteFails(n)
            \/ Sender(n) \/ Receive(n) \/ OnProto(n) \/ AckTimerExpires(n) \/ Idle(n)
            \/ FreeRecvProto(n) \/ Environment(n)
    BY <1>2 DEF Next
  <2>2. CASE FreeRecvProto(n) \/ Establish(n) \/ Confirm(n)
    BY <2>2, SameOneWay DEF FreeRecvProto, Establish, Confirm, histVars
  <2>3. ~Reboot(n)
    <3>1. boots \in 0 .. MaxReboots /\ MaxReboots = 0
      BY DEF TypeOK, OneWay
    <3> QED BY <3>1 DEF Reboot
  <2>4. CASE Encode(n) \/ EncodeFails(n) \/ WriteFails(n) \/ Sender(n)
    BY <2>4, EncodeOneWay, EncodeFailsOneWay, WriteFailsOneWay, CheckAckTimerOneWay,
       TransmitOneWay, AckReceivedOneWay, RetransmitTimeoutOneWay DEF Sender
  <2>5. CASE Receive(n) \/ OnProto(n) \/ AckTimerExpires(n) \/ Idle(n)
    BY <2>5, ReceiveOneWay, OnProtoOneWay, AckTimerExpiresOneWay, IdleOneWay
  <2>6. CASE Environment(n)
    BY <2>2, <2>3, <2>6, WireOneWay DEF Environment
  <2> QED BY <2>1, <2>2, <2>4, <2>5, <2>6
<1> QED BY <1>1, <1>2

\* No uc_send gives up when the peer has nothing to send itself, timers are timely,
\* nothing is encrypted, neither MCU reboots, and there are at most
\* (UC_RETRANSMIT_MAX_COUNT - 1) / 2 faults: for any number of messages, any pool and
\* however often the sequence numbers wrap.  The bound is tight: a damaged ACK that
\* stays in rd_enc_buffer spoils two attempts.
THEOREM FaultsSurvived ==
    ASSUME NEW h \in Node,
           Timely,
           MaxReboots = 0,
           MaxMsgs[Peer(h)] = 0,
           \A kind \in SendKinds : ~kind.secret,
           RetransmitMax > 2 * MaxFaults
    PROVE  Spec => []NoSendGivesUp
<1>0. OneWay(h)
  BY DEF OneWay
<1>1. Init => OneWayInv(h)
  BY InitOneWay
<1>2. TypeOK /\ TypeOK' /\ OneWayInv(h) /\ [Next]_vars => OneWayInv(h)'
  BY <1>0, NextOneWay
<1>3. OneWayInv(h) => NoSendGivesUp
  BY DEF OneWayInv
<1> QED BY <1>1, <1>2, <1>3, TypeCorrect, PTL DEF Spec
==============================================================================
