---------------------------------- MODULE Uc ----------------------------------
(***************************************************************************)
(* The UC transport (firmware/lib/uc): reliable delivery of protobufs      *)
(* between the two MCUs of a W3 device, the Core (host) and the UXC        *)
(* (device), over a UART with COBS framing.                                *)
(*                                                                         *)
(* On each MCU three kinds of thread touch the UC state: any number of     *)
(* tasks that call uc_send (serialised by wr_mutex for the whole send, the *)
(* wait for the ACK included), one USART task that decodes received bytes  *)
(* and sends pure ACKs from uc_idle, and the timer task that fires the ACK *)
(* timer.  An action is what one thread does between two points where      *)
(* another can interfere.                                                  *)
(*                                                                         *)
(* A message is its number (1, 2, ... in the order in which its sender     *)
(* took wr_mutex); a frame keeps the header fields the receiver looks at.  *)
(***************************************************************************)
EXTENDS Integers, Sequences

CONSTANTS
    Host,           \* the Core MCU
    Device,         \* the UXC MCU
    MaxSeq,         \* largest sequence number, 255: 0 is skipped on wrap
    RetransmitMax,  \* UC_RETRANSMIT_MAX_COUNT
    PoolSize,       \* UC_MSG_MAX_NUM, receive buffers
    Production,     \* security_config_is_production()
    Timely          \* TRUE: a retransmit timer fires only when the peer and the
                    \* link have done all they can, the timing that
                    \* UC_RETRANSMIT_TIMEOUT_MS > UC_ACK_TIMEOUT_MS is for

\* Bounds on what the environment does.
CONSTANTS
    MaxMsgs,        \* MaxMsgs[n]: messages the tasks of n send
    SendKinds,      \* the [imm, secret] combinations that the tasks send
    MaxFaults,      \* frames lost or damaged, encodings and writes that fail
    MaxReboots,     \* reboots of either MCU
    MaxSessions     \* secure channel sessions confirmed by the host

Node == {Host, Device}

Peer(n) == IF n = Host THEN Device ELSE Host

ASSUME NodeAssumption == Host # Device

ASSUME CodeConstants ==
    /\ MaxSeq \in Nat /\ MaxSeq > 1
    /\ RetransmitMax \in Nat /\ RetransmitMax > 0
    /\ PoolSize \in Nat /\ PoolSize > 0
    /\ Production \in BOOLEAN
    /\ Timely \in BOOLEAN

ASSUME Bounds ==
    /\ MaxMsgs \in [Node -> Nat]
    /\ SendKinds \subseteq [imm : BOOLEAN, secret : BOOLEAN]
    /\ MaxFaults \in Nat /\ MaxReboots \in Nat /\ MaxSessions \in Nat

VARIABLES
    sendSeq,    \* send_seq_num
    recvSeq,    \* recv_seq_num
    sentFirst,  \* sent_first_msg
    events,     \* ack_events, of which the code sets ACK and ACK_TIMER
    ackTimer,   \* ack_timer is running
    wr,         \* the send that holds wr_mutex, or IdleWr
    rx,         \* the proto that the USART task holds in _uc_on_proto, or 0
    held,       \* receive buffers taken from recv_sem
    rdStale,    \* rd_enc_buffer still holds a frame that failed: rd_index # 0
    sess,       \* secure_channel_uart.c: session key and counters
    link        \* link[n]: frames on the wire to n, oldest first

\* What happened so far, read by no action of the code.
VARIABLES
    sent,       \* messages handed to uc_send, by number
    result,     \* result[n]: what uc_send returned for each of them
    delivered,  \* delivered[n]: messages routed to the tasks of n, in order
    rejected,   \* rejected[n]: messages whose protobuf n could not decode
    wrapped,    \* send_seq_num went past MaxSeq
    faults,
    boots,
    sessions

nodeVars == <<sendSeq, recvSeq, sentFirst, events, ackTimer, wr, rx, held,
              rdStale, sess>>
histVars == <<sent, result, delivered, rejected, wrapped, faults, boots,
              sessions>>
vars == <<nodeVars, link, histVars>>

-----------------------------------------------------------------------------
Seqs == 0 .. MaxSeq

\* enc is <<0, 0>> for plaintext, else the session and the crypto counter that
\* the ciphertext was made with; id is 0 for a pure ACK.
Frame == [seq : Seqs, ack : Seqs, first : BOOLEAN, imm : BOOLEAN,
          enc : Nat \X Nat, id : Nat]

Plain == <<0, 0>>

PureAck(s, a) == [seq |-> s, ack |-> a, first |-> FALSE, imm |-> FALSE,
                  enc |-> Plain, id |-> 0]

IdleWr == [pc |-> "idle", frame |-> PureAck(0, 0), retry |-> 0,
           stop |-> FALSE, hold |-> 0]

Wr == [pc : {"idle", "encoded", "write", "wait"}, frame : Frame,
       retry : 0 .. RetransmitMax, stop : BOOLEAN, hold : {0, 1}]

NoSession == [key |-> 0, last |-> 0, send |-> 0, recv |-> 0]

Session == [key : Nat, last : Nat, send : Nat, recv : Nat]

Results == {"none", "ok", "failed", "max_retransmits"}

\* The uint8_t increment, repeated when it wraps to 0.
NextSeq(s) == IF s = MaxSeq THEN 1 ELSE s + 1

\* uc_init_mode: what every boot of an MCU starts from.
Init ==
    /\ sendSeq = [n \in Node |-> 0]
    /\ recvSeq = [n \in Node |-> 0]
    /\ sentFirst = [n \in Node |-> FALSE]
    /\ events = [n \in Node |-> {}]
    /\ ackTimer = [n \in Node |-> FALSE]
    /\ wr = [n \in Node |-> IdleWr]
    /\ rx = [n \in Node |-> 0]
    /\ held = [n \in Node |-> 0]
    /\ rdStale = [n \in Node |-> FALSE]
    /\ sess = [n \in Node |-> NoSession]
    /\ link = [n \in Node |-> << >>]
    /\ sent = [n \in Node |-> 0]
    /\ result = [n \in Node |-> [i \in 1 .. MaxMsgs[n] |-> "none"]]
    /\ delivered = [n \in Node |-> << >>]
    /\ rejected = [n \in Node |-> {}]
    /\ wrapped = [n \in Node |-> FALSE]
    /\ faults = 0
    /\ boots = 0
    /\ sessions = 0

-----------------------------------------------------------------------------
(* Sending: uc_send and uc_send_immediate, in the thread of a task.        *)

BumpSeq(n) ==
    /\ sendSeq' = [sendSeq EXCEPT ![n] = NextSeq(@)]
    /\ wrapped' = [wrapped EXCEPT ![n] = @ \/ sendSeq[n] = MaxSeq]

Finish(n, outcome) ==
    /\ wr' = [wr EXCEPT ![n] = IdleWr]
    /\ result' = [result EXCEPT ![n][wr[n].frame.id] = outcome]

Fault ==
    /\ faults < MaxFaults
    /\ faults' = faults + 1

\* _uc_should_encrypt and a session, or a production device.
Encrypts(n, kind) == kind.secret /\ (sess[n].key # 0 \/ Production)

\* gcm_encrypt refuses without a confirmed session.
EncryptFails(n, kind) == Encrypts(n, kind) /\ sess[n].key = 0

\* get_send_seq is taken before gcm_encrypt can fail.
TakeCryptoSeq(n, kind) ==
    sess' = IF Encrypts(n, kind) THEN [sess EXCEPT ![n].send = @ + 1] ELSE sess

EncodedFrame(n, kind) ==
    [seq   |-> NextSeq(sendSeq[n]),
     ack   |-> recvSeq[n],
     first |-> ~sentFirst[n],
     imm   |-> kind.imm,
     enc   |-> IF Encrypts(n, kind) THEN <<sess[n].key, sess[n].send + 1>>
                                    ELSE Plain,
     id    |-> sent[n] + 1]

\* uc_encode up to the release of msg_mutex.  hold is 1 when the calling task
\* has not freed yet the received proto that it answers.
Encode(n) ==
    /\ wr[n].pc = "idle"
    /\ sent[n] < MaxMsgs[n]
    /\ \E kind \in SendKinds, hold \in {0, 1} :
        /\ hold <= held[n]
        /\ ~EncryptFails(n, kind)
        /\ wr' = [wr EXCEPT ![n] = [pc |-> "encoded", retry |-> 0, hold |-> hold,
                                    stop |-> FALSE, frame |-> EncodedFrame(n, kind)]]
        /\ TakeCryptoSeq(n, kind)
    /\ BumpSeq(n)
    /\ sentFirst' = [sentFirst EXCEPT ![n] = TRUE]
    /\ sent' = [sent EXCEPT ![n] = @ + 1]
    /\ UNCHANGED <<recvSeq, events, ackTimer, rx, held, rdStale, link, result,
                   delivered, rejected, faults, boots, sessions>>

\* The error returns of uc_encode after the sequence number was taken:
\* gcm_encrypt, or pb_encode and the COBS encoder, which fail as a fault, the
\* first before and the second after get_send_seq.
EncodeFails(n) ==
    /\ wr[n].pc = "idle"
    /\ sent[n] < MaxMsgs[n]
    /\ \E kind \in SendKinds :
        \/ EncryptFails(n, kind) /\ TakeCryptoSeq(n, kind) /\ UNCHANGED faults
        \/ Fault /\ (TakeCryptoSeq(n, kind) \/ UNCHANGED sess)
    /\ BumpSeq(n)
    /\ sentFirst' = [sentFirst EXCEPT ![n] = TRUE]
    /\ sent' = [sent EXCEPT ![n] = @ + 1]
    /\ result' = [result EXCEPT ![n][sent[n] + 1] = "failed"]
    /\ UNCHANGED <<recvSeq, events, ackTimer, wr, rx, held, rdStale, link,
                   delivered, rejected, boots, sessions>>

\* "If the ACK sequence number is still the same": the test, which another
\* thread may outdate before the timer is stopped.
CheckAckTimer(n) ==
    /\ wr[n].pc = "encoded"
    /\ wr' = [wr EXCEPT ![n].pc = "write",
                        ![n].stop = recvSeq[n] = wr[n].frame.ack]
    /\ UNCHANGED <<sendSeq, recvSeq, sentFirst, events, ackTimer, rx, held,
                   rdStale, sess, link, histVars>>

\* Stop the timer (first pass only), clear the events, write the frame.
Transmit(n) ==
    /\ wr[n].pc = "write"
    /\ ackTimer' = [ackTimer EXCEPT ![n] = @ /\ ~wr[n].stop]
    /\ events' = [events EXCEPT ![n] = @ \ {"ACK"}]
    /\ link' = [link EXCEPT ![Peer(n)] = Append(@, wr[n].frame)]
    /\ wr' = [wr EXCEPT ![n].pc = "wait", ![n].stop = FALSE]
    /\ UNCHANGED <<sendSeq, recvSeq, sentFirst, rx, held, rdStale, sess, histVars>>

\* send_cb returns 0: UC_ERR_WR_FAILED.
WriteFails(n) ==
    /\ wr[n].pc = "write"
    /\ Fault
    /\ ackTimer' = [ackTimer EXCEPT ![n] = @ /\ ~wr[n].stop]
    /\ events' = [events EXCEPT ![n] = @ \ {"ACK"}]
    /\ Finish(n, "failed")
    /\ UNCHANGED <<sendSeq, recvSeq, sentFirst, rx, held, rdStale, sess, link,
                   sent, delivered, rejected, wrapped, boots, sessions>>

\* rtos_event_group_wait_bits returns with UC_EVENT_ACK, which it clears.
AckReceived(n) ==
    /\ wr[n].pc = "wait"
    /\ "ACK" \in events[n]
    /\ events' = [events EXCEPT ![n] = @ \ {"ACK"}]
    /\ Finish(n, "ok")
    /\ UNCHANGED <<sendSeq, recvSeq, sentFirst, ackTimer, rx, held, rdStale, sess,
                   link, sent, delivered, rejected, wrapped, faults, boots, sessions>>

\* Nothing but retransmit timers is due at either end.
Quiet ==
    \A n \in Node :
        /\ link[n] = << >>
        /\ rx[n] = 0
        /\ ~ackTimer[n]
        /\ wr[n].pc \in {"idle", "wait"}
        /\ "ACK_TIMER" \in events[n] => wr[n].pc # "idle"
        /\ wr[n].pc = "wait" => "ACK" \notin events[n]

\* Mutant: the send never gives up, and keeps wr_mutex.
RetransmitTimeoutForever(n) ==
    /\ wr[n].pc = "wait"
    /\ "ACK" \notin events[n]
    /\ Timely => Quiet
    /\ wr[n].retry + 1 < RetransmitMax
    /\ wr' = [wr EXCEPT ![n].pc = "write", ![n].retry = @ + 1]
    /\ UNCHANGED <<sendSeq, recvSeq, sentFirst, events, ackTimer, rx, held, rdStale,
                   sess, link, histVars>>

\* UC_RETRANSMIT_TIMEOUT_MS without an ACK: the same bytes again, with the
\* ack_seq_num they were encoded with, or UC_ERR_MAX_RETRANSMITS.
RetransmitTimeout(n) ==
    /\ wr[n].pc = "wait"
    /\ "ACK" \notin events[n]
    /\ Timely => Quiet
    /\ \/ /\ wr[n].retry + 1 < RetransmitMax
          /\ wr' = [wr EXCEPT ![n].pc = "write", ![n].retry = @ + 1]
          /\ UNCHANGED result
       \/ /\ wr[n].retry + 1 >= RetransmitMax
          /\ Finish(n, "max_retransmits")
    /\ UNCHANGED <<sendSeq, recvSeq, sentFirst, events, ackTimer, rx, held, rdStale,
                   sess, link, sent, delivered, rejected, wrapped, faults, boots,
                   sessions>>

-----------------------------------------------------------------------------
(* Pure ACKs: the timer task and uc_idle in the USART task.                *)

\* Mutant: the timer callback does not set the event.
AckTimerExpiresSilently(n) ==
    /\ ackTimer[n]
    /\ ackTimer' = [ackTimer EXCEPT ![n] = FALSE]
    /\ UNCHANGED <<sendSeq, recvSeq, sentFirst, events, wr, rx, held, rdStale, sess,
                   link, histVars>>

AckTimerExpires(n) ==
    /\ ackTimer[n]
    /\ ackTimer' = [ackTimer EXCEPT ![n] = FALSE]
    /\ events' = [events EXCEPT ![n] = @ \cup {"ACK_TIMER"}]
    /\ UNCHANGED <<sendSeq, recvSeq, sentFirst, wr, rx, held, rdStale, sess, link,
                   histVars>>

\* Mutant: the ACK is sent only while the timer still runs.
IdleBeforeExpiry(n) ==
    /\ rx[n] = 0
    /\ ackTimer[n]
    /\ wr[n].pc = "idle"
    /\ events' = [events EXCEPT ![n] = @ \ {"ACK_TIMER"}]
    /\ BumpSeq(n)
    /\ ackTimer' = [ackTimer EXCEPT ![n] = FALSE]
    /\ link' = [link EXCEPT ![Peer(n)] =
                    Append(@, PureAck(NextSeq(sendSeq[n]), recvSeq[n]))]
    /\ UNCHANGED <<recvSeq, sentFirst, wr, rx, held, rdStale, sess, sent, result,
                   delivered, rejected, faults, boots, sessions>>

\* uc_idle: _uc_ack_with_timeout(0) gives up at once when a send holds
\* wr_mutex, and the event stays set for a later pass.
Idle(n) ==
    /\ rx[n] = 0
    /\ "ACK_TIMER" \in events[n]
    /\ wr[n].pc = "idle"
    /\ events' = [events EXCEPT ![n] = @ \ {"ACK_TIMER"}]
    /\ BumpSeq(n)
    /\ ackTimer' = [ackTimer EXCEPT ![n] = FALSE]
    /\ link' = [link EXCEPT ![Peer(n)] =
                    Append(@, PureAck(NextSeq(sendSeq[n]), recvSeq[n]))]
    /\ UNCHANGED <<recvSeq, sentFirst, wr, rx, held, rdStale, sess, sent, result,
                   delivered, rejected, faults, boots, sessions>>

-----------------------------------------------------------------------------
(* Receiving: uc_decode and uc_process_msg in the USART task.              *)

Consume(n) == link' = [link EXCEPT ![n] = Tail(@)]

\* Mutant: any ACK ends the wait.
AckEventsUnchecked(n, f) == events[n] \cup {"ACK"}

\* The ACK that every frame carries, compared with the last number sent.
AckEvents(n, f) ==
    events[n] \cup (IF f.ack >= sendSeq[n] THEN {"ACK"} ELSE {})

Readable(n, f) == f.enc = Plain \/ (sess[n].key # 0 /\ f.enc[1] = sess[n].key)

\* Mutant: the last counter is accepted again.
FreshOrLast(n, f) == f.enc = Plain \/ f.enc[2] >= sess[n].recv

\* check_recv_seq of secure_channel_uart.c.
Fresh(n, f) == f.enc = Plain \/ f.enc[2] > sess[n].recv

NoteCryptoSeq(n, f) ==
    sess' = IF f.enc = Plain THEN sess ELSE [sess EXCEPT ![n].recv = f.enc[2]]

\* recv_seq_num as the frame finds it: a first message resets it.
BaseSeq(n, f) == IF f.first /\ f.seq = 1 THEN 0 ELSE recvSeq[n]

\* Mutant: duplicates are not recognised.
IsNewUnchecked(n, f) == f.id # 0

IsNew(n, f) == f.id # 0 /\ BaseSeq(n, f) # f.seq

\* The frame is glued to the stale one: COBS decoding fails, both are cleared.
ReceiveGlued(n) ==
    /\ rdStale[n]
    /\ rdStale' = [rdStale EXCEPT ![n] = FALSE]
    /\ UNCHANGED <<sendSeq, recvSeq, sentFirst, events, ackTimer, wr, rx, held,
                   sess, histVars>>

\* UC_ERR_DECRYPT_FAILED leaves rd_index where it is.
ReceiveUnreadable(n, f) ==
    /\ ~rdStale[n]
    /\ ~Readable(n, f)
    /\ events' = [events EXCEPT ![n] = AckEvents(n, f)]
    /\ rdStale' = [rdStale EXCEPT ![n] = TRUE]
    /\ UNCHANGED <<sendSeq, recvSeq, sentFirst, ackTimer, wr, rx, held, sess,
                   histVars>>

\* "Replay drop": the crypto counter was seen, the frame is acknowledged again.
ReceiveReplay(n, f) ==
    /\ ~rdStale[n]
    /\ Readable(n, f)
    /\ ~Fresh(n, f)
    /\ events' = [events EXCEPT ![n] = AckEvents(n, f) \cup
                                       (IF f.imm THEN {"ACK_TIMER"} ELSE {})]
    /\ ackTimer' = [ackTimer EXCEPT ![n] = IF f.imm THEN @ ELSE TRUE]
    /\ UNCHANGED <<sendSeq, recvSeq, sentFirst, wr, rx, held, rdStale, sess,
                   histVars>>

\* A message with another sequence number than the last one: an ACK is owed, and
\* it goes to _uc_on_proto, or is lost when its protobuf does not decode.
ReceiveNew(n, f) ==
    /\ ~rdStale[n]
    /\ Readable(n, f)
    /\ Fresh(n, f)
    /\ IsNew(n, f)
    /\ NoteCryptoSeq(n, f)
    /\ recvSeq' = [recvSeq EXCEPT ![n] = f.seq]
    /\ events' = [events EXCEPT ![n] = AckEvents(n, f) \cup
                                       (IF f.imm THEN {"ACK_TIMER"} ELSE {})]
    /\ ackTimer' = [ackTimer EXCEPT ![n] = ~f.imm]
    /\ \/ /\ rx' = [rx EXCEPT ![n] = f.id]
          /\ UNCHANGED <<rdStale, rejected, faults>>
       \/ /\ Fault
          /\ rejected' = [rejected EXCEPT ![n] = @ \cup {f.id}]
          /\ rdStale' = [rdStale EXCEPT ![n] = TRUE]
          /\ UNCHANGED rx
    /\ UNCHANGED <<sendSeq, sentFirst, wr, held, sent, result, delivered, wrapped,
                   boots, sessions>>

\* A duplicate, which is acknowledged again, or a pure ACK.
ReceiveOther(n, f) ==
    /\ ~rdStale[n]
    /\ Readable(n, f)
    /\ Fresh(n, f)
    /\ ~IsNew(n, f)
    /\ NoteCryptoSeq(n, f)
    /\ recvSeq' = [recvSeq EXCEPT ![n] = BaseSeq(n, f)]
    /\ events' = [events EXCEPT ![n] = AckEvents(n, f) \cup
                                       (IF f.id # 0 THEN {"ACK_TIMER"} ELSE {})]
    /\ UNCHANGED <<sendSeq, sentFirst, ackTimer, wr, rx, held, rdStale, histVars>>

\* uc_decode on a whole frame, when the USART task is not inside _uc_on_proto.
Receive(n) ==
    /\ rx[n] = 0
    /\ link[n] # << >>
    /\ Consume(n)
    /\ LET f == Head(link[n]) IN
        \/ ReceiveGlued(n)
        \/ ReceiveUnreadable(n, f)
        \/ ReceiveReplay(n, f)
        \/ ReceiveNew(n, f)
        \/ ReceiveOther(n, f)

\* Mutant: recv_sem is not waited for.
OnProtoUnchecked(n) ==
    /\ rx[n] # 0
    /\ held' = [held EXCEPT ![n] = @ + 1]
    /\ delivered' = [delivered EXCEPT ![n] = Append(@, rx[n])]
    /\ rx' = [rx EXCEPT ![n] = 0]
    /\ UNCHANGED <<sendSeq, recvSeq, sentFirst, events, ackTimer, wr, rdStale, sess,
                   link, sent, result, rejected, wrapped, faults, boots, sessions>>

\* Mutant: without a free buffer the message is dropped.
OnProtoDrops(n) ==
    /\ rx[n] # 0
    /\ rx' = [rx EXCEPT ![n] = 0]
    /\ IF held[n] < PoolSize
       THEN /\ held' = [held EXCEPT ![n] = @ + 1]
            /\ delivered' = [delivered EXCEPT ![n] = Append(@, rx[n])]
       ELSE UNCHANGED <<held, delivered>>
    /\ UNCHANGED <<sendSeq, recvSeq, sentFirst, events, ackTimer, wr, rdStale, sess,
                   link, sent, result, rejected, wrapped, faults, boots, sessions>>

\* _uc_on_proto: take a receive buffer, copy, route.
OnProto(n) ==
    /\ rx[n] # 0
    /\ held[n] < PoolSize
    /\ held' = [held EXCEPT ![n] = @ + 1]
    /\ delivered' = [delivered EXCEPT ![n] = Append(@, rx[n])]
    /\ rx' = [rx EXCEPT ![n] = 0]
    /\ UNCHANGED <<sendSeq, recvSeq, sentFirst, events, ackTimer, wr, rdStale, sess,
                   link, sent, result, rejected, wrapped, faults, boots, sessions>>

\* uc_free_recv_proto by a task, not by the one that is inside uc_send.
FreeRecvProto(n) ==
    /\ held[n] > wr[n].hold
    /\ held' = [held EXCEPT ![n] = @ - 1]
    /\ UNCHANGED <<sendSeq, recvSeq, sentFirst, events, ackTimer, wr, rx, rdStale,
                   sess, link, histVars>>

-----------------------------------------------------------------------------
(* The environment: the wire, the secure channel, reboots.                 *)

Lose(n) ==
    /\ link[n] # << >>
    /\ Fault
    /\ Consume(n)
    /\ UNCHANGED <<nodeVars, sent, result, delivered, rejected, wrapped, boots,
                   sessions>>

\* Damaged bytes: COBS decoding fails and the buffer is cleared, or it succeeds
\* and the size or CRC check fails, which leaves the frame in the buffer.
Corrupt(n) ==
    /\ rx[n] = 0
    /\ link[n] # << >>
    /\ Fault
    /\ Consume(n)
    /\ \E stale \in {FALSE, ~rdStale[n]} : rdStale' = [rdStale EXCEPT ![n] = stale]
    /\ UNCHANGED <<sendSeq, recvSeq, sentFirst, events, ackTimer, wr, rx, held, sess,
                   sent, result, delivered, rejected, wrapped, boots, sessions>>

\* secure_uart_channel_establish, and secure_uart_channel_reset_session: the session
\* stops being confirmed.
Establish(n) ==
    /\ sess[n].key # 0
    /\ sess' = [sess EXCEPT ![n].key = 0]
    /\ UNCHANGED <<sendSeq, recvSeq, sentFirst, events, ackTimer, wr, rx, held,
                   rdStale, link, histVars>>

\* secure_uart_channel_confirm_session.  Keys are ephemeral: the host confirms
\* one never used before, the device one that the host confirmed since.
Confirm(n) ==
    /\ sess[n].key = 0
    /\ \/ /\ n = Host
          /\ sessions < MaxSessions
          /\ sessions' = sessions + 1
          /\ sess' = [sess EXCEPT ![n] = [key |-> sessions + 1, last |-> sessions + 1,
                                          send |-> 0, recv |-> 0]]
       \/ /\ n = Device
          /\ \E k \in sess[n].last + 1 .. sessions :
                sess' = [sess EXCEPT ![n] = [key |-> k, last |-> k,
                                             send |-> 0, recv |-> 0]]
          /\ UNCHANGED sessions
    /\ UNCHANGED <<sendSeq, recvSeq, sentFirst, events, ackTimer, wr, rx, held,
                   rdStale, link, sent, result, delivered, rejected, wrapped, faults,
                   boots>>

\* An MCU restarts: its UC state is that of uc_init_mode, the send in progress
\* is gone, and of the frames on the way to it the oldest ones are lost.
Reboot(n) ==
    /\ boots < MaxReboots
    /\ boots' = boots + 1
    /\ sendSeq' = [sendSeq EXCEPT ![n] = 0]
    /\ recvSeq' = [recvSeq EXCEPT ![n] = 0]
    /\ sentFirst' = [sentFirst EXCEPT ![n] = FALSE]
    /\ events' = [events EXCEPT ![n] = {}]
    /\ ackTimer' = [ackTimer EXCEPT ![n] = FALSE]
    /\ wr' = [wr EXCEPT ![n] = IdleWr]
    /\ result' = IF wr[n].pc = "idle" THEN result
                 ELSE [result EXCEPT ![n][wr[n].frame.id] = "failed"]
    /\ rx' = [rx EXCEPT ![n] = 0]
    /\ held' = [held EXCEPT ![n] = 0]
    /\ rdStale' = [rdStale EXCEPT ![n] = FALSE]
    /\ sess' = [sess EXCEPT ![n] = [NoSession EXCEPT !.last = sess[n].last]]
    /\ \E k \in 0 .. Len(link[n]) :
        link' = [link EXCEPT ![n] = SubSeq(@, k + 1, Len(@))]
    /\ UNCHANGED <<sent, delivered, rejected, wrapped, faults, sessions>>

-----------------------------------------------------------------------------
Sender(n) ==
    CheckAckTimer(n) \/ Transmit(n) \/ AckReceived(n) \/ RetransmitTimeout(n)

Environment(n) ==
    \/ Lose(n) \/ Corrupt(n) \/ Establish(n) \/ Confirm(n) \/ Reboot(n)

Next ==
    \E n \in Node :
        \/ Encode(n) \/ EncodeFails(n) \/ WriteFails(n)
        \/ Sender(n) \/ Receive(n) \/ OnProto(n) \/ AckTimerExpires(n) \/ Idle(n)
        \/ FreeRecvProto(n) \/ Environment(n)

Spec == Init /\ [][Next]_vars

\* Every thread of an MCU keeps running: the task inside uc_send, the USART task,
\* the timer task, and the tasks that free what they received.
Fairness ==
    \A n \in Node :
        /\ WF_vars(Sender(n))
        /\ WF_vars(Receive(n) \/ OnProto(n))
        /\ WF_vars(Idle(n))
        /\ WF_vars(AckTimerExpires(n))
        /\ WF_vars(FreeRecvProto(n))

FairSpec == Spec /\ Fairness

-----------------------------------------------------------------------------
(* Properties.                                                             *)

TypeOK ==
    /\ sendSeq \in [Node -> Seqs]
    /\ recvSeq \in [Node -> Seqs]
    /\ sentFirst \in [Node -> BOOLEAN]
    /\ events \in [Node -> SUBSET {"ACK", "ACK_TIMER"}]
    /\ ackTimer \in [Node -> BOOLEAN]
    /\ wr \in [Node -> Wr]
    /\ rx \in [Node -> Nat]
    /\ held \in [Node -> 0 .. PoolSize]
    /\ rdStale \in [Node -> BOOLEAN]
    /\ sess \in [Node -> Session]
    /\ link \in [Node -> Seq(Frame)]
    /\ sent \in [Node -> Nat]
    /\ \A n \in Node : sent[n] <= MaxMsgs[n]
    /\ \A n \in Node : result[n] \in [1 .. MaxMsgs[n] -> Results]
    /\ result = [n \in Node |-> result[n]]
    /\ delivered \in [Node -> Seq(Nat)]
    /\ rejected \in [Node -> SUBSET Nat]
    /\ wrapped \in [Node -> BOOLEAN]
    /\ faults \in 0 .. MaxFaults
    /\ boots \in 0 .. MaxReboots
    /\ sessions \in 0 .. MaxSessions

\* Messages reach the tasks of an MCU in the order in which its peer's tasks
\* took wr_mutex, whatever is lost, damaged, retransmitted or rebooted; and while
\* neither MCU reboots no message but the very first is delivered twice.
OrderedOnce ==
    \A n \in Node : \A i, j \in 1 .. Len(delivered[n]) :
        i < j => \/ delivered[n][i] < delivered[n][j]
                 \/ /\ delivered[n][i] = delivered[n][j]
                    /\ boots > 0 \/ delivered[n][i] = 1

\* Where everything is encrypted no message at all is delivered twice, not even
\* when an MCU reboots or the session is replaced: the crypto counter of the
\* session tells a retransmission, and its key an older session.
SecretOnce ==
    Production /\ (\A kind \in SendKinds : kind.secret) =>
        \A n \in Node : \A i, j \in 1 .. Len(delivered[n]) :
            i < j => delivered[n][i] < delivered[n][j]

\* What n has taken from the wire and acknowledged.
Received(n) ==
    {delivered[n][i] : i \in 1 .. Len(delivered[n])} \cup rejected[n] \cup {rx[n]}

\* uc_send returns true only for a message the peer received, as long as no MCU
\* rebooted and the sequence numbers did not wrap.
SuccessMeansReceived ==
    boots = 0 =>
        \A n \in Node : ~wrapped[n] =>
            \A i \in 1 .. sent[n] :
                result[n][i] = "ok" => i \in Received(Peer(n))

\* Every uc_send returns, after UC_RETRANSMIT_MAX_COUNT timeouts at the latest.
SendReturns == \A n \in Node : wr[n].pc # "idle" ~> wr[n].pc = "idle"

\* The USART task gets out of _uc_on_proto although every receive buffer may be
\* held by a task that waits in uc_send for an ACK only the USART task can see.
ReceiverUnblocks == \A n \in Node : rx[n] # 0 ~> rx[n] = 0

\* An ACK that is due is sent, with a pure ACK at the latest when wr_mutex is free.
AckIsSent ==
    \A n \in Node : "ACK_TIMER" \in events[n] ~> "ACK_TIMER" \notin events[n]

\* No uc_send returns UC_ERR_MAX_RETRANSMITS.  One fault can spoil two attempts (a
\* damaged frame that stays in rd_enc_buffer takes the next one with it), so the
\* UC_RETRANSMIT_MAX_COUNT = 3 attempts get over one fault, if timers are timely
\* and messages do not cross.
NoSendGivesUp ==
    \A n \in Node : \A i \in 1 .. MaxMsgs[n] : result[n][i] # "max_retransmits"

-----------------------------------------------------------------------------
(* What the documentation of the library says and the code does not do.    *)

\* README: a message with the sequence number of the last one is dropped
\* "(assumed to already have received it)".
DroppedWasReceived ==
    \A n \in Node :
        /\ rx[n] = 0 /\ link[n] # << >> /\ ~rdStale[n]
        /\ Head(link[n]).id # 0
        /\ Readable(n, Head(link[n])) /\ Fresh(n, Head(link[n]))
        /\ ~IsNew(n, Head(link[n]))
        => Head(link[n]).id \in Received(n)
==============================================================================
