---------------------------- MODULE WcaProofs ----------------------------
(***************************************************************************)
(* Theorems about the command transport over NFC, for any set of handlers, *)
(* any number of commands, any number of parts of a response and any size  *)
(* of the queues and of the pool.                                          *)
(***************************************************************************)
EXTENDS Wca, TLAPS, FiniteSetTheorems

NfcPcs == {"idle", "exchange", "route", "post", "wait", "check", "retire", "clear"}
TaskPcs == {"idle", "decoded", "busy", "send", "encode", "give", "done"}
Working == {"decoded", "busy", "send", "encode"}
Held(p) == task[p].pc # "idle"

\* The type invariant, by variable.
NfcType ==
    /\ nfc \in [pc : NfcPcs, seq : 0 .. MaxCommands, asm : {"none", "partial", "full"},
                to : Handlers \cup {"free"}]
    /\ nfc.pc = "post" => nfc.to \in Handlers
CurType == cur \in 0 .. MaxCommands
RspType == rsp \in [of : 0 .. MaxCommands, at : 1 .. Parts + 1, left : 0 .. Parts,
                    seq : 0 .. MaxCommands]
SemType == sem \in 0 .. 1
LockType == lock \in Producers \cup {"free"}
TaskType == task \in [Producers -> [pc : TaskPcs, seq : 0 .. MaxCommands]]
QueueType == queue \in [Handlers -> Seq(Seqs)]
UxcType == uxc \subseteq Seqs
ReaderType == reader \in [cmd : 0 .. MaxCommands, got : Seq(Seqs \X (1 .. Parts)),
                          more : BOOLEAN]
TypeInv ==
    /\ NfcType /\ CurType /\ RspType /\ SemType /\ LockType
    /\ TaskType /\ QueueType /\ UxcType /\ ReaderType

\* A command that is being put together is not counted yet; the parts of a
\* response that are left are the last ones.
Bounded ==
    /\ nfc.pc = "exchange" => nfc.seq < MaxCommands /\ nfc.asm = "full"
    /\ nfc.asm = "partial" => nfc.seq < MaxCommands /\ nfc.pc \in {"idle", "retire", "clear"}
    /\ rsp.left > 0 => rsp.at + rsp.left = Parts + 1

\* Commands are numbered in the order in which they arrive, and every number
\* anywhere is one of a command that has arrived.
Numbered ==
    /\ cur \in {0, nfc.seq} /\ rsp.seq <= nfc.seq
    /\ \A t \in Handlers : \A i \in DOMAIN queue[t] : queue[t][i] <= nfc.seq
    /\ \A s \in uxc : s <= nfc.seq
    /\ \A p \in Producers : Held(p) => task[p].seq \in 1 .. nfc.seq

\* A command is in one place only: in one queue, with one task or in the UXC.
QueuedOnce ==
    \A t, u \in Handlers : \A i \in DOMAIN queue[t], j \in DOMAIN queue[u] :
       queue[t][i] = queue[u][j] => t = u /\ i = j
QueuedOnly ==
    \A t \in Handlers : \A i \in DOMAIN queue[t] :
       /\ queue[t][i] \notin uxc
       /\ \A p \in Producers : Held(p) => task[p].seq # queue[t][i]
HeldOnce ==
    \A p, q \in Producers : Held(p) /\ Held(q) /\ task[p].seq = task[q].seq => p = q
HeldOnly == \A p \in Producers : Held(p) => task[p].seq \notin uxc
OnePlace == QueuedOnce /\ QueuedOnly /\ HeldOnce /\ HeldOnly

\* Nothing that could still answer the current command is in the device.
Unanswerable ==
    /\ \A t \in Handlers : \A i \in DOMAIN queue[t] : queue[t][i] # nfc.seq
    /\ nfc.seq \notin uxc
    /\ \A p \in Producers : task[p].pc \in Working => task[p].seq # nfc.seq

\* The current command is unanswerable before it is queued, when it was
\* answered, and when the reader is served again.
Closed ==
    /\ nfc.pc \in {"route", "post"} =>
          /\ Unanswerable /\ rsp.seq # nfc.seq
          /\ \A p \in Producers : Held(p) => task[p].seq # nfc.seq
    /\ nfc.pc \in {"idle", "exchange"} /\ cur = nfc.seq => Unanswerable
    /\ rsp.seq = nfc.seq => Unanswerable
    /\ nfc.pc = "clear" => cur = 0

\* Whoever has the lock of the response answers the current command, and the
\* NFC task does not leave its wait behind the back of the owner.
Locked ==
    /\ \A p \in Producers : task[p].pc \in {"encode", "give"} <=> lock = p
    /\ \A p \in Producers : lock = p =>
          task[p].seq = cur /\ nfc.pc \in {"wait", "check", "retire"}
    /\ \A p \in Producers : task[p].pc = "give" => rsp.seq = cur

\* What the semaphore announces is the whole response to the command of the
\* reader.
Answered ==
    /\ nfc.pc \in {"wait", "check"} /\ rsp.seq = nfc.seq =>
          rsp.of = nfc.seq /\ rsp.at = 1 /\ rsp.left = Parts
    /\ nfc.pc \in {"route", "post", "wait", "check"} => reader.cmd = nfc.seq /\ nfc.seq > 0

\* The parts the reader got are the first ones of the response in the context,
\* in their order.
Given ==
    /\ OwnResponse
    /\ nfc.pc \notin {"idle", "exchange"} => reader.got = <<>>
    /\ reader.got # <<>> =>
          /\ reader.cmd = rsp.of /\ rsp.of > 0
          /\ rsp.at = Len(reader.got) + 1 /\ rsp.left = Parts - Len(reader.got)
    /\ nfc.pc \in {"idle", "exchange"} /\ reader.got = <<>> => rsp.left = 0

SafeInv ==
    /\ TypeInv /\ Bounded /\ Numbered /\ OnePlace /\ Closed /\ Locked /\ Answered /\ Given

USE DEF At, Goto, Is, Becomes, Working, Held, Producers, Seqs

-----------------------------------------------------------------------------
LEMMA Constants ==
    /\ "usart" \notin Handlers /\ "free" \notin Producers
    /\ Parts \in Nat \ {0} /\ PoolSize \in Nat \ {0} /\ MaxCommands \in Nat \ {0}
    /\ QueueSize \in Nat \ {0}
BY ConstantsAssumption

LEMMA NobodyType == Nobody \in [cmd : 0 .. MaxCommands, got : Seq(Seqs \X (1 .. Parts)), more : BOOLEAN]
<1>1. <<>> \in Seq(Seqs \X (1 .. Parts))
  OBVIOUS
<1> QED BY <1>1, Constants DEF Nobody

LEMMA NobodyFields == Nobody.cmd = 0 /\ Nobody.got = <<>> /\ Nobody.more = FALSE
BY DEF Nobody

\* What the helpers of the actions do, field by field.
LEMMA Zeros == 1 \in 1 .. Parts + 1 /\ 0 \in 0 .. Parts /\ Parts \in 0 .. Parts /\ 0 \in 0 .. MaxCommands
BY Constants

\* What the helpers do to the fields they change.
LEMMA ClearFacts ==
    ASSUME TypeInv, clear_proto_rsp_ctx
    PROVE  /\ RspType' /\ SemType'
           /\ rsp'.of = rsp.of /\ rsp'.seq = rsp.seq /\ rsp'.at = 1 /\ rsp'.left = 0
<1>1. rsp' = [rsp EXCEPT !.at = 1, !.left = 0] /\ sem' = 0
  BY DEF clear_proto_rsp_ctx
<1>2. SemType'
  BY <1>1 DEF SemType
<1> QED BY <1>1, <1>2, Zeros DEF TypeInv, RspType

LEMMA NobodyReads ==
    ASSUME reader' = Nobody
    PROVE  ReaderType' /\ reader'.cmd = 0 /\ reader'.got = <<>> /\ reader'.more = FALSE
BY NobodyType, NobodyFields DEF ReaderType

LEMMA RespondFacts ==
    ASSUME NEW s \in 0 .. MaxCommands, Respond(s)
    PROVE  RspType' /\ rsp'.of = s /\ rsp'.seq = s /\ rsp'.at = 1 /\ rsp'.left = Parts
BY Zeros DEF RspType, Respond

LEMMA DrainFacts ==
    ASSUME TypeInv, Bounded, rsp.left > 0, rsp.of > 0, drain_response_buffer
    PROVE  /\ RspType' /\ ReaderType'
           /\ rsp'.of = rsp.of /\ rsp'.seq = rsp.seq
           /\ rsp'.at = rsp.at + 1 /\ rsp'.left = rsp.left - 1
           /\ reader'.cmd = reader.cmd /\ reader'.more = (rsp.left > 1)
           /\ reader'.got = Append(reader.got, <<rsp.of, rsp.at>>)
<1>1. /\ rsp.at + rsp.left = Parts + 1 /\ rsp.at \in Nat \ {0} /\ rsp.left \in Nat
      /\ rsp.of \in 1 .. MaxCommands
  BY Constants DEF TypeInv, RspType, Bounded
<1>2. RspType' /\ rsp'.of = rsp.of /\ rsp'.seq = rsp.seq
      /\ rsp'.at = rsp.at + 1 /\ rsp'.left = rsp.left - 1
  <2>1. rsp' = [rsp EXCEPT !.at = rsp.at + 1, !.left = rsp.left - 1]
    <3>1. rsp.left # 0
      BY <1>1
    <3>2. rsp' = [rsp EXCEPT !.at = IF rsp.left = 0 THEN @ ELSE @ + 1,
                             !.left = IF @ = 0 THEN 0 ELSE @ - 1]
      BY DEF drain_response_buffer
    <3> QED BY <3>1, <3>2 DEF TypeInv, RspType
  <2>2. rsp.at + 1 \in 1 .. Parts + 1 /\ rsp.left - 1 \in 0 .. Parts
    BY <1>1, Constants
  <2> QED BY <2>1, <2>2 DEF TypeInv, RspType
<1>3. reader' = [reader EXCEPT !.got = Append(reader.got, <<rsp.of, rsp.at>>), !.more = rsp.left > 1]
  <2>1. rsp.left # 0
    BY <1>1
  <2> QED BY <2>1 DEF drain_response_buffer
<1>4. <<rsp.of, rsp.at>> \in Seqs \X (1 .. Parts)
  BY <1>1, Constants
<1>5. Append(reader.got, <<rsp.of, rsp.at>>) \in Seq(Seqs \X (1 .. Parts))
  BY <1>4 DEF TypeInv, ReaderType
<1>6. (rsp.left > 1) \in BOOLEAN
  BY <1>1
<1> QED BY <1>2, <1>3, <1>5, <1>6 DEF TypeInv, ReaderType

\* The rest of a queue.
LEMMA Tailing ==
    ASSUME NEW S, NEW q \in Seq(S), q # <<>>
    PROVE  /\ Head(q) = q[1] /\ Head(q) \in S /\ 1 \in DOMAIN q
           /\ Tail(q) \in Seq(S) /\ DOMAIN Tail(q) = 1 .. Len(q) - 1
           /\ \A i \in DOMAIN Tail(q) : i + 1 \in DOMAIN q /\ Tail(q)[i] = q[i + 1]
<1>1. Len(q) \in Nat /\ Len(q) > 0 /\ DOMAIN q = 1 .. Len(q)
  OBVIOUS
<1>2. Tail(q) \in Seq(S) /\ Len(Tail(q)) = Len(q) - 1
  BY <1>1
<1>3. Head(q) = q[1] /\ Head(q) \in S /\ 1 \in DOMAIN q
  BY <1>1
<1>4. \A i \in 1 .. Len(q) - 1 : i + 1 \in DOMAIN q /\ Tail(q)[i] = q[i + 1]
  BY <1>1
<1>5. DOMAIN Tail(q) = 1 .. Len(q) - 1
  BY <1>2
<1> QED BY <1>2, <1>3, <1>4, <1>5

\* A step that moves no command.
LEMMA SamePlace ==
    ASSUME OnePlace, queue' = queue, uxc' = uxc,
           \A p \in Producers : Held(p)' => Held(p) /\ task'[p].seq = task[p].seq
    PROVE  OnePlace'
<1>1. QueuedOnce' /\ QueuedOnly'
  BY DEF OnePlace, QueuedOnce, QueuedOnly
<1>2. HeldOnce' /\ HeldOnly'
  BY DEF OnePlace, HeldOnce, HeldOnly
<1> QED BY <1>1, <1>2 DEF OnePlace

\* A step of one task.
LEMMA TaskFacts ==
    ASSUME TypeInv, NEW t \in Producers, NEW pc \in TaskPcs, NEW s \in 0 .. MaxCommands,
           \/ task' = [task EXCEPT ![t] = [pc |-> pc, seq |-> s]]
           \/ Becomes(t, pc) /\ s = task[t].seq
    PROVE  /\ TaskType' /\ task'[t].pc = pc /\ task'[t].seq = s
           /\ \A p \in Producers : p # t => task'[p] = task[p]
<1> DEFINE T == [pc : TaskPcs, seq : 0 .. MaxCommands]
<1>1. CASE task' = [task EXCEPT ![t] = [pc |-> pc, seq |-> s]]
  <2>1. [pc |-> pc, seq |-> s] \in T
    OBVIOUS
  <2> HIDE DEF T
  <2> QED BY <1>1, <2>1 DEF TypeInv, TaskType, T
<1>2. CASE Becomes(t, pc) /\ s = task[t].seq
  <2>1. task[t] \in T
    BY DEF TypeInv, TaskType
  <2>2. [task[t] EXCEPT !.pc = pc] \in T /\ [task[t] EXCEPT !.pc = pc].pc = pc
        /\ [task[t] EXCEPT !.pc = pc].seq = task[t].seq
    BY <2>1
  <2>3. task' = [task EXCEPT ![t] = [task[t] EXCEPT !.pc = pc]]
    BY <1>2
  <2> HIDE DEF T
  <2> QED BY <1>2, <2>2, <2>3 DEF TypeInv, TaskType, T
<1> QED BY <1>1, <1>2

-----------------------------------------------------------------------------
(* APDUs of the reader *)
LEMMA WcaProtoSafe == ASSUME SafeInv, wca_proto PROVE SafeInv'
<1>1. /\ nfc.pc = "idle" /\ nfc.seq < MaxCommands
      /\ NfcType' /\ nfc'.seq = nfc.seq
      /\ \/ nfc'.pc = "exchange" /\ nfc'.asm = "full"
         \/ nfc'.pc = "idle" /\ nfc'.asm = "partial"
      /\ RspType' /\ SemType' /\ rsp'.of = rsp.of /\ rsp'.seq = rsp.seq /\ rsp'.at = 1 /\ rsp'.left = 0
      /\ ReaderType' /\ reader'.cmd = 0 /\ reader'.got = <<>>
      /\ UNCHANGED <<cur, lock, task, queue, uxc>>
  BY ClearFacts, NobodyReads DEF SafeInv, TypeInv, NfcType, NfcPcs, wca_proto, tasks
<1>2. TypeInv'
  BY <1>1 DEF SafeInv, TypeInv, CurType, LockType, TaskType, QueueType, UxcType
<1>3. Bounded'
  BY <1>1, Constants DEF SafeInv, TypeInv, NfcType, RspType, Bounded
<1>4. Numbered'
  BY <1>1, Constants
     DEF SafeInv, TypeInv, NfcType, CurType, RspType, TaskType, QueueType, UxcType,
         Numbered
<1>5. OnePlace'
  BY <1>1, Constants
     DEF SafeInv, TypeInv, TaskType, QueueType, UxcType, OnePlace, QueuedOnce,
         QueuedOnly, HeldOnce, HeldOnly
<1>6. Closed'
  BY <1>1, Constants DEF SafeInv, TypeInv, Numbered, Closed, Unanswerable
<1>7. Locked'
  BY <1>1, Constants DEF SafeInv, TypeInv, LockType, Locked
<1>8. Answered'
  BY <1>1, Constants DEF SafeInv, TypeInv, Answered
<1>9. Given'
  BY <1>1, Constants DEF SafeInv, TypeInv, Given, OwnResponse
<1> QED BY <1>2, <1>3, <1>4, <1>5, <1>6, <1>7, <1>8, <1>9 DEF SafeInv

LEMMA WcaProtoContSafe == ASSUME SafeInv, wca_proto_cont PROVE SafeInv'
<1>1. /\ nfc.pc = "idle" /\ nfc.asm = "partial"
      /\ NfcType' /\ nfc'.seq = nfc.seq /\ nfc'.pc = "exchange" /\ nfc'.asm = "full"
      /\ UNCHANGED <<cur, rsp, sem, lock, reader, task, queue, uxc>>
  BY DEF SafeInv, TypeInv, NfcType, NfcPcs, wca_proto_cont, tasks
<1>2. TypeInv'
  BY <1>1
     DEF SafeInv, TypeInv, CurType, RspType, SemType, LockType, TaskType, QueueType,
         UxcType, ReaderType
<1>3. Bounded'
  BY <1>1, Constants DEF SafeInv, TypeInv, NfcType, RspType, Bounded
<1>4. Numbered'
  BY <1>1, Constants
     DEF SafeInv, TypeInv, NfcType, CurType, RspType, TaskType, QueueType, UxcType,
         Numbered
<1>5. OnePlace'
  BY <1>1, Constants
     DEF SafeInv, TypeInv, TaskType, QueueType, UxcType, OnePlace, QueuedOnce,
         QueuedOnly, HeldOnce, HeldOnly
<1>6. Closed'
  BY <1>1, Constants DEF SafeInv, TypeInv, Numbered, Closed, Unanswerable
<1>7. Locked'
  BY <1>1, Constants DEF SafeInv, TypeInv, LockType, Locked
<1>8. Answered'
  BY <1>1, Constants DEF SafeInv, TypeInv, Answered
<1>9. Given'
  BY <1>1, Constants DEF SafeInv, TypeInv, Given, OwnResponse
<1> QED BY <1>2, <1>3, <1>4, <1>5, <1>6, <1>7, <1>8, <1>9 DEF SafeInv

LEMMA MalformedSafe == ASSUME SafeInv, Malformed PROVE SafeInv'
<1>1. /\ nfc.pc = "idle"
      /\ NfcType' /\ nfc'.seq = nfc.seq /\ nfc'.pc = "idle" /\ nfc'.asm = "none"
      /\ RspType' /\ SemType' /\ rsp'.of = rsp.of /\ rsp'.seq = rsp.seq /\ rsp'.at = 1 /\ rsp'.left = 0
      /\ ReaderType' /\ reader'.cmd = 0 /\ reader'.got = <<>>
      /\ UNCHANGED <<cur, lock, task, queue, uxc>>
  BY ClearFacts, NobodyReads DEF SafeInv, TypeInv, NfcType, NfcPcs, Malformed, tasks
<1>2. TypeInv'
  BY <1>1 DEF SafeInv, TypeInv, CurType, LockType, TaskType, QueueType, UxcType
<1>3. Bounded'
  BY <1>1, Constants DEF SafeInv, TypeInv, NfcType, RspType, Bounded
<1>4. Numbered'
  BY <1>1, Constants
     DEF SafeInv, TypeInv, NfcType, CurType, RspType, TaskType, QueueType, UxcType,
         Numbered
<1>5. OnePlace'
  BY <1>1, Constants
     DEF SafeInv, TypeInv, TaskType, QueueType, UxcType, OnePlace, QueuedOnce,
         QueuedOnly, HeldOnce, HeldOnly
<1>6. Closed'
  BY <1>1, Constants DEF SafeInv, TypeInv, Numbered, Closed, Unanswerable
<1>7. Locked'
  BY <1>1, Constants DEF SafeInv, TypeInv, LockType, Locked
<1>8. Answered'
  BY <1>1, Constants DEF SafeInv, TypeInv, Answered
<1>9. Given'
  BY <1>1, Constants DEF SafeInv, TypeInv, Given, OwnResponse
<1> QED BY <1>2, <1>3, <1>4, <1>5, <1>6, <1>7, <1>8, <1>9 DEF SafeInv

LEMMA WcaGetResponseSafe == ASSUME SafeInv, wca_get_response PROVE SafeInv'
<1>1. CASE rsp.left = 0
  <2>1. /\ nfc.pc = "idle"
        /\ NfcType' /\ nfc'.seq = nfc.seq /\ nfc'.pc = "idle" /\ nfc'.asm = "none"
        /\ RspType' /\ SemType' /\ rsp'.of = rsp.of /\ rsp'.seq = rsp.seq /\ rsp'.at = 1 /\ rsp'.left = 0
        /\ ReaderType' /\ reader'.cmd = 0 /\ reader'.got = <<>>
        /\ UNCHANGED <<cur, lock, task, queue, uxc>>
    BY <1>1, ClearFacts, NobodyReads
       DEF SafeInv, TypeInv, NfcType, NfcPcs, wca_get_response, tasks
  <2>2. TypeInv'
    BY <2>1 DEF SafeInv, TypeInv, CurType, LockType, TaskType, QueueType, UxcType
  <2>3. Bounded'
    BY <2>1, <2>2, Constants
       DEF SafeInv, TypeInv, NfcType, CurType, RspType, TaskType, LockType, QueueType,
           UxcType, Bounded, Numbered, OnePlace, QueuedOnce, QueuedOnly, HeldOnce,
           HeldOnly, Closed, Locked, Unanswerable, Answered, NfcType, RspType, Bounded
  <2>4. Numbered'
    BY <2>1, Constants
       DEF SafeInv, TypeInv, NfcType, CurType, RspType, TaskType, QueueType, UxcType,
           Numbered
  <2>5. OnePlace'
    BY <2>1, Constants
       DEF SafeInv, TypeInv, TaskType, QueueType, UxcType, OnePlace, QueuedOnce,
           QueuedOnly, HeldOnce, HeldOnly
  <2>6. Closed'
    BY <2>1, Constants DEF SafeInv, TypeInv, Numbered, Closed, Unanswerable
  <2>7. Locked'
    BY <2>1, Constants DEF SafeInv, TypeInv, LockType, Locked
  <2>8. Answered'
    BY <2>1, Constants DEF SafeInv, TypeInv, Answered
  <2>9. Given'
    BY <2>1, Constants DEF SafeInv, TypeInv, Given, OwnResponse
  <2> QED BY <2>2, <2>3, <2>4, <2>5, <2>6, <2>7, <2>8, <2>9 DEF SafeInv
<1>2. CASE rsp.left > 0
  <2>1. /\ nfc.pc = "idle" /\ rsp.left > 0 /\ reader.got # <<>> /\ rsp.of > 0
        /\ RspType' /\ rsp'.of = rsp.of /\ rsp'.seq = rsp.seq
        /\ rsp'.at = rsp.at + 1 /\ rsp'.left = rsp.left - 1
        /\ ReaderType' /\ reader'.cmd = reader.cmd /\ reader'.more = (rsp.left > 1)
        /\ reader'.got = Append(reader.got, <<rsp.of, rsp.at>>)
        /\ UNCHANGED <<nfc, sem, cur, lock, task, queue, uxc>>
    <3>1. nfc.pc = "idle" /\ drain_response_buffer /\ UNCHANGED <<nfc, sem, cur, lock, task, queue, uxc>>
      BY <1>2 DEF SafeInv, TypeInv, RspType, wca_get_response, tasks
    <3>2. reader.got # <<>> /\ rsp.of > 0
      BY <1>2, <3>1 DEF SafeInv, TypeInv, RspType, Given
    <3> QED BY <1>2, <3>1, <3>2, DrainFacts DEF SafeInv
  <2>2. TypeInv'
    BY <2>1
       DEF SafeInv, TypeInv, NfcType, CurType, SemType, LockType, TaskType, QueueType,
           UxcType
  <2>3. Bounded'
    <3>1. rsp.at + rsp.left = Parts + 1 /\ rsp.at \in Nat /\ rsp.left \in Nat
      BY <2>1 DEF SafeInv, TypeInv, RspType, Bounded
    <3>2. rsp'.at + rsp'.left = Parts + 1
      BY <2>1, <3>1, Constants
    <3> QED BY <2>1, <3>2 DEF SafeInv, Bounded
  <2>4. Numbered'
    BY <2>1, Constants
       DEF SafeInv, TypeInv, NfcType, CurType, RspType, TaskType, QueueType, UxcType,
           Numbered
  <2>5. OnePlace'
    BY <2>1, Constants
       DEF SafeInv, TypeInv, TaskType, QueueType, UxcType, OnePlace, QueuedOnce,
           QueuedOnly, HeldOnce, HeldOnly
  <2>6. Closed'
    BY <2>1, Constants DEF SafeInv, TypeInv, Numbered, Closed, Unanswerable
  <2>7. Locked'
    BY <2>1, Constants DEF SafeInv, TypeInv, LockType, Locked
  <2>8. Answered'
    BY <2>1, Constants DEF SafeInv, TypeInv, Answered
  <2>9. Given'
    <3> DEFINE k == Len(reader.got)
    <3>1. reader.got \in Seq(Seqs \X (1 .. Parts)) /\ k \in Nat
      BY DEF SafeInv, TypeInv, ReaderType
    <3>2. rsp.of = reader.cmd /\ rsp.at = k + 1 /\ rsp.left = Parts - k
      BY <2>1 DEF SafeInv, Given
    <3>3. Len(reader'.got) = k + 1 /\ reader'.got[k + 1] = <<reader.cmd, k + 1>>
          /\ \A i \in 1 .. k : reader'.got[i] = reader.got[i]
      BY <2>1, <3>1, <3>2
    <3>4. \A i \in 1 .. k : reader.got[i] = <<reader.cmd, i>>
      BY <3>1 DEF SafeInv, Given, OwnResponse
    <3>5. DOMAIN reader'.got = 1 .. k + 1 /\ reader'.got # <<>> /\ reader'.cmd = reader.cmd
      BY <2>1, <2>2, <3>3, SMTT(60) DEF TypeInv, ReaderType
    <3>6. \A i \in DOMAIN reader'.got : reader'.got[i] = <<reader'.cmd, i>>
      <4> SUFFICES ASSUME NEW i \in 1 .. k + 1 PROVE reader'.got[i] = <<reader.cmd, i>>
        BY <3>5
      <4>1. i \in 1 .. k \/ i = k + 1
        BY <3>1
      <4> HIDE DEF k
      <4> QED BY <3>3, <3>4, <4>1
    <3>7. /\ rsp'.at = k + 2 /\ rsp'.left = Parts - (k + 1)
          /\ reader'.more = (Parts - k > 1) /\ reader'.cmd = rsp'.of
      BY <2>1, <3>1, <3>2, Constants
    <3> HIDE DEF k
    <3>8. reader'.more <=> Len(reader'.got) < Parts
      <4>1. (Parts - k > 1) <=> (Len(reader'.got) < Parts)
        BY <3>1, <3>3, Constants
      <4> QED BY <3>7, <4>1, Zenon
    <3>10. Len(reader'.got) + 1 = rsp'.at /\ rsp'.left = Parts - Len(reader'.got)
      BY <3>1, <3>3, <3>7
    <3>9. OwnResponse'
      BY <3>6, <3>8 DEF OwnResponse
    <3> QED
      BY <2>1, <3>5, <3>7, <3>9, <3>10 DEF Given
  <2> QED BY <2>2, <2>3, <2>4, <2>5, <2>6, <2>7, <2>8, <2>9 DEF SafeInv
<1> QED BY <1>1, <1>2 DEF wca_get_response

LEMMA WcaResetSessionStateSafe == ASSUME SafeInv, wca_reset_session_state PROVE SafeInv'
<1>1. /\ nfc.pc = "idle"
      /\ NfcType' /\ nfc'.seq = nfc.seq /\ nfc'.pc = "retire" /\ nfc'.asm = nfc.asm
      /\ ReaderType' /\ reader'.cmd = 0 /\ reader'.got = <<>>
      /\ UNCHANGED <<rsp, sem, cur, lock, task, queue, uxc>>
  BY NobodyReads DEF SafeInv, TypeInv, NfcType, NfcPcs, wca_reset_session_state, tasks
<1>2. TypeInv'
  BY <1>1
     DEF SafeInv, TypeInv, CurType, RspType, SemType, LockType, TaskType, QueueType,
         UxcType
<1>3. Bounded'
  BY <1>1, Constants DEF SafeInv, TypeInv, NfcType, RspType, Bounded
<1>4. Numbered'
  BY <1>1, Constants
     DEF SafeInv, TypeInv, NfcType, CurType, RspType, TaskType, QueueType, UxcType,
         Numbered
<1>5. OnePlace'
  BY <1>1, Constants
     DEF SafeInv, TypeInv, TaskType, QueueType, UxcType, OnePlace, QueuedOnce,
         QueuedOnly, HeldOnce, HeldOnly
<1>6. Closed'
  BY <1>1, Constants DEF SafeInv, TypeInv, Numbered, Closed, Unanswerable
<1>7. Locked'
  BY <1>1, Constants DEF SafeInv, TypeInv, LockType, Locked
<1>8. Answered'
  BY <1>1, Constants DEF SafeInv, TypeInv, Answered
<1>9. Given'
  BY <1>1, Constants DEF SafeInv, TypeInv, Given, OwnResponse
<1> QED BY <1>2, <1>3, <1>4, <1>5, <1>6, <1>7, <1>8, <1>9 DEF SafeInv

-----------------------------------------------------------------------------
(* The NFC task *)
LEMMA HandleProtoExchangeSafe == ASSUME SafeInv, handle_proto_exchange PROVE SafeInv'
<1>1. /\ nfc.pc = "exchange" /\ nfc.seq < MaxCommands
      /\ NfcType' /\ nfc'.seq = nfc.seq + 1 /\ nfc'.pc = "route" /\ nfc'.asm = nfc.asm
      /\ CurType' /\ cur' = nfc.seq + 1
      /\ RspType' /\ SemType' /\ rsp'.of = rsp.of /\ rsp'.seq = rsp.seq /\ rsp'.at = 1 /\ rsp'.left = 0
      /\ ReaderType' /\ reader'.cmd = nfc.seq + 1 /\ reader'.got = <<>>
      /\ UNCHANGED <<lock, task, queue, uxc>>
  <2>1. nfc.pc = "exchange" /\ nfc.seq < MaxCommands /\ nfc.seq \in Nat /\ nfc.seq + 1 \in 0 .. MaxCommands
    BY Constants DEF SafeInv, TypeInv, NfcType, Bounded, handle_proto_exchange
  <2>2. reader' = [Nobody EXCEPT !.cmd = nfc.seq + 1] /\ UNCHANGED <<lock, task, queue, uxc>>
        /\ cur' = nfc.seq + 1 /\ nfc' = [nfc EXCEPT !.pc = "route", !.seq = nfc.seq + 1]
        /\ clear_proto_rsp_ctx
    BY DEF SafeInv, TypeInv, NfcType, handle_proto_exchange, tasks
  <2>3. ReaderType' /\ reader'.cmd = nfc.seq + 1 /\ reader'.got = <<>>
    BY <2>1, <2>2, NobodyType, NobodyFields DEF ReaderType
  <2>4. NfcType' /\ nfc'.seq = nfc.seq + 1 /\ nfc'.pc = "route" /\ nfc'.asm = nfc.asm
    BY <2>1, <2>2 DEF SafeInv, TypeInv, NfcType, NfcPcs
  <2> QED BY <2>1, <2>2, <2>3, <2>4, ClearFacts DEF SafeInv, CurType
<1>2. TypeInv'
  BY <1>1 DEF SafeInv, TypeInv, LockType, TaskType, QueueType, UxcType
<1>3. Bounded'
  BY <1>1, Constants DEF SafeInv, TypeInv, NfcType, RspType, Bounded
<1>4. Numbered'
  BY <1>1, Constants, SMTT(60)
     DEF SafeInv, TypeInv, NfcType, CurType, RspType, TaskType, QueueType, UxcType,
         Numbered
<1>5. OnePlace'
  BY <1>1, Constants
     DEF SafeInv, TypeInv, TaskType, QueueType, UxcType, OnePlace, QueuedOnce,
         QueuedOnly, HeldOnce, HeldOnly
<1>6. Closed'
  BY <1>1, <1>2, Constants
     DEF SafeInv, TypeInv, NfcType, CurType, RspType, TaskType, LockType, QueueType,
         UxcType, Bounded, Numbered, OnePlace, QueuedOnce, QueuedOnly, HeldOnce,
         HeldOnly, Closed, Locked, Unanswerable, Answered, Numbered, Closed,
         Unanswerable
<1>7. Locked'
  BY <1>1, Constants DEF SafeInv, TypeInv, LockType, Locked
<1>8. Answered'
  BY <1>1, <1>2, Constants
     DEF SafeInv, TypeInv, NfcType, CurType, RspType, TaskType, LockType, QueueType,
         UxcType, Bounded, Numbered, OnePlace, QueuedOnce, QueuedOnly, HeldOnce,
         HeldOnly, Closed, Locked, Unanswerable, Answered, Answered
<1>9. Given'
  BY <1>1, Constants DEF SafeInv, TypeInv, Given, OwnResponse
<1> QED BY <1>2, <1>3, <1>4, <1>5, <1>6, <1>7, <1>8, <1>9 DEF SafeInv

LEMMA IpcProtoRouteSafe == ASSUME SafeInv, ipc_proto_route PROVE SafeInv'
<1>1. CASE lock = "free" /\ Respond(nfc.seq) /\ sem' = 1 /\ Goto("wait") /\ UNCHANGED <<reader, tasks>>
  <2>1. /\ nfc.pc = "route" /\ lock = "free"
        /\ NfcType' /\ nfc'.seq = nfc.seq /\ nfc'.pc = "wait" /\ nfc'.asm = nfc.asm
        /\ RspType' /\ rsp'.of = nfc.seq /\ rsp'.seq = nfc.seq /\ rsp'.at = 1 /\ rsp'.left = Parts
        /\ sem' = 1 /\ UNCHANGED <<cur, lock, reader, task, queue, uxc>>
    BY <1>1, RespondFacts DEF SafeInv, TypeInv, NfcType, NfcPcs, ipc_proto_route, tasks
  <2>2. TypeInv'
    BY <2>1
       DEF SafeInv, TypeInv, CurType, SemType, LockType, TaskType, QueueType, UxcType,
           ReaderType
  <2>3. Bounded'
    BY <2>1, Constants DEF SafeInv, TypeInv, NfcType, RspType, Bounded
  <2>4. Numbered'
    BY <2>1, Constants
       DEF SafeInv, TypeInv, NfcType, CurType, RspType, TaskType, QueueType, UxcType,
           Numbered
  <2>5. OnePlace'
    BY <2>1, Constants
       DEF SafeInv, TypeInv, TaskType, QueueType, UxcType, OnePlace, QueuedOnce,
           QueuedOnly, HeldOnce, HeldOnly
  <2>6. Closed'
    BY <2>1, Constants DEF SafeInv, TypeInv, Numbered, Closed, Unanswerable
  <2>7. Locked'
    BY <2>1, Constants DEF SafeInv, TypeInv, LockType, Locked
  <2>8. Answered'
    BY <2>1, <2>2, Constants
       DEF SafeInv, TypeInv, NfcType, CurType, RspType, TaskType, LockType, QueueType,
           UxcType, Bounded, Numbered, OnePlace, QueuedOnce, QueuedOnly, HeldOnce,
           HeldOnly, Closed, Locked, Unanswerable, Answered, Answered
  <2>9. Given'
    BY <2>1, Constants DEF SafeInv, TypeInv, Given, OwnResponse
  <2> QED BY <2>2, <2>3, <2>4, <2>5, <2>6, <2>7, <2>8, <2>9 DEF SafeInv
<1>2. ASSUME NEW t \in Handlers,
             nfc' = [nfc EXCEPT !.pc = "post", !.to = t],
             UNCHANGED <<rsp, sem, reader, task, queue, uxc>>
      PROVE  SafeInv'
  <2>1. /\ nfc.pc = "route"
        /\ NfcType' /\ nfc'.seq = nfc.seq /\ nfc'.pc = "post" /\ nfc'.asm = nfc.asm
        /\ UNCHANGED <<rsp, sem, cur, lock, reader, task, queue, uxc>>
    BY <1>2 DEF SafeInv, TypeInv, NfcType, NfcPcs, ipc_proto_route
  <2>2. TypeInv'
    BY <2>1
       DEF SafeInv, TypeInv, CurType, RspType, SemType, LockType, TaskType, QueueType,
           UxcType, ReaderType
  <2>3. Bounded'
    BY <2>1, Constants DEF SafeInv, TypeInv, NfcType, RspType, Bounded
  <2>4. Numbered'
    BY <2>1, Constants
       DEF SafeInv, TypeInv, NfcType, CurType, RspType, TaskType, QueueType, UxcType,
           Numbered
  <2>5. OnePlace'
    BY <2>1, SamePlace DEF SafeInv
  <2>6. Closed'
    BY <2>1, Constants DEF SafeInv, TypeInv, Numbered, Closed, Unanswerable
  <2>7. Locked'
    BY <2>1, Constants DEF SafeInv, TypeInv, LockType, Locked
  <2>8. Answered'
    BY <2>1, Constants DEF SafeInv, TypeInv, Answered
  <2>9. Given'
    BY <2>1, Constants DEF SafeInv, TypeInv, Given, OwnResponse
  <2> QED BY <2>2, <2>3, <2>4, <2>5, <2>6, <2>7, <2>8, <2>9 DEF SafeInv
<1>3. CASE /\ clear_proto_rsp_ctx
           /\ nfc' = [nfc EXCEPT !.pc = "idle", !.asm = "none"]
           /\ reader' = Nobody
           /\ UNCHANGED tasks
  <2>1. /\ nfc.pc = "route"
        /\ NfcType' /\ nfc'.seq = nfc.seq /\ nfc'.pc = "idle" /\ nfc'.asm = "none"
        /\ RspType' /\ SemType' /\ rsp'.of = rsp.of /\ rsp'.seq = rsp.seq /\ rsp'.at = 1 /\ rsp'.left = 0
        /\ ReaderType' /\ reader'.cmd = 0 /\ reader'.got = <<>>
        /\ UNCHANGED <<cur, lock, task, queue, uxc>>
    BY <1>3, ClearFacts, NobodyReads
       DEF SafeInv, TypeInv, NfcType, NfcPcs, ipc_proto_route, tasks
  <2>2. TypeInv'
    BY <2>1 DEF SafeInv, TypeInv, CurType, LockType, TaskType, QueueType, UxcType
  <2>3. Bounded'
    BY <2>1, Constants DEF SafeInv, TypeInv, NfcType, RspType, Bounded
  <2>4. Numbered'
    BY <2>1, Constants
       DEF SafeInv, TypeInv, NfcType, CurType, RspType, TaskType, QueueType, UxcType,
           Numbered
  <2>5. OnePlace'
    BY <2>1, Constants
       DEF SafeInv, TypeInv, TaskType, QueueType, UxcType, OnePlace, QueuedOnce,
           QueuedOnly, HeldOnce, HeldOnly
  <2>6. Closed'
    BY <2>1, Constants DEF SafeInv, TypeInv, Numbered, Closed, Unanswerable
  <2>7. Locked'
    BY <2>1, Constants DEF SafeInv, TypeInv, LockType, Locked
  <2>8. Answered'
    BY <2>1, <2>2, Constants
       DEF SafeInv, TypeInv, NfcType, CurType, RspType, TaskType, LockType, QueueType,
           UxcType, Bounded, Numbered, OnePlace, QueuedOnce, QueuedOnly, HeldOnce,
           HeldOnly, Closed, Locked, Unanswerable, Answered, Answered
  <2>9. Given'
    BY <2>1, Constants DEF SafeInv, TypeInv, Given, OwnResponse
  <2> QED BY <2>2, <2>3, <2>4, <2>5, <2>6, <2>7, <2>8, <2>9 DEF SafeInv
<1> QED BY <1>1, <1>2, <1>3 DEF ipc_proto_route

LEMMA IpcSendSafe == ASSUME SafeInv, ipc_send PROVE SafeInv'
<1> DEFINE t == nfc.to
<1>1. /\ nfc.pc = "post" /\ Unanswerable
      /\ NfcType' /\ nfc'.seq = nfc.seq /\ nfc'.pc = "wait" /\ nfc'.asm = nfc.asm
      /\ UNCHANGED <<rsp, sem, cur, lock, reader, task, uxc>> /\ QueueType'
      /\ DOMAIN queue'[t] = 1 .. Len(queue[t]) + 1 /\ DOMAIN queue[t] = 1 .. Len(queue[t])
      /\ Len(queue[t]) \in Nat /\ queue'[t][Len(queue[t]) + 1] = nfc.seq
      /\ \A i \in DOMAIN queue[t] : queue'[t][i] = queue[t][i]
      /\ \A u \in Handlers : u # t => queue'[u] = queue[u]
  <2>2. queue[t] \in Seq(Seqs) /\ nfc.seq \in Seqs /\ t \in Handlers
    BY DEF SafeInv, TypeInv, QueueType, NfcType, Answered, ipc_send
  <2>3. Append(queue[t], nfc.seq) \in Seq(Seqs)
    BY <2>2
  <2>4. QueueType' /\ queue'[t] = Append(queue[t], nfc.seq)
        /\ \A u \in Handlers : u # t => queue'[u] = queue[u]
    BY <2>2, <2>3 DEF SafeInv, TypeInv, QueueType, ipc_send
  <2>5. /\ nfc.pc = "post"
        /\ NfcType' /\ nfc'.seq = nfc.seq /\ nfc'.pc = "wait" /\ nfc'.asm = nfc.asm
        /\ UNCHANGED <<rsp, sem, cur, lock, reader, task, uxc>>
    BY DEF SafeInv, TypeInv, NfcType, NfcPcs, ipc_send
  <2>6. Unanswerable
    BY <2>5 DEF SafeInv, Closed
  <2> QED BY <2>2, <2>4, <2>5, <2>6
<1>2. TypeInv'
  BY <1>1
     DEF SafeInv, TypeInv, CurType, RspType, SemType, LockType, TaskType, UxcType,
         ReaderType
<1>3. Bounded'
  BY <1>1, Constants DEF SafeInv, TypeInv, NfcType, RspType, Bounded
<1>4. Numbered'
  <2>1. \A u \in Handlers : \A i \in DOMAIN queue'[u] :
           \/ queue'[u][i] = nfc.seq
           \/ i \in DOMAIN queue[u] /\ queue'[u][i] = queue[u][i]
    BY <1>1
  <2>2. \A u \in Handlers : \A i \in DOMAIN queue'[u] : queue'[u][i] <= nfc'.seq
    BY <1>1, <2>1 DEF SafeInv, TypeInv, NfcType, Numbered
  <2> QED BY <1>1, <2>2 DEF SafeInv, Numbered
<1>5. OnePlace'
  <2>1. \A u \in Handlers : \A i \in DOMAIN queue'[u] :
           \/ queue'[u][i] = nfc.seq /\ u = t /\ i = Len(queue[t]) + 1
           \/ i \in DOMAIN queue[u] /\ queue'[u][i] = queue[u][i] /\ queue[u][i] # nfc.seq
    BY <1>1 DEF Unanswerable
  <2>2. QueuedOnce'
    BY <2>1 DEF SafeInv, OnePlace, QueuedOnce
  <2>3. nfc.seq \notin uxc /\ \A p \in Producers : Held(p) => task[p].seq # nfc.seq
    BY <1>1 DEF SafeInv, Closed, Unanswerable
  <2>4. QueuedOnly'
    BY <1>1, <2>1, <2>3 DEF SafeInv, OnePlace, QueuedOnly
  <2> QED BY <1>1, <2>2, <2>4 DEF SafeInv, OnePlace, HeldOnce, HeldOnly
<1>6. Closed'
  BY <1>1, Constants DEF SafeInv, TypeInv, Numbered, Closed, Unanswerable
<1>7. Locked'
  BY <1>1, Constants DEF SafeInv, TypeInv, LockType, Locked
<1>8. Answered'
  BY <1>1, <1>2, Constants
     DEF SafeInv, TypeInv, NfcType, CurType, RspType, TaskType, LockType, QueueType,
         UxcType, Bounded, Numbered, OnePlace, QueuedOnce, QueuedOnly, HeldOnce,
         HeldOnly, Closed, Locked, Unanswerable, Answered, Answered
<1>9. Given'
  BY <1>1, Constants DEF SafeInv, TypeInv, Given, OwnResponse
<1> QED BY <1>2, <1>3, <1>4, <1>5, <1>6, <1>7, <1>8, <1>9 DEF SafeInv

LEMMA SemTakeSafe == ASSUME SafeInv, SemTake PROVE SafeInv'
<1>1. /\ nfc.pc = "wait"
      /\ NfcType' /\ nfc'.seq = nfc.seq /\ nfc'.pc \in {"check", "retire"} /\ nfc'.asm = nfc.asm
      /\ SemType' /\ UNCHANGED <<rsp, cur, lock, reader, task, queue, uxc>>
  BY DEF SafeInv, TypeInv, NfcType, NfcPcs, SemType, SemTake, tasks
<1>2. TypeInv'
  BY <1>1
     DEF SafeInv, TypeInv, CurType, RspType, LockType, TaskType, QueueType, UxcType,
         ReaderType
<1>3. Bounded'
  BY <1>1, Constants DEF SafeInv, TypeInv, NfcType, RspType, Bounded
<1>4. Numbered'
  BY <1>1, Constants
     DEF SafeInv, TypeInv, NfcType, CurType, RspType, TaskType, QueueType, UxcType,
         Numbered
<1>5. OnePlace'
  BY <1>1, Constants
     DEF SafeInv, TypeInv, TaskType, QueueType, UxcType, OnePlace, QueuedOnce,
         QueuedOnly, HeldOnce, HeldOnly
<1>6. Closed'
  BY <1>1, Constants DEF SafeInv, TypeInv, Numbered, Closed, Unanswerable
<1>7. Locked'
  BY <1>1, Constants DEF SafeInv, TypeInv, LockType, Locked
<1>8. Answered'
  BY <1>1, Constants DEF SafeInv, TypeInv, Answered
<1>9. Given'
  BY <1>1, Constants DEF SafeInv, TypeInv, Given, OwnResponse
<1> QED BY <1>2, <1>3, <1>4, <1>5, <1>6, <1>7, <1>8, <1>9 DEF SafeInv

LEMMA CheckResponseSafe == ASSUME SafeInv, CheckResponse PROVE SafeInv'
<1>1. CASE rsp.seq = nfc.seq
  <2>1. /\ nfc.pc = "check" /\ lock = "free" /\ rsp.seq = nfc.seq
        /\ rsp.of = nfc.seq /\ rsp.of > 0 /\ rsp.at = 1 /\ rsp.left = Parts /\ reader.got = <<>> /\ reader.cmd = nfc.seq
        /\ NfcType' /\ nfc'.seq = nfc.seq /\ nfc'.pc = "idle" /\ nfc'.asm = nfc.asm
        /\ RspType' /\ rsp'.of = rsp.of /\ rsp'.seq = rsp.seq
        /\ rsp'.at = rsp.at + 1 /\ rsp'.left = rsp.left - 1
        /\ ReaderType' /\ reader'.cmd = reader.cmd /\ reader'.more = (rsp.left > 1)
        /\ reader'.got = Append(reader.got, <<rsp.of, rsp.at>>) /\ nfc.seq > 0
        /\ UNCHANGED <<sem, cur, lock, task, queue, uxc>>
    <3>1. /\ nfc.pc = "check" /\ lock = "free" /\ drain_response_buffer
          /\ nfc' = [nfc EXCEPT !.pc = "idle"] /\ UNCHANGED <<sem, cur, lock, task, queue, uxc>>
      BY <1>1 DEF CheckResponse, tasks
    <3>2. /\ rsp.of = nfc.seq /\ rsp.at = 1 /\ rsp.left = Parts /\ reader.got = <<>>
          /\ reader.cmd = nfc.seq /\ nfc.seq > 0
      BY <1>1, <3>1 DEF SafeInv, Answered, Given
    <3>3. NfcType' /\ nfc'.seq = nfc.seq /\ nfc'.pc = "idle" /\ nfc'.asm = nfc.asm
      BY <3>1 DEF SafeInv, TypeInv, NfcType, NfcPcs
    <3>4. rsp.left > 0 /\ rsp.of > 0
      BY <3>2, Constants
    <3> QED BY <1>1, <3>1, <3>2, <3>3, <3>4, DrainFacts DEF SafeInv
  <2>2. TypeInv'
    BY <2>1 DEF SafeInv, TypeInv, CurType, SemType, LockType, TaskType, QueueType, UxcType
  <2>3. Bounded'
    BY <2>1, Constants DEF SafeInv, TypeInv, NfcType, RspType, Bounded
  <2>4. Numbered'
    BY <2>1, Constants
       DEF SafeInv, TypeInv, NfcType, CurType, RspType, TaskType, QueueType, UxcType,
           Numbered
  <2>5. OnePlace'
    BY <2>1, Constants
       DEF SafeInv, TypeInv, TaskType, QueueType, UxcType, OnePlace, QueuedOnce,
           QueuedOnly, HeldOnce, HeldOnly
  <2>6. Closed'
    BY <2>1, Constants DEF SafeInv, TypeInv, Numbered, Closed, Unanswerable
  <2>7. Locked'
    BY <2>1, Constants DEF SafeInv, TypeInv, LockType, Locked
  <2>8. Answered'
    BY <2>1, Constants DEF SafeInv, TypeInv, Answered
  <2>9. Given'
    <3> DEFINE k == Len(reader.got)
    <3>1. reader.got \in Seq(Seqs \X (1 .. Parts)) /\ k \in Nat
      BY DEF SafeInv, TypeInv, ReaderType
    <3>2. rsp.of = reader.cmd /\ rsp.at = k + 1 /\ rsp.left = Parts - k
      BY <2>1, <3>1, Constants
    <3>3. Len(reader'.got) = k + 1 /\ reader'.got[k + 1] = <<reader.cmd, k + 1>>
          /\ \A i \in 1 .. k : reader'.got[i] = reader.got[i]
      BY <2>1, <3>1, <3>2
    <3>4. \A i \in 1 .. k : reader.got[i] = <<reader.cmd, i>>
      BY <3>1 DEF SafeInv, Given, OwnResponse
    <3>5. DOMAIN reader'.got = 1 .. k + 1 /\ reader'.got # <<>> /\ reader'.cmd = reader.cmd
      BY <2>1, <2>2, <3>3 DEF TypeInv, ReaderType
    <3>6. \A i \in DOMAIN reader'.got : reader'.got[i] = <<reader'.cmd, i>>
      <4> SUFFICES ASSUME NEW i \in 1 .. k + 1 PROVE reader'.got[i] = <<reader.cmd, i>>
        BY <3>5
      <4>1. i \in 1 .. k \/ i = k + 1
        BY <3>1
      <4> HIDE DEF k
      <4> QED BY <3>3, <3>4, <4>1
    <3>7. /\ rsp'.at = k + 2 /\ rsp'.left = Parts - (k + 1)
          /\ reader'.more = (Parts - k > 1) /\ reader'.cmd = rsp'.of
      BY <2>1, <3>1, <3>2, Constants
    <3> HIDE DEF k
    <3>8. reader'.more <=> Len(reader'.got) < Parts
      <4>1. (Parts - k > 1) <=> (Len(reader'.got) < Parts)
        BY <3>1, <3>3, Constants
      <4> QED BY <3>7, <4>1, Zenon
    <3>10. Len(reader'.got) + 1 = rsp'.at /\ rsp'.left = Parts - Len(reader'.got)
      BY <3>1, <3>3, <3>7
    <3>9. OwnResponse'
      BY <3>6, <3>8 DEF OwnResponse
    <3> QED
      BY <2>1, <3>5, <3>7, <3>9, <3>10 DEF Given
  <2> QED BY <2>2, <2>3, <2>4, <2>5, <2>6, <2>7, <2>8, <2>9 DEF SafeInv
<1>2. CASE rsp.seq # nfc.seq
  <2>1. /\ nfc.pc = "check" /\ lock = "free" /\ rsp.seq # nfc.seq
        /\ NfcType' /\ nfc'.seq = nfc.seq /\ nfc'.pc = "wait" /\ nfc'.asm = nfc.asm
        /\ UNCHANGED <<rsp, sem, cur, lock, reader, task, queue, uxc>>
    BY <1>2 DEF SafeInv, TypeInv, NfcType, NfcPcs, CheckResponse, tasks
  <2>2. TypeInv'
    BY <2>1
       DEF SafeInv, TypeInv, CurType, RspType, SemType, LockType, TaskType, QueueType,
           UxcType, ReaderType
  <2>3. Bounded'
    BY <2>1, Constants DEF SafeInv, TypeInv, NfcType, RspType, Bounded
  <2>4. Numbered'
    BY <2>1, Constants
       DEF SafeInv, TypeInv, NfcType, CurType, RspType, TaskType, QueueType, UxcType,
           Numbered
  <2>5. OnePlace'
    BY <2>1, Constants
       DEF SafeInv, TypeInv, TaskType, QueueType, UxcType, OnePlace, QueuedOnce,
           QueuedOnly, HeldOnce, HeldOnly
  <2>6. Closed'
    BY <2>1, Constants DEF SafeInv, TypeInv, Numbered, Closed, Unanswerable
  <2>7. Locked'
    BY <2>1, Constants DEF SafeInv, TypeInv, LockType, Locked
  <2>8. Answered'
    BY <2>1, Constants DEF SafeInv, TypeInv, Answered
  <2>9. Given'
    BY <2>1, Constants DEF SafeInv, TypeInv, Given, OwnResponse
  <2> QED BY <2>2, <2>3, <2>4, <2>5, <2>6, <2>7, <2>8, <2>9 DEF SafeInv
<1> QED BY <1>1, <1>2 DEF CheckResponse

LEMMA ProtoRetireCmdSeqSafe == ASSUME SafeInv, proto_retire_cmd_seq PROVE SafeInv'
<1>1. /\ nfc.pc = "retire" /\ lock = "free"
      /\ NfcType' /\ nfc'.seq = nfc.seq /\ nfc'.pc = "clear" /\ nfc'.asm = nfc.asm
      /\ CurType' /\ cur' = 0
      /\ RspType' /\ rsp'.of = rsp.of /\ rsp'.at = rsp.at /\ rsp'.left = rsp.left
      /\ rsp'.seq = (IF rsp.seq = nfc.seq THEN 0 ELSE rsp.seq)
      /\ UNCHANGED <<sem, lock, reader, task, queue, uxc>>
  BY Zeros
     DEF SafeInv, TypeInv, NfcType, NfcPcs, CurType, RspType, Numbered,
         proto_retire_cmd_seq, tasks
<1>2. TypeInv'
  BY <1>1 DEF SafeInv, TypeInv, SemType, LockType, TaskType, QueueType, UxcType, ReaderType
<1>3. Bounded'
  BY <1>1, Constants DEF SafeInv, TypeInv, NfcType, RspType, Bounded
<1>4. Numbered'
  BY <1>1, Constants
     DEF SafeInv, TypeInv, NfcType, CurType, RspType, TaskType, QueueType, UxcType,
         Numbered
<1>5. OnePlace'
  BY <1>1, Constants
     DEF SafeInv, TypeInv, TaskType, QueueType, UxcType, OnePlace, QueuedOnce,
         QueuedOnly, HeldOnce, HeldOnly
<1>6. Closed'
  BY <1>1, Constants DEF SafeInv, TypeInv, Numbered, Closed, Unanswerable
<1>7. Locked'
  BY <1>1, Constants DEF SafeInv, TypeInv, LockType, Locked
<1>8. Answered'
  BY <1>1, Constants DEF SafeInv, TypeInv, Answered
<1>9. Given'
  BY <1>1, Constants DEF SafeInv, TypeInv, Given, OwnResponse
<1> QED BY <1>2, <1>3, <1>4, <1>5, <1>6, <1>7, <1>8, <1>9 DEF SafeInv

LEMMA ClearProtoStateSafe == ASSUME SafeInv, clear_proto_state PROVE SafeInv'
<1>1. /\ nfc.pc = "clear"
      /\ NfcType' /\ nfc'.seq = nfc.seq /\ nfc'.pc = "idle" /\ nfc'.asm = "none"
      /\ RspType' /\ SemType' /\ rsp'.of = rsp.of /\ rsp'.seq = rsp.seq /\ rsp'.at = 1 /\ rsp'.left = 0
      /\ ReaderType' /\ reader'.cmd = 0 /\ reader'.got = <<>>
      /\ UNCHANGED <<cur, lock, task, queue, uxc>>
  BY ClearFacts, NobodyReads DEF SafeInv, TypeInv, NfcType, NfcPcs, clear_proto_state, tasks
<1>2. TypeInv'
  BY <1>1 DEF SafeInv, TypeInv, CurType, LockType, TaskType, QueueType, UxcType
<1>3. Bounded'
  BY <1>1, Constants DEF SafeInv, TypeInv, NfcType, RspType, Bounded
<1>4. Numbered'
  BY <1>1, Constants
     DEF SafeInv, TypeInv, NfcType, CurType, RspType, TaskType, QueueType, UxcType,
         Numbered
<1>5. OnePlace'
  BY <1>1, Constants
     DEF SafeInv, TypeInv, TaskType, QueueType, UxcType, OnePlace, QueuedOnce,
         QueuedOnly, HeldOnce, HeldOnly
<1>6. Closed'
  BY <1>1, <1>2, Constants
     DEF SafeInv, TypeInv, NfcType, CurType, RspType, TaskType, LockType, QueueType,
         UxcType, Bounded, Numbered, OnePlace, QueuedOnce, QueuedOnly, HeldOnce,
         HeldOnly, Closed, Locked, Unanswerable, Answered, Numbered, Closed,
         Unanswerable
<1>7. Locked'
  BY <1>1, Constants DEF SafeInv, TypeInv, LockType, Locked
<1>8. Answered'
  BY <1>1, Constants DEF SafeInv, TypeInv, Answered
<1>9. Given'
  BY <1>1, Constants DEF SafeInv, TypeInv, Given, OwnResponse
<1> QED BY <1>2, <1>3, <1>4, <1>5, <1>6, <1>7, <1>8, <1>9 DEF SafeInv

-----------------------------------------------------------------------------
(* The tasks that handle commands, and the UXC *)
LEMMA AllocDecodedSafe == ASSUME SafeInv, NEW t \in Handlers, AllocDecoded(t) PROVE SafeInv'
<1>1. /\ t \in Producers /\ task[t].pc = "idle" /\ queue[t] # <<>> /\ UNCHANGED <<nfc, cur, rsp, sem, lock, reader, uxc>>
      /\ TaskType' /\ task'[t].pc = "decoded" /\ task'[t].seq = queue[t][1] /\ 1 \in DOMAIN queue[t] /\ queue[t][1] \in Seqs
      /\ \A p \in Producers : p # t => task'[p] = task[p]
      /\ QueueType' /\ DOMAIN queue'[t] = 1 .. Len(queue[t]) - 1
      /\ \A i \in DOMAIN queue'[t] : i + 1 \in DOMAIN queue[t] /\ queue'[t][i] = queue[t][i + 1]
      /\ \A u \in Handlers : u # t => queue'[u] = queue[u]
  <2>1. queue[t] \in Seq(Seqs) /\ queue[t] # <<>> /\ task[t].pc = "idle"
    BY DEF SafeInv, TypeInv, QueueType, AllocDecoded
  <2>2. /\ Head(queue[t]) = queue[t][1] /\ Head(queue[t]) \in Seqs /\ 1 \in DOMAIN queue[t]
        /\ Tail(queue[t]) \in Seq(Seqs) /\ DOMAIN Tail(queue[t]) = 1 .. Len(queue[t]) - 1
        /\ \A i \in DOMAIN Tail(queue[t]) :
              i + 1 \in DOMAIN queue[t] /\ Tail(queue[t])[i] = queue[t][i + 1]
    BY <2>1, Tailing
  <2>3. QueueType' /\ queue'[t] = Tail(queue[t]) /\ \A u \in Handlers : u # t => queue'[u] = queue[u]
    BY <2>2 DEF SafeInv, TypeInv, QueueType, AllocDecoded
  <2>4. /\ TaskType' /\ task'[t].pc = "decoded" /\ task'[t].seq = Head(queue[t])
        /\ \A p \in Producers : p # t => task'[p] = task[p]
    <3>1. Head(queue[t]) \in 0 .. MaxCommands /\ t \in Producers /\ "decoded" \in TaskPcs
      BY <2>2 DEF TaskPcs
    <3>2. task' = [task EXCEPT ![t] = [pc |-> "decoded", seq |-> Head(queue[t])]]
      BY DEF AllocDecoded
    <3> HIDE DEF Producers
    <3> QED BY <3>1, <3>2, TaskFacts DEF SafeInv
  <2>5. UNCHANGED <<nfc, cur, rsp, sem, lock, reader, uxc>>
    BY DEF AllocDecoded, wca
  <2> QED BY <2>1, <2>2, <2>3, <2>4, <2>5
<1>2. TypeInv'
  BY <1>1
     DEF SafeInv, TypeInv, NfcType, CurType, RspType, SemType, LockType, UxcType,
         ReaderType
<1>3. Bounded'
  BY <1>1, Constants DEF SafeInv, TypeInv, NfcType, RspType, Bounded
<1>4. Numbered'
  <2>1. \A u \in Handlers : \A i \in DOMAIN queue'[u] : queue'[u][i] <= nfc'.seq
    BY <1>1 DEF SafeInv, Numbered
  <2>2. task'[t].seq \in 1 .. nfc.seq
    BY <1>1 DEF SafeInv, TypeInv, QueueType, NfcType, Numbered
  <2> QED BY <1>1, <2>1, <2>2 DEF SafeInv, Numbered
<1>5. OnePlace'
  <2> DEFINE from(u, i) == IF u = t THEN i + 1 ELSE i
  <2>1. \A u \in Handlers : \A i \in DOMAIN queue'[u] :
           /\ from(u, i) \in DOMAIN queue[u] /\ queue'[u][i] = queue[u][from(u, i)]
           /\ i \in Nat /\ (u = t => from(u, i) # 1)
    BY <1>1, <1>2 DEF TypeInv, QueueType
  <2>2. QueuedOnce'
    <3> SUFFICES ASSUME NEW u \in Handlers, NEW w \in Handlers,
                        NEW i \in DOMAIN queue'[u], NEW j \in DOMAIN queue'[w],
                        queue'[u][i] = queue'[w][j]
                 PROVE  u = w /\ i = j
      BY DEF QueuedOnce
    <3>1. u = w /\ from(u, i) = from(w, j)
      BY <2>1 DEF SafeInv, OnePlace, QueuedOnce
    <3> QED BY <2>1, <3>1
  <2>3. \A u \in Handlers : \A i \in DOMAIN queue'[u] : queue'[u][i] # queue[t][1]
    BY <1>1, <2>1 DEF SafeInv, OnePlace, QueuedOnce
  <2>4. QueuedOnly'
    BY <1>1, <2>1, <2>3 DEF SafeInv, OnePlace, QueuedOnly
  <2>5. HeldOnce'
    BY <1>1 DEF SafeInv, OnePlace, QueuedOnly, HeldOnce
  <2>6. HeldOnly'
    BY <1>1 DEF SafeInv, OnePlace, QueuedOnly, HeldOnly
  <2> QED BY <2>2, <2>4, <2>5, <2>6 DEF OnePlace
<1>6. Closed'
  <2>1. Unanswerable => Unanswerable'
    BY <1>1 DEF Unanswerable
  <2>2. Unanswerable => task'[t].seq # nfc'.seq
    BY <1>1 DEF Unanswerable
  <2> QED
    BY <1>1, <2>1, <2>2 DEF SafeInv, Closed
<1>7. Locked'
  BY <1>1, Constants DEF SafeInv, TypeInv, LockType, Locked
<1>8. Answered'
  BY <1>1, Constants DEF SafeInv, TypeInv, Answered
<1>9. Given'
  BY <1>1, Constants DEF SafeInv, TypeInv, Given, OwnResponse
<1> QED BY <1>2, <1>3, <1>4, <1>5, <1>6, <1>7, <1>8, <1>9 DEF SafeInv

LEMMA FreeRoutedSafe == ASSUME SafeInv, NEW t \in Handlers, FreeRouted(t) PROVE SafeInv'
<1>1. /\ t \in Producers /\ task[t].pc = "decoded"
      /\ UNCHANGED <<nfc, cur, rsp, sem, lock, reader, queue, uxc>>
      /\ TaskType' /\ task'[t].pc = "busy" /\ task'[t].seq = task[t].seq
      /\ \A p \in Producers : p # t => task'[p] = task[p]
  <2>1. t \in Producers /\ "busy" \in TaskPcs /\ task[t].seq \in 0 .. MaxCommands
    BY Constants DEF TaskPcs, SafeInv, TypeInv, TaskType
  <2>2. Becomes(t, "busy")
    BY DEF FreeRouted
  <2>3. /\ TaskType' /\ task'[t].pc = "busy" /\ task'[t].seq = task[t].seq
        /\ \A p \in Producers : p # t => task'[p] = task[p]
    <3> HIDE DEF Producers, Becomes
    <3> QED BY <2>1, <2>2, TaskFacts DEF SafeInv
  <2> QED BY <2>1, <2>3 DEF FreeRouted, wca
<1>2. TypeInv'
  BY <1>1
     DEF SafeInv, TypeInv, NfcType, CurType, RspType, SemType, LockType, QueueType,
         UxcType, ReaderType
<1>3. Bounded'
  BY <1>1, Constants DEF SafeInv, TypeInv, NfcType, RspType, Bounded
<1>4. Numbered'
  BY <1>1, Constants
     DEF SafeInv, TypeInv, NfcType, CurType, RspType, TaskType, QueueType, UxcType,
         Numbered
<1>5. OnePlace'
  BY <1>1, SamePlace DEF SafeInv
<1>6. Closed'
  BY <1>1, Constants DEF SafeInv, TypeInv, Numbered, Closed, Unanswerable
<1>7. Locked'
  BY <1>1, Constants DEF SafeInv, TypeInv, LockType, Locked
<1>8. Answered'
  BY <1>1, Constants DEF SafeInv, TypeInv, Answered
<1>9. Given'
  BY <1>1, Constants DEF SafeInv, TypeInv, Given, OwnResponse
<1> QED BY <1>2, <1>3, <1>4, <1>5, <1>6, <1>7, <1>8, <1>9 DEF SafeInv

LEMMA HandleSafe == ASSUME SafeInv, NEW t \in Handlers, Handle(t) PROVE SafeInv'
<1>1. CASE Becomes(t, "send") /\ UNCHANGED <<uxc, used>>
  <2>1. /\ t \in Producers /\ task[t].pc = "busy"
        /\ UNCHANGED <<nfc, cur, rsp, sem, lock, reader, queue, uxc>>
        /\ TaskType' /\ task'[t].pc = "send" /\ task'[t].seq = task[t].seq
        /\ \A p \in Producers : p # t => task'[p] = task[p]
    <3>1. t \in Producers /\ "send" \in TaskPcs /\ task[t].seq \in 0 .. MaxCommands
      BY Constants DEF TaskPcs, SafeInv, TypeInv, TaskType
    <3>2. Becomes(t, "send")
      BY <1>1
    <3>3. /\ TaskType' /\ task'[t].pc = "send" /\ task'[t].seq = task[t].seq
          /\ \A p \in Producers : p # t => task'[p] = task[p]
      <4> HIDE DEF Producers, Becomes
      <4> QED BY <3>1, <3>2, TaskFacts DEF SafeInv
    <3> QED BY <3>1, <3>3, <1>1 DEF Handle, wca
  <2>2. TypeInv'
    BY <2>1
       DEF SafeInv, TypeInv, NfcType, CurType, RspType, SemType, LockType, QueueType,
           UxcType, ReaderType
  <2>3. Bounded'
    BY <2>1, Constants DEF SafeInv, TypeInv, NfcType, RspType, Bounded
  <2>4. Numbered'
    BY <2>1, Constants
       DEF SafeInv, TypeInv, NfcType, CurType, RspType, TaskType, QueueType, UxcType,
           Numbered
  <2>5. OnePlace'
    BY <2>1, SamePlace DEF SafeInv
  <2>6. Closed'
    BY <2>1, Constants DEF SafeInv, TypeInv, Numbered, Closed, Unanswerable
  <2>7. Locked'
    BY <2>1, Constants DEF SafeInv, TypeInv, LockType, Locked
  <2>8. Answered'
    BY <2>1, Constants DEF SafeInv, TypeInv, Answered
  <2>9. Given'
    BY <2>1, Constants DEF SafeInv, TypeInv, Given, OwnResponse
  <2> QED BY <2>2, <2>3, <2>4, <2>5, <2>6, <2>7, <2>8, <2>9 DEF SafeInv
<1>2. CASE uxc' = uxc \cup {task[t].seq} /\ task' = [task EXCEPT ![t] = Free]
  <2>1. /\ t \in Producers /\ task[t].pc = "busy" /\ task[t].seq \in Seqs
        /\ UNCHANGED <<nfc, cur, rsp, sem, lock, reader, queue>>
        /\ uxc' = uxc \cup {task[t].seq}
        /\ TaskType' /\ task'[t].pc = "idle" /\ task'[t].seq = 0
        /\ \A p \in Producers : p # t => task'[p] = task[p]
    <3>1. t \in Producers /\ "idle" \in TaskPcs /\ 0 \in 0 .. MaxCommands
      BY Constants DEF TaskPcs, SafeInv, TypeInv, TaskType
    <3>2. task' = [task EXCEPT ![t] = [pc |-> "idle", seq |-> 0]]
      BY <1>2 DEF Free
    <3>3. /\ TaskType' /\ task'[t].pc = "idle" /\ task'[t].seq = 0
          /\ \A p \in Producers : p # t => task'[p] = task[p]
      <4> HIDE DEF Producers, Becomes
      <4> QED BY <3>1, <3>2, TaskFacts DEF SafeInv
    <3>4. task[t].pc = "busy" /\ task[t].seq \in Seqs
      BY DEF Handle, SafeInv, TypeInv, TaskType, NfcType, Numbered
    <3> QED BY <1>2, <3>1, <3>3, <3>4 DEF Handle, wca
  <2>2. TypeInv'
    BY <2>1
       DEF SafeInv, TypeInv, NfcType, CurType, RspType, SemType, LockType, QueueType,
           UxcType, ReaderType
  <2>3. Bounded'
    BY <2>1, Constants DEF SafeInv, TypeInv, NfcType, RspType, Bounded
  <2>4. Numbered'
    <3>1. \A s \in uxc' : s <= nfc'.seq
      BY <2>1 DEF SafeInv, TypeInv, NfcType, Numbered
    <3> QED BY <2>1, <3>1 DEF SafeInv, Numbered
  <2>5. OnePlace'
    <3>1. QueuedOnce'
      BY <2>1 DEF SafeInv, OnePlace, QueuedOnce
    <3>2. QueuedOnly'
      BY <2>1 DEF SafeInv, OnePlace, QueuedOnly
    <3>3. HeldOnce'
      BY <2>1 DEF SafeInv, OnePlace, HeldOnce
    <3>4. HeldOnly'
      BY <2>1 DEF SafeInv, OnePlace, HeldOnce, HeldOnly
    <3> QED BY <3>1, <3>2, <3>3, <3>4 DEF OnePlace
  <2>6. Closed'
    BY <2>1, Constants DEF SafeInv, TypeInv, Numbered, Closed, Unanswerable
  <2>7. Locked'
    BY <2>1, Constants DEF SafeInv, TypeInv, LockType, Locked
  <2>8. Answered'
    BY <2>1, Constants DEF SafeInv, TypeInv, Answered
  <2>9. Given'
    BY <2>1, Constants DEF SafeInv, TypeInv, Given, OwnResponse
  <2> QED BY <2>2, <2>3, <2>4, <2>5, <2>6, <2>7, <2>8, <2>9 DEF SafeInv
<1> QED BY <1>1, <1>2 DEF Handle

LEMMA UxcAnswersSafe == ASSUME SafeInv, UxcAnswers PROVE SafeInv'
<1>1. CASE \E seq \in uxc : uxc' = uxc \ {seq} /\ UNCHANGED task
  <2>1. /\ UNCHANGED <<nfc, cur, rsp, sem, lock, reader, queue, task>> /\ uxc' \subseteq uxc
    BY <1>1 DEF UxcAnswers, wca
  <2>2. TypeInv'
    BY <2>1
       DEF SafeInv, TypeInv, NfcType, CurType, RspType, SemType, LockType, TaskType,
           QueueType, UxcType, ReaderType
  <2>3. Bounded'
    BY <2>1, Constants DEF SafeInv, TypeInv, NfcType, RspType, Bounded
  <2>4. Numbered'
    BY <2>1, Constants
       DEF SafeInv, TypeInv, NfcType, CurType, RspType, TaskType, QueueType, UxcType,
           Numbered
  <2>5. OnePlace'
    BY <2>1, Constants
       DEF SafeInv, TypeInv, TaskType, QueueType, UxcType, OnePlace, QueuedOnce,
           QueuedOnly, HeldOnce, HeldOnly
  <2>6. Closed'
    BY <2>1, Constants DEF SafeInv, TypeInv, Numbered, Closed, Unanswerable
  <2>7. Locked'
    BY <2>1, Constants DEF SafeInv, TypeInv, LockType, Locked
  <2>8. Answered'
    BY <2>1, Constants DEF SafeInv, TypeInv, Answered
  <2>9. Given'
    BY <2>1, Constants DEF SafeInv, TypeInv, Given, OwnResponse
  <2> QED BY <2>2, <2>3, <2>4, <2>5, <2>6, <2>7, <2>8, <2>9 DEF SafeInv
<1>2. CASE \E seq \in uxc : /\ uxc' = uxc \ {seq}
                        /\ task' = [task EXCEPT !["usart"] = [pc |-> "send", seq |-> seq]]
  <2>1. /\ UNCHANGED <<nfc, cur, rsp, sem, lock, reader, queue>>
        /\ TaskType' /\ task'["usart"].pc = "send" /\ task["usart"].pc = "idle"
        /\ task'["usart"].seq \in uxc /\ uxc' = uxc \ {task'["usart"].seq}
        /\ \A p \in Producers : p # "usart" => task'[p] = task[p]
    <3>1. PICK seq \in uxc : /\ uxc' = uxc \ {seq}
                            /\ task' = [task EXCEPT !["usart"] = [pc |-> "send", seq |-> seq]]
      BY <1>2
    <3>2. "usart" \in Producers /\ "send" \in TaskPcs /\ seq \in 0 .. MaxCommands
      BY DEF TaskPcs, SafeInv, TypeInv, UxcType
    <3>3. /\ TaskType' /\ task'["usart"].pc = "send" /\ task'["usart"].seq = seq
          /\ \A p \in Producers : p # "usart" => task'[p] = task[p]
      <4> HIDE DEF Producers
      <4> QED BY <3>1, <3>2, TaskFacts DEF SafeInv
    <3> QED BY <3>1, <3>3 DEF UxcAnswers, wca
  <2>2. TypeInv'
    BY <2>1
       DEF SafeInv, TypeInv, NfcType, CurType, RspType, SemType, LockType, QueueType,
           UxcType, ReaderType
  <2>3. Bounded'
    BY <2>1, Constants DEF SafeInv, TypeInv, NfcType, RspType, Bounded
  <2>4. Numbered'
    BY <2>1, Constants
       DEF SafeInv, TypeInv, NfcType, CurType, RspType, TaskType, QueueType, UxcType,
           Numbered
  <2>5. OnePlace'
    BY <2>1, Constants
       DEF SafeInv, TypeInv, TaskType, QueueType, UxcType, OnePlace, QueuedOnce,
           QueuedOnly, HeldOnce, HeldOnly
  <2>6. Closed'
    BY <2>1, Constants DEF SafeInv, TypeInv, Numbered, Closed, Unanswerable
  <2>7. Locked'
    BY <2>1, Constants DEF SafeInv, TypeInv, LockType, Locked
  <2>8. Answered'
    BY <2>1, Constants DEF SafeInv, TypeInv, Answered
  <2>9. Given'
    BY <2>1, Constants DEF SafeInv, TypeInv, Given, OwnResponse
  <2> QED BY <2>2, <2>3, <2>4, <2>5, <2>6, <2>7, <2>8, <2>9 DEF SafeInv
<1> QED BY <1>1, <1>2 DEF UxcAnswers

LEMMA LockResponseSafe == ASSUME SafeInv, NEW t \in Producers, LockResponse(t) PROVE SafeInv'
<1>1. CASE task[t].seq # cur
  <2>1. /\ task[t].pc = "send"
        /\ UNCHANGED <<nfc, cur, rsp, sem, lock, reader, queue, uxc>>
        /\ TaskType' /\ task'[t].pc = "done" /\ task'[t].seq = task[t].seq
        /\ \A p \in Producers : p # t => task'[p] = task[p]
    <3>1. t \in Producers /\ "done" \in TaskPcs /\ task[t].seq \in 0 .. MaxCommands
      BY Constants DEF TaskPcs, SafeInv, TypeInv, TaskType
    <3>2. Becomes(t, "done")
      BY <1>1 DEF LockResponse
    <3>3. /\ TaskType' /\ task'[t].pc = "done" /\ task'[t].seq = task[t].seq
          /\ \A p \in Producers : p # t => task'[p] = task[p]
      <4> HIDE DEF Producers, Becomes
      <4> QED BY <3>1, <3>2, TaskFacts DEF SafeInv
    <3> QED BY <3>1, <3>3, <1>1 DEF LockResponse
  <2>2. TypeInv'
    BY <2>1
       DEF SafeInv, TypeInv, NfcType, CurType, RspType, SemType, LockType, QueueType,
           UxcType, ReaderType
  <2>3. Bounded'
    BY <2>1, Constants DEF SafeInv, TypeInv, NfcType, RspType, Bounded
  <2>4. Numbered'
    BY <2>1, Constants
       DEF SafeInv, TypeInv, NfcType, CurType, RspType, TaskType, QueueType, UxcType,
           Numbered
  <2>5. OnePlace'
    BY <2>1, SamePlace DEF SafeInv
  <2>6. Closed'
    BY <2>1, Constants DEF SafeInv, TypeInv, Numbered, Closed, Unanswerable
  <2>7. Locked'
    BY <2>1, Constants DEF SafeInv, TypeInv, LockType, Locked
  <2>8. Answered'
    BY <2>1, Constants DEF SafeInv, TypeInv, Answered
  <2>9. Given'
    BY <2>1, Constants DEF SafeInv, TypeInv, Given, OwnResponse
  <2> QED BY <2>2, <2>3, <2>4, <2>5, <2>6, <2>7, <2>8, <2>9 DEF SafeInv
<1>2. CASE task[t].seq = cur
  <2>1. /\ task[t].pc = "send" /\ lock = "free" /\ task[t].seq = cur /\ lock' = t
        /\ UNCHANGED <<nfc, cur, rsp, sem, reader, queue, uxc>>
        /\ TaskType' /\ task'[t].pc = "encode" /\ task'[t].seq = task[t].seq
        /\ \A p \in Producers : p # t => task'[p] = task[p]
    <3>1. t \in Producers /\ "encode" \in TaskPcs /\ task[t].seq \in 0 .. MaxCommands
      BY Constants DEF TaskPcs, SafeInv, TypeInv, TaskType
    <3>2. Becomes(t, "encode")
      BY <1>2 DEF LockResponse
    <3>3. /\ TaskType' /\ task'[t].pc = "encode" /\ task'[t].seq = task[t].seq
          /\ \A p \in Producers : p # t => task'[p] = task[p]
      <4> HIDE DEF Producers, Becomes
      <4> QED BY <3>1, <3>2, TaskFacts DEF SafeInv
    <3> QED BY <3>1, <3>3, <1>2 DEF LockResponse
  <2>2. TypeInv'
    BY <2>1
       DEF SafeInv, TypeInv, NfcType, CurType, RspType, SemType, LockType, QueueType,
           UxcType, ReaderType
  <2>3. Bounded'
    BY <2>1, Constants DEF SafeInv, TypeInv, NfcType, RspType, Bounded
  <2>4. Numbered'
    BY <2>1, Constants
       DEF SafeInv, TypeInv, NfcType, CurType, RspType, TaskType, QueueType, UxcType,
           Numbered
  <2>5. OnePlace'
    BY <2>1, SamePlace DEF SafeInv
  <2>6. Closed'
    BY <2>1, Constants DEF SafeInv, TypeInv, Numbered, Closed, Unanswerable
  <2>7. Locked'
    <3>1. task[t].seq \in 1 .. nfc.seq /\ cur = nfc.seq
      BY <2>1 DEF SafeInv, Numbered
    <3>2. ~Unanswerable
      BY <2>1, <3>1 DEF Unanswerable
    <3>3. nfc.pc \in {"wait", "check", "retire"}
      BY <2>1, <3>1, <3>2 DEF SafeInv, TypeInv, NfcType, NfcPcs, Closed
    <3> QED
      BY <2>1, <3>3, Constants DEF SafeInv, Locked
  <2>8. Answered'
    BY <2>1, Constants DEF SafeInv, TypeInv, Answered
  <2>9. Given'
    BY <2>1, Constants DEF SafeInv, TypeInv, Given, OwnResponse
  <2> QED BY <2>2, <2>3, <2>4, <2>5, <2>6, <2>7, <2>8, <2>9 DEF SafeInv
<1> QED BY <1>1, <1>2 DEF LockResponse

LEMMA HandleProtoResponseSafe == ASSUME SafeInv, NEW t \in Producers, handle_proto_response(t) PROVE SafeInv'
<1>1. /\ task[t].pc = "encode" /\ UNCHANGED <<nfc, cur, sem, lock, reader, queue, uxc>>
      /\ RspType' /\ rsp'.of = task[t].seq /\ rsp'.seq = task[t].seq /\ rsp'.at = 1 /\ rsp'.left = Parts
      /\ task[t].seq = cur /\ cur = nfc.seq /\ nfc.pc \in {"wait", "check", "retire"}
      /\ TaskType' /\ task'[t].pc = "give" /\ task'[t].seq = task[t].seq
      /\ \A p \in Producers : p # t => task'[p] = task[p]
  <2>1. t \in Producers /\ "give" \in TaskPcs /\ task[t].seq \in 0 .. MaxCommands
    BY Constants DEF TaskPcs, SafeInv, TypeInv, TaskType
  <2>2. Becomes(t, "give")
    BY DEF handle_proto_response
  <2>3. /\ TaskType' /\ task'[t].pc = "give" /\ task'[t].seq = task[t].seq
        /\ \A p \in Producers : p # t => task'[p] = task[p]
    <3> HIDE DEF Producers, Becomes
    <3> QED BY <2>1, <2>2, TaskFacts DEF SafeInv
  <2>4. RspType' /\ rsp'.of = task[t].seq /\ rsp'.seq = task[t].seq /\ rsp'.at = 1 /\ rsp'.left = Parts
    BY <2>1, RespondFacts DEF handle_proto_response
  <2>5. task[t].pc = "encode" /\ task[t].seq = cur /\ cur = nfc.seq /\ nfc.pc \in {"wait", "check", "retire"}
    BY DEF handle_proto_response, SafeInv, TypeInv, TaskType, Numbered, Locked
  <2> QED BY <2>1, <2>3, <2>4, <2>5 DEF handle_proto_response
<1>2. TypeInv'
  BY <1>1
     DEF SafeInv, TypeInv, NfcType, CurType, SemType, LockType, QueueType, UxcType,
         ReaderType
<1>3. Bounded'
  BY <1>1, Constants DEF SafeInv, TypeInv, NfcType, RspType, Bounded
<1>4. Numbered'
  <2>1. \A p \in Producers : Held(p)' => task'[p].seq \in 1 .. nfc'.seq
    BY <1>1 DEF SafeInv, Numbered
  <2> QED BY <1>1, <2>1 DEF SafeInv, TypeInv, NfcType, Numbered
<1>5. OnePlace'
  BY <1>1, SamePlace DEF SafeInv
<1>6. Closed'
  <2>1. Unanswerable'
    <3>1. \A p \in Producers : task'[p].pc \in Working => task'[p].seq # nfc'.seq
      BY <1>1 DEF SafeInv, OnePlace, HeldOnce
    <3>2. \A u \in Handlers : \A i \in DOMAIN queue'[u] : queue'[u][i] # nfc'.seq
      BY <1>1 DEF SafeInv, OnePlace, QueuedOnly
    <3>3. nfc'.seq \notin uxc'
      BY <1>1 DEF SafeInv, OnePlace, HeldOnly
    <3> QED BY <3>1, <3>2, <3>3 DEF Unanswerable
  <2> QED
    BY <1>1, <2>1 DEF Closed
<1>7. Locked'
  BY <1>1, Constants DEF SafeInv, TypeInv, LockType, Locked
<1>8. Answered'
  BY <1>1, Constants DEF SafeInv, TypeInv, Answered
<1>9. Given'
  BY <1>1, Constants DEF SafeInv, TypeInv, Given, OwnResponse
<1> QED BY <1>2, <1>3, <1>4, <1>5, <1>6, <1>7, <1>8, <1>9 DEF SafeInv

LEMMA GiveResponseSafe == ASSUME SafeInv, NEW t \in Producers, GiveResponse(t) PROVE SafeInv'
<1>1. /\ task[t].pc = "give" /\ UNCHANGED <<nfc, cur, rsp, reader, queue, uxc>>
      /\ sem' = 1 /\ lock' = "free"
      /\ TaskType' /\ task'[t].pc = "done" /\ task'[t].seq = task[t].seq
      /\ \A p \in Producers : p # t => task'[p] = task[p]
  <2>1. t \in Producers /\ "done" \in TaskPcs /\ task[t].seq \in 0 .. MaxCommands
    BY Constants DEF TaskPcs, SafeInv, TypeInv, TaskType
  <2>2. Becomes(t, "done")
    BY DEF GiveResponse
  <2>3. /\ TaskType' /\ task'[t].pc = "done" /\ task'[t].seq = task[t].seq
        /\ \A p \in Producers : p # t => task'[p] = task[p]
    <3> HIDE DEF Producers, Becomes
    <3> QED BY <2>1, <2>2, TaskFacts DEF SafeInv
  <2> QED BY <2>1, <2>3 DEF GiveResponse
<1>2. TypeInv'
  BY <1>1
     DEF SafeInv, TypeInv, NfcType, CurType, RspType, SemType, LockType, QueueType,
         UxcType, ReaderType
<1>3. Bounded'
  BY <1>1, Constants DEF SafeInv, TypeInv, NfcType, RspType, Bounded
<1>4. Numbered'
  BY <1>1, Constants
     DEF SafeInv, TypeInv, NfcType, CurType, RspType, TaskType, QueueType, UxcType,
         Numbered
<1>5. OnePlace'
  BY <1>1, SamePlace DEF SafeInv
<1>6. Closed'
  BY <1>1, Constants DEF SafeInv, TypeInv, Numbered, Closed, Unanswerable
<1>7. Locked'
  <2>1. \A p \in Producers : task[p].pc \in {"encode", "give"} => p = t
    BY <1>1 DEF SafeInv, Locked
  <2>2. \A p \in Producers : task'[p].pc \notin {"encode", "give"}
    BY <1>1, <2>1
  <2> QED
    BY <1>1, <2>2, Constants DEF Locked
<1>8. Answered'
  BY <1>1, Constants DEF SafeInv, TypeInv, Answered
<1>9. Given'
  BY <1>1, Constants DEF SafeInv, TypeInv, Given, OwnResponse
<1> QED BY <1>2, <1>3, <1>4, <1>5, <1>6, <1>7, <1>8, <1>9 DEF SafeInv

LEMMA ProtoFreeBuffersSafe == ASSUME SafeInv, NEW t \in Producers, proto_free_buffers(t) PROVE SafeInv'
<1>1. /\ task[t].pc = "done" /\ UNCHANGED <<nfc, cur, rsp, sem, lock, reader, queue, uxc>>
      /\ TaskType' /\ task'[t].pc = "idle" /\ task'[t].seq = 0
      /\ \A p \in Producers : p # t => task'[p] = task[p]
  <2>1. t \in Producers /\ "idle" \in TaskPcs /\ 0 \in 0 .. MaxCommands
    BY Constants DEF TaskPcs, SafeInv, TypeInv, TaskType
  <2>2. task' = [task EXCEPT ![t] = [pc |-> "idle", seq |-> 0]]
    BY DEF proto_free_buffers, Free
  <2>3. /\ TaskType' /\ task'[t].pc = "idle" /\ task'[t].seq = 0
        /\ \A p \in Producers : p # t => task'[p] = task[p]
    <3> HIDE DEF Producers, Becomes
    <3> QED BY <2>1, <2>2, TaskFacts DEF SafeInv
  <2> QED BY <2>1, <2>3 DEF proto_free_buffers, wca
<1>2. TypeInv'
  BY <1>1
     DEF SafeInv, TypeInv, NfcType, CurType, RspType, SemType, LockType, QueueType,
         UxcType, ReaderType
<1>3. Bounded'
  BY <1>1, Constants DEF SafeInv, TypeInv, NfcType, RspType, Bounded
<1>4. Numbered'
  BY <1>1, Constants
     DEF SafeInv, TypeInv, NfcType, CurType, RspType, TaskType, QueueType, UxcType,
         Numbered
<1>5. OnePlace'
  BY <1>1, SamePlace DEF SafeInv
<1>6. Closed'
  BY <1>1, Constants DEF SafeInv, TypeInv, Numbered, Closed, Unanswerable
<1>7. Locked'
  BY <1>1, Constants DEF SafeInv, TypeInv, LockType, Locked
<1>8. Answered'
  BY <1>1, Constants DEF SafeInv, TypeInv, Answered
<1>9. Given'
  BY <1>1, Constants DEF SafeInv, TypeInv, Given, OwnResponse
<1> QED BY <1>2, <1>3, <1>4, <1>5, <1>6, <1>7, <1>8, <1>9 DEF SafeInv

-----------------------------------------------------------------------------
(* The transport as a whole *)
LEMMA InitSafe == Init => SafeInv
<1> SUFFICES ASSUME Init PROVE SafeInv
  OBVIOUS
<1>1. NfcType /\ CurType /\ RspType /\ SemType /\ LockType /\ UxcType /\ ReaderType
  BY Constants, Zeros, NobodyType
     DEF Init, NfcType, NfcPcs, CurType, RspType, NoResponse, SemType, LockType, UxcType, ReaderType
<1>2. TaskType
  <2>1. Free \in [pc : TaskPcs, seq : 0 .. MaxCommands]
    BY Zeros DEF Free, TaskPcs
  <2> QED BY <2>1 DEF Init, TaskType
<1>3. QueueType
  <2>1. <<>> \in Seq(Seqs)
    OBVIOUS
  <2> QED BY <2>1 DEF Init, QueueType
<1>4. /\ nfc.pc = "idle" /\ nfc.seq = 0 /\ nfc.asm = "none" /\ cur = 0
      /\ rsp.left = 0 /\ rsp.seq = 0 /\ lock = "free" /\ uxc = {}
      /\ reader.cmd = 0 /\ reader.got = <<>>
      /\ \A p \in Producers : task[p].pc = "idle"
      /\ \A t \in Handlers : queue[t] = <<>>
  BY NobodyFields DEF Init, NoResponse, Free
<1>5. \A t \in Handlers : DOMAIN queue[t] = {}
  BY <1>4
<1>6. Bounded /\ Numbered
  BY <1>4, <1>5 DEF Bounded, Numbered
<1>7. OnePlace
  BY <1>4, <1>5 DEF OnePlace, QueuedOnce, QueuedOnly, HeldOnce, HeldOnly
<1>8. Closed /\ Locked /\ Answered
  BY <1>4, <1>5, Constants DEF Closed, Unanswerable, Locked, Answered
<1>9. Given
  BY <1>4 DEF Given, OwnResponse
<1> QED BY <1>1, <1>2, <1>3, <1>6, <1>7, <1>8, <1>9 DEF SafeInv, TypeInv

LEMMA NextSafe == SafeInv /\ [Next]_vars => SafeInv'
<1> SUFFICES ASSUME SafeInv, [Next]_vars PROVE SafeInv'
  OBVIOUS
<1>1. CASE Apdu
  BY <1>1, WcaProtoSafe, WcaProtoContSafe, MalformedSafe, WcaGetResponseSafe,
     WcaResetSessionStateSafe
     DEF Apdu
<1>2. CASE NfcStep
  BY <1>2, HandleProtoExchangeSafe, IpcProtoRouteSafe, IpcSendSafe, SemTakeSafe, CheckResponseSafe,
     ProtoRetireCmdSeqSafe, ClearProtoStateSafe
     DEF NfcStep
<1>3. ASSUME NEW t \in Handlers, TaskStep(t) PROVE SafeInv'
  BY <1>3, AllocDecodedSafe, FreeRoutedSafe, HandleSafe DEF TaskStep
<1>4. ASSUME NEW t \in Producers, SendStep(t) PROVE SafeInv'
  <2> HIDE DEF Producers
  <2> QED
    BY <1>4, LockResponseSafe, HandleProtoResponseSafe, GiveResponseSafe,
       ProtoFreeBuffersSafe
       DEF SendStep
<1>5. CASE UNCHANGED vars
  <2>1. TypeInv' /\ Bounded'
    BY <1>5
       DEF vars, SafeInv, TypeInv, NfcType, CurType, RspType, SemType, LockType,
           TaskType, QueueType, UxcType, ReaderType, Bounded
  <2>2. Numbered' /\ OnePlace'
    BY <1>5
       DEF vars, SafeInv, Numbered, OnePlace, QueuedOnce, QueuedOnly, HeldOnce, HeldOnly
  <2>3. Closed' /\ Locked'
    BY <1>5 DEF vars, SafeInv, Closed, Unanswerable, Locked
  <2>4. Answered' /\ Given'
    BY <1>5 DEF vars, SafeInv, Answered, Given, OwnResponse
  <2> QED BY <2>1, <2>2, <2>3, <2>4 DEF SafeInv
<1> QED
  BY <1>1, <1>2, <1>3, <1>4, <1>5, UxcAnswersSafe DEF Next, Asserted

LEMMA SpecSafe == Spec => []SafeInv
BY InitSafe, NextSafe, PTL DEF Spec

\* The reader gets the parts of the response to the command it has sent last,
\* in their order and none twice: handle_proto_response compares the sequence
\* number under the lock of the response, so an answer that comes after the
\* time limit, for a command that was given up, is dropped, also when the next
\* command is already waiting.
THEOREM ReaderGetsItsOwn == Spec => []OwnResponse
<1>1. SafeInv => OwnResponse
  BY DEF SafeInv, Given
<1> QED BY <1>1, SpecSafe, PTL

-----------------------------------------------------------------------------
(* The pool *)
\* The entries of the pool that are in use: one for a command that is posted or
\* in a queue, one for a command with a handler, two while it is decoded.
Posting == nfc.pc = "post"
Posted == <<"nfc", "posted", 0>>
Queued(t) == {<<t, "queued", i>> : i \in DOMAIN queue[t]}
Entries ==
    (UNION {Queued(t) : t \in Handlers})
    \cup {<<t, "held", 1>> : t \in {h \in Handlers : Held(h)}}
    \cup {<<t, "held", 2>> : t \in {h \in Handlers : task[h].pc = "decoded"}}
    \cup (IF Posting THEN {Posted} ELSE {})

\* used counts the entries.
PoolInv ==
    /\ used \in 0 .. PoolSize /\ short \in 0 .. MaxCommands
    /\ short = 0 => IsFiniteSet(Entries) /\ used = Cardinality(Entries)
    /\ ShortOnlyWithBacklog

\* Membership, spelled out.
LEMMA IsEntry ==
    \A e : e \in Entries <=>
             \/ \E t \in Handlers : \E i \in DOMAIN queue[t] : e = <<t, "queued", i>>
             \/ \E t \in Handlers : Held(t) /\ e = <<t, "held", 1>>
             \/ \E t \in Handlers : task[t].pc = "decoded" /\ e = <<t, "held", 2>>
             \/ Posting /\ e = Posted
<1>1. \A e : e \in UNION {Queued(t) : t \in Handlers} <=> \E t \in Handlers : e \in Queued(t)
  OBVIOUS
<1>2. \A t, e : e \in Queued(t) <=> \E i \in DOMAIN queue[t] : e = <<t, "queued", i>>
  BY DEF Queued
<1> QED BY <1>1, <1>2 DEF Entries

LEMMA IsEntryNext ==
    \A e : e \in Entries' <=>
             \/ \E t \in Handlers : \E i \in DOMAIN queue'[t] : e = <<t, "queued", i>>
             \/ \E t \in Handlers : task'[t].pc # "idle" /\ e = <<t, "held", 1>>
             \/ \E t \in Handlers : task'[t].pc = "decoded" /\ e = <<t, "held", 2>>
             \/ Posting' /\ e = Posted
<1>1. \A e : e \in UNION {Queued(t)' : t \in Handlers} <=> \E t \in Handlers : e \in Queued(t)'
  OBVIOUS
<1>2. \A t, e : e \in Queued(t)' <=> \E i \in DOMAIN queue'[t] : e = <<t, "queued", i>>
  BY DEF Queued
<1> QED BY <1>1, <1>2 DEF Entries

\* The entries only depend on the queues, on which handlers hold a command and
\* on whether one is posted.
LEMMA SameEntries ==
    ASSUME queue' = queue, Posting' = Posting,
           \A t \in Handlers : Held(t)' = Held(t)
                               /\ ((task'[t].pc = "decoded") = (task[t].pc = "decoded"))
    PROVE  Entries' = Entries
<1>1. \A e : e \in Entries' <=> e \in Entries
  BY IsEntry, IsEntryNext
<1> HIDE DEF Held
<1> QED BY <1>1

LEMMA PoolKept ==
    ASSUME PoolInv, Entries' = Entries, UNCHANGED <<used, short>>
    PROVE  PoolInv'
BY DEF PoolInv, ShortOnlyWithBacklog

\* Freeing one entry.
LEMMA OneFreed ==
    ASSUME PoolInv, short = 0, NEW e \in Entries, Entries' = Entries \ {e},
           used' = used - 1, short' = short
    PROVE  PoolInv'
<1>1. IsFiniteSet(Entries) /\ used = Cardinality(Entries) /\ used \in 0 .. PoolSize
  BY DEF PoolInv
<1>2. IsFiniteSet(Entries') /\ Cardinality(Entries') = used - 1
  BY <1>1, FS_RemoveElement
<1>3. used - 1 \in 0 .. PoolSize
  BY <1>1, <1>2, FS_CardinalityType, Constants
<1> QED BY <1>2, <1>3 DEF PoolInv, ShortOnlyWithBacklog

\* Which commands are in the device, and that they are finitely many.
LEMMA IsInDevice ==
    \A x : x \in InDevice <=>
             \/ \E t \in Handlers : \E i \in DOMAIN queue[t] : x = queue[t][i]
             \/ \E t \in Handlers : Held(t) /\ x = task[t].seq
             \/ Posting /\ x = nfc.seq
<1> DEFINE Of(t) == {queue[t][i] : i \in DOMAIN queue[t]}
<1>1. \A x : x \in UNION {Of(t) : t \in Handlers} <=> \E t \in Handlers : x \in Of(t)
  <2> HIDE DEF Of
  <2> QED OBVIOUS
<1>2. \A t, x : x \in Of(t) <=> \E i \in DOMAIN queue[t] : x = queue[t][i]
  OBVIOUS
<1> QED BY <1>1, <1>2 DEF InDevice, Posting

LEMMA DeviceFinite == ASSUME SafeInv, NEW s \in Seqs
    PROVE  /\ IsFiniteSet(InDevice \cup {s}) /\ InDevice \cup {s} \subseteq Seqs
           /\ Cardinality(InDevice \cup {s}) \in 0 .. MaxCommands
<1>1. \A t \in Handlers : \A i \in DOMAIN queue[t] : queue[t][i] \in Seqs
  <2>1. \A t \in Handlers : queue[t] \in Seq(Seqs)
    BY DEF SafeInv, TypeInv, QueueType
  <2> HIDE DEF Seqs
  <2> QED BY <2>1
<1>2. \A t \in Handlers : Held(t) => task[t].seq \in Seqs
  <2>1. nfc.seq \in 0 .. MaxCommands
    BY DEF SafeInv, TypeInv, NfcType
  <2>2. \A t \in Handlers : Held(t) => task[t].seq \in 1 .. nfc.seq
    BY DEF SafeInv, Numbered
  <2> QED BY <2>1, <2>2, Constants
<1>6. Posting => nfc.seq \in Seqs
  BY DEF Posting, SafeInv, TypeInv, NfcType, Answered
<1>3. InDevice \cup {s} \subseteq Seqs
  <2> HIDE DEF Seqs
  <2> QED BY <1>1, <1>2, <1>6, IsInDevice
<1>4. IsFiniteSet(Seqs) /\ Cardinality(Seqs) = MaxCommands
  BY FS_Interval, Constants
<1>5. IsFiniteSet(InDevice \cup {s}) /\ Cardinality(InDevice \cup {s}) <= Cardinality(Seqs)
  <2> HIDE DEF Seqs
  <2> QED BY <1>3, <1>4, FS_Subset
<1> QED BY <1>3, <1>4, <1>5, FS_CardinalityType

\* A command holds two entries at most, one that is not decoded holds fewer.
LEMMA EntriesBound ==
    ASSUME SafeInv, NEW s \in Seqs,
           \A h \in Handlers : Held(h) => task[h].seq # s
    PROVE  Cardinality(Entries) < 2 * Cardinality(InDevice \cup {s})
<1> DEFINE D == InDevice \cup {s}
<1> DEFINE T == (D \X {1, 2}) \ {<<s, 2>>}
<1> DEFINE f == [e \in Entries |-> IF e[2] = "queued" THEN <<queue[e[1]][e[3]], 1>>
                                   ELSE IF e[2] = "posted" THEN <<nfc.seq, 1>>
                                   ELSE <<task[e[1]].seq, e[3]>>]
<1>1. IsFiniteSet(D) /\ Cardinality(D) \in Nat
  BY DeviceFinite, FS_CardinalityType
<1>2. IsFiniteSet({1, 2}) /\ Cardinality({1, 2}) = 2
  <2>1. {1, 2} = 1 .. 2
    OBVIOUS
  <2>2. IsFiniteSet(1 .. 2) /\ Cardinality(1 .. 2) = 2
    <3>1. IsFiniteSet(1 .. 2) /\ Cardinality(1 .. 2) = IF 1 > 2 THEN 0 ELSE 2 - 1 + 1
      <4>1. 1 \in Int /\ 2 \in Int
        OBVIOUS
      <4> QED BY <4>1, FS_Interval, Zenon
    <3> QED BY <3>1
  <2> QED BY <2>1, <2>2, Zenon
<1>3. IsFiniteSet(D \X {1, 2}) /\ Cardinality(D \X {1, 2}) = 2 * Cardinality(D)
  <2> HIDE DEF D
  <2>1. IsFiniteSet(D \X {1, 2}) /\ Cardinality(D \X {1, 2}) = Cardinality(D) * Cardinality({1, 2})
    BY <1>1, <1>2, FS_Product
  <2> QED BY <1>1, <1>2, <2>1
<1>4. <<s, 2>> \in D \X {1, 2}
  OBVIOUS
<1>5. IsFiniteSet(T) /\ Cardinality(T) = 2 * Cardinality(D) - 1
  <2> DEFINE P == D \X {1, 2}
  <2>1. IsFiniteSet(P) /\ <<s, 2>> \in P /\ Cardinality(P) = 2 * Cardinality(D)
    BY <1>3, <1>4
  <2> HIDE DEF P
  <2>2. IsFiniteSet(P \ {<<s, 2>>}) /\ Cardinality(P \ {<<s, 2>>}) = Cardinality(P) - 1
    BY <2>1, FS_RemoveElement
  <2> QED BY <2>1, <2>2 DEF P
<1>6. f \in Injection(Entries, T)
  <2>1. ASSUME NEW t \in Handlers, NEW i \in DOMAIN queue[t]
        PROVE  f[<<t, "queued", i>>] = <<queue[t][i], 1>> /\ <<queue[t][i], 1>> \in T
    <3>1. <<t, "queued", i>> \in Entries
      BY IsEntry
    <3>2. queue[t][i] \in D
      BY IsInDevice
    <3> QED BY <3>1, <3>2
  <2>2. ASSUME NEW t \in Handlers, NEW i \in {1, 2}, <<t, "held", i>> \in Entries
        PROVE  /\ Held(t) /\ f[<<t, "held", i>>] = <<task[t].seq, i>>
               /\ <<task[t].seq, i>> \in T
    <3>1. Held(t)
      BY <2>2, IsEntry DEF Posted
    <3>2. task[t].seq \in D
      BY <3>1, IsInDevice
    <3>3. task[t].seq # s
      BY <3>1
    <3>4. f[<<t, "held", i>>] = <<task[t].seq, i>>
      BY <2>2
    <3> QED BY <3>1, <3>2, <3>3, <3>4
  <2>3. \A e \in Entries :
           \/ \E t \in Handlers : \E i \in DOMAIN queue[t] : e = <<t, "queued", i>>
           \/ \E t \in Handlers : \E i \in {1, 2} : e = <<t, "held", i>>
           \/ Posting /\ e = Posted
    BY IsEntry
  <2>7. Posting => f[Posted] = <<nfc.seq, 1>> /\ <<nfc.seq, 1>> \in T
    <3> HAVE Posting
    <3>1. Posted \in Entries /\ nfc.seq \in D
      BY IsEntry, IsInDevice
    <3>2. Posted[2] = "posted"
      BY DEF Posted
    <3> QED BY <3>1, <3>2
  <2>8. Posting => /\ \A t \in Handlers : \A i \in DOMAIN queue[t] : queue[t][i] # nfc.seq
                   /\ \A t \in Handlers : Held(t) => task[t].seq # nfc.seq
    BY DEF Posting, SafeInv, Closed, Unanswerable
  <2> HIDE DEF f, T
  <2>4. \A e \in Entries : f[e] \in T
    BY <2>1, <2>2, <2>3, <2>7, ZenonT(60)
  <2>5. ASSUME NEW a \in Entries, NEW b \in Entries, f[a] = f[b]
        PROVE  a = b
    <3>1. CASE \E t, u \in Handlers : \E i \in DOMAIN queue[t] : \E j \in DOMAIN queue[u] :
                  a = <<t, "queued", i>> /\ b = <<u, "queued", j>>
      <4>1. PICK t \in Handlers, u \in Handlers : \E i \in DOMAIN queue[t] : \E j \in DOMAIN queue[u] :
                  a = <<t, "queued", i>> /\ b = <<u, "queued", j>>
        BY <3>1
      <4>2. PICK i \in DOMAIN queue[t], j \in DOMAIN queue[u] :
                  a = <<t, "queued", i>> /\ b = <<u, "queued", j>>
        BY <4>1
      <4>3. f[a] = <<queue[t][i], 1>> /\ f[b] = <<queue[u][j], 1>>
        BY <2>1, <4>2
      <4>4. queue[t][i] = queue[u][j]
        <5> DEFINE x == queue[t][i]
        <5> DEFINE y == queue[u][j]
        <5>1. <<x, 1>> = <<y, 1>>
          BY <2>5, <4>3
        <5> HIDE DEF x, y
        <5>2. x = y
          BY <5>1
        <5> QED BY <5>2 DEF x, y
      <4> QED BY <4>2, <4>4 DEF SafeInv, OnePlace, QueuedOnce
    <3>2. CASE \E t, u \in Handlers : \E i, j \in {1, 2} :
                  a = <<t, "held", i>> /\ b = <<u, "held", j>>
      <4>1. PICK t \in Handlers, u \in Handlers, i \in {1, 2}, j \in {1, 2} :
                  a = <<t, "held", i>> /\ b = <<u, "held", j>>
        BY <3>2
      <4>2. Held(t) /\ Held(u) /\ f[a] = <<task[t].seq, i>> /\ f[b] = <<task[u].seq, j>>
        BY <2>2, <4>1
      <4>3. task[t].seq = task[u].seq /\ i = j
        <5>1. <<task[t].seq, i>> = <<task[u].seq, j>>
          BY <2>5, <4>2
        <5> QED BY <5>1
      <4>4. t = u
        BY <4>2, <4>3 DEF SafeInv, OnePlace, HeldOnce
      <4> QED BY <4>1, <4>3, <4>4
    <3>3. ASSUME NEW x \in Entries, NEW y \in Entries, f[x] = f[y],
                 NEW t \in Handlers, NEW i \in DOMAIN queue[t], x = <<t, "queued", i>>,
                 NEW u \in Handlers, NEW j \in {1, 2}, y = <<u, "held", j>>
          PROVE  FALSE
      <4>1. Held(u) /\ f[y] = <<task[u].seq, j>> /\ f[x] = <<queue[t][i], 1>>
        BY <2>1, <2>2, <3>3
      <4>2. task[u].seq = queue[t][i]
        BY <3>3, <4>1
      <4> QED BY <4>1, <4>2 DEF SafeInv, OnePlace, QueuedOnly
    <3>4. ASSUME Posting, NEW y \in Entries, f[Posted] = f[y] PROVE y = Posted
      <4>1. ASSUME NEW t \in Handlers, NEW i \in DOMAIN queue[t], y = <<t, "queued", i>> PROVE FALSE
        <5>1. f[y] = <<queue[t][i], 1>> /\ f[Posted] = <<nfc.seq, 1>>
          BY <2>1, <2>7, <3>4, <4>1
        <5>2. queue[t][i] = nfc.seq
          BY <3>4, <5>1
        <5> QED BY <2>8, <3>4, <5>2
      <4>2. ASSUME NEW t \in Handlers, NEW i \in {1, 2}, y = <<t, "held", i>> PROVE FALSE
        <5>1. Held(t) /\ f[y] = <<task[t].seq, i>> /\ f[Posted] = <<nfc.seq, 1>>
          BY <2>2, <2>7, <3>4, <4>2
        <5>2. task[t].seq = nfc.seq
          BY <3>4, <5>1
        <5> QED BY <2>8, <3>4, <5>1, <5>2
      <4> QED BY <2>3, <4>1, <4>2
    <3>5. CASE a = Posted /\ Posting
      BY <2>5, <3>4, <3>5
    <3>6. CASE b = Posted /\ Posting
      BY <2>5, <3>4, <3>6
    <3> QED BY <2>3, <2>5, <3>1, <3>2, <3>3, <3>5, <3>6
  <2>6. f \in [Entries -> T]
    BY <2>4 DEF f
  <2> QED BY <2>5, <2>6 DEF Injection, IsInjective
<1>7. Cardinality(Entries) <= Cardinality(T) /\ IsFiniteSet(Entries)
  <2> HIDE DEF f, T
  <2> QED BY <1>5, <1>6, FS_Injection
<1>8. Cardinality(Entries) \in Nat
  BY <1>7, FS_CardinalityType
<1> HIDE DEF D, T
<1>9. Cardinality(Entries) < 2 * Cardinality(D)
  BY <1>1, <1>5, <1>7, <1>8
<1> QED BY <1>9 DEF D

\* mempool_alloc of one entry for the command s, whose entries then are Entries'.
LEMMA AllocCounts ==
    ASSUME SafeInv, PoolInv, short = 0, NEW s \in Seqs, mempool_alloc(1, s),
           \A h \in Handlers : Held(h) => task[h].seq # s,
           IsFiniteSet(Entries'), Cardinality(Entries') = Cardinality(Entries) + 1
    PROVE  PoolInv'
<1>1. used = Cardinality(Entries) /\ used \in Nat /\ used <= PoolSize
  BY Constants DEF PoolInv
<1>2. CASE used + 1 <= PoolSize /\ used' = used + 1 /\ UNCHANGED short
  <2>1. used' \in 0 .. PoolSize
    BY <1>1, <1>2, Constants
  <2> QED BY <1>1, <1>2, <2>1 DEF PoolInv, ShortOnlyWithBacklog
<1>3. CASE /\ ~(used + 1 <= PoolSize)
           /\ used' = used /\ short' = Cardinality(InDevice \cup {s})
  <2>1. short' \in 0 .. MaxCommands
    BY <1>3, DeviceFinite
  <2>2. used < 2 * short'
    BY <1>1, <1>3, EntriesBound
  <2>3. used = PoolSize
    BY <1>1, <1>3, Constants
  <2>4. ASSUME NEW n \in 0 .. MaxCommands, PoolSize < 2 * n PROVE 2 * n > PoolSize /\ n # 0
    BY <2>4, Constants
  <2>5. 2 * short' > PoolSize /\ short' # 0
    BY <2>1, <2>2, <2>3, <2>4
  <2> QED BY <1>1, <1>3, <2>1, <2>5 DEF PoolInv, ShortOnlyWithBacklog
<1> QED BY <1>2, <1>3 DEF mempool_alloc

-----------------------------------------------------------------------------
LEMMA RoutePool == ASSUME SafeInv, PoolInv, ipc_proto_route PROVE PoolInv'
<1>1. CASE UNCHANGED tasks /\ ~Posting'
  <2>1. ~Posting
    BY DEF ipc_proto_route, Posting
  <2>3. Posting' = Posting
    BY <1>1, <2>1 DEF Posting
  <2>2. Entries' = Entries
    BY <1>1, <2>3, SameEntries DEF tasks
  <2> QED BY <1>1, <2>2, PoolKept DEF tasks
<1>2. ASSUME NEW t \in Handlers, mempool_alloc(1, nfc.seq),
             nfc' = [nfc EXCEPT !.pc = "post", !.to = t], UNCHANGED <<task, queue>>
      PROVE  PoolInv'
  <2>1. /\ nfc.pc = "route" /\ short = 0 /\ nfc.seq \in Seqs
        /\ \A h \in Handlers : Held(h) => task[h].seq # nfc.seq
    <3>1. nfc.pc = "route" /\ short = 0
      BY DEF ipc_proto_route
    <3> QED BY <3>1 DEF SafeInv, TypeInv, NfcType, Answered, Closed
  <2>2. ~Posting /\ Posting'
    BY <1>2, <2>1 DEF Posting, SafeInv, TypeInv, NfcType
  <2>3. Posted \notin Entries
    BY <2>2, IsEntry DEF Posted
  <2>4. \A x : x \in Entries' <=> x \in Entries \/ x = Posted
    BY <1>2, <2>2, IsEntry, IsEntryNext
  <2>5. Entries' = Entries \cup {Posted}
    BY <2>4
  <2>6. IsFiniteSet(Entries') /\ Cardinality(Entries') = Cardinality(Entries) + 1
    BY <2>1, <2>3, <2>5, FS_AddElement DEF PoolInv
  <2> QED BY <1>2, <2>1, <2>6, AllocCounts
<1>3. (Goto("wait") \/ nfc' = [nfc EXCEPT !.pc = "idle", !.asm = "none"]) => ~Posting'
  BY DEF Posting, SafeInv, TypeInv, NfcType
<1> QED BY <1>1, <1>2, <1>3 DEF ipc_proto_route

\* The entry of a posted command goes with it into the queue.
LEMMA SendPool == ASSUME SafeInv, PoolInv, ipc_send PROVE PoolInv'
<1> DEFINE t == nfc.to
<1> DEFINE e == <<t, "queued", Len(queue[t]) + 1>>
<1>1. /\ nfc.pc = "post" /\ short = 0 /\ t \in Handlers /\ nfc.seq \in Seqs
      /\ queue' = [queue EXCEPT ![t] = Append(@, nfc.seq)] /\ UNCHANGED <<task, used, short>>
  BY DEF ipc_send, SafeInv, TypeInv, NfcType, Answered
<1>2. Posting /\ ~Posting'
  BY DEF ipc_send, Posting, SafeInv, TypeInv, NfcType
<1>3. queue[t] \in Seq(Seqs) /\ Len(queue[t]) \in Nat /\ DOMAIN queue[t] = 1 .. Len(queue[t])
  BY <1>1 DEF SafeInv, TypeInv, QueueType
<1>4. /\ DOMAIN queue'[t] = DOMAIN queue[t] \cup {Len(queue[t]) + 1}
      /\ \A u \in Handlers : u # t => queue'[u] = queue[u]
  <2>1. queue'[t] = Append(queue[t], nfc.seq) /\ \A u \in Handlers : u # t => queue'[u] = queue[u]
    BY <1>1 DEF SafeInv, TypeInv, QueueType
  <2> QED BY <1>1, <1>3, <2>1
<1>5. e \notin Entries /\ Posted \in Entries /\ e # Posted
  BY <1>2, <1>3, IsEntry DEF Posted
<1> HIDE DEF t
<1>6. \A x : x \in Entries' <=> (x \in Entries /\ x # Posted) \/ x = e
  <2>1. \A u \in Handlers : \A i : i \in DOMAIN queue'[u] <=>
           i \in DOMAIN queue[u] \/ <<u, "queued", i>> = e
    BY <1>4
  <2>2. e = <<t, "queued", Len(queue[t]) + 1>> /\ Len(queue[t]) + 1 \in DOMAIN queue'[t]
    BY <1>4
  <2>3. \A x : (x \in Entries /\ x # Posted) <=>
             \/ \E u \in Handlers : \E i \in DOMAIN queue[u] : x = <<u, "queued", i>>
             \/ \E u \in Handlers : Held(u) /\ x = <<u, "held", 1>>
             \/ \E u \in Handlers : task[u].pc = "decoded" /\ x = <<u, "held", 2>>
    BY IsEntry DEF Posted
  <2> HIDE DEF e
  <2> QED BY <1>1, <1>2, <2>1, <2>2, <2>3, IsEntryNext
<1> HIDE DEF e
<1>7. Entries' = (Entries \ {Posted}) \cup {e}
  BY <1>5, <1>6
<1>8. IsFiniteSet(Entries) /\ Cardinality(Entries) \in Nat
  BY <1>1, FS_CardinalityType DEF PoolInv
<1>9. /\ IsFiniteSet(Entries \ {Posted})
      /\ Cardinality(Entries \ {Posted}) = Cardinality(Entries) - 1
  BY <1>5, <1>8, FS_RemoveElement
<1>10. IsFiniteSet(Entries') /\ Cardinality(Entries') = Cardinality(Entries)
  <2>1. e \notin Entries \ {Posted}
    BY <1>5
  <2>2. IsFiniteSet(Entries') /\ Cardinality(Entries') = Cardinality(Entries \ {Posted}) + 1
    BY <1>7, <1>9, <2>1, FS_AddElement
  <2> QED BY <1>8, <1>9, <2>2
<1> QED BY <1>1, <1>10 DEF PoolInv, ShortOnlyWithBacklog

LEMMA AllocDecodedPool == ASSUME SafeInv, PoolInv, NEW t \in Handlers, AllocDecoded(t) PROVE PoolInv'
<1> DEFINE s == Head(queue[t])
<1> DEFINE q == <<t, "queued", Len(queue[t])>>
<1> DEFINE r == <<t, "held", 1>>
<1> DEFINE d == <<t, "held", 2>>
<1>1. /\ short = 0 /\ task[t].pc = "idle" /\ mempool_alloc(1, s)
      /\ task' = [task EXCEPT ![t] = [pc |-> "decoded", seq |-> s]]
      /\ queue' = [queue EXCEPT ![t] = Tail(@)]
  BY DEF AllocDecoded
<1>2. queue[t] \in Seq(Seqs) /\ queue[t] # <<>> /\ Len(queue[t]) \in Nat \ {0}
      /\ DOMAIN queue[t] = 1 .. Len(queue[t])
  BY DEF SafeInv, TypeInv, QueueType, AllocDecoded
<1>3. /\ s = queue[t][1] /\ s \in Seqs /\ 1 \in DOMAIN queue[t]
      /\ DOMAIN Tail(queue[t]) = 1 .. Len(queue[t]) - 1
  BY <1>2, Tailing
<1>4. \A h \in Handlers : Held(h) => task[h].seq # s
  BY <1>3 DEF SafeInv, OnePlace, QueuedOnly
<1>5. /\ DOMAIN queue'[t] = DOMAIN queue[t] \ {Len(queue[t])} /\ Len(queue[t]) \in DOMAIN queue[t]
      /\ \A u \in Handlers : u # t => queue'[u] = queue[u]
  <2>1. queue'[t] = Tail(queue[t]) /\ \A u \in Handlers : u # t => queue'[u] = queue[u]
    BY <1>1 DEF SafeInv, TypeInv, QueueType
  <2> QED BY <1>2, <1>3, <2>1
<1>6. task'[t].pc = "decoded" /\ \A u \in Handlers : u # t => task'[u] = task[u]
  BY <1>1 DEF SafeInv, TypeInv, TaskType
<1>7. q \in Entries /\ r \notin Entries /\ d \notin Entries /\ r # d /\ q # r
  BY <1>1, <1>5, IsEntry DEF Posted
<1>14. Posting' = Posting /\ q # Posted
  BY DEF AllocDecoded, wca, Posting, Posted
<1>8. \A x : x \in Entries' <=> (x \in Entries /\ x # q) \/ x = r \/ x = d
  <2>1. \A u \in Handlers : \A i : i \in DOMAIN queue'[u] <=>
             i \in DOMAIN queue[u] /\ <<u, "queued", i>> # q
    BY <1>5
  <2>2. \A u \in Handlers : task'[u].pc # "idle" <=> Held(u) \/ u = t
    BY <1>6
  <2>3. \A u \in Handlers : task'[u].pc = "decoded" <=> task[u].pc = "decoded" \/ u = t
    BY <1>6
  <2> QED BY <1>14, <2>1, <2>2, <2>3, IsEntry, IsEntryNext
<1> HIDE DEF q, r, d, s
<1>9. Entries' = ((Entries \ {q}) \cup {r}) \cup {d}
  BY <1>7, <1>8
<1>10. IsFiniteSet(Entries) /\ Cardinality(Entries) \in Nat
  BY <1>1, FS_CardinalityType DEF PoolInv
<1>11. IsFiniteSet(Entries \ {q}) /\ Cardinality(Entries \ {q}) = Cardinality(Entries) - 1
  BY <1>7, <1>10, FS_RemoveElement
<1>12. /\ IsFiniteSet((Entries \ {q}) \cup {r})
       /\ Cardinality((Entries \ {q}) \cup {r}) = Cardinality(Entries)
  <2>1. r \notin Entries \ {q}
    BY <1>7
  <2>2. /\ IsFiniteSet((Entries \ {q}) \cup {r})
        /\ Cardinality((Entries \ {q}) \cup {r}) = Cardinality(Entries \ {q}) + 1
    BY <1>11, <2>1, FS_AddElement
  <2> QED BY <1>10, <1>11, <2>2
<1>13. IsFiniteSet(Entries') /\ Cardinality(Entries') = Cardinality(Entries) + 1
  <2>1. d \notin (Entries \ {q}) \cup {r}
    BY <1>7
  <2> QED BY <1>9, <1>12, <2>1, FS_AddElement
<1> QED BY <1>1, <1>3, <1>4, <1>13, AllocCounts

\* A handler that goes on with its command keeps its entry.
LEMMA Proceeds ==
    ASSUME SafeInv, PoolInv, NEW t \in Producers, Held(t), task[t].pc # "decoded",
           NEW pc \in TaskPcs \ {"idle", "decoded"}, Becomes(t, pc),
           UNCHANGED <<nfc, queue, used, short>>
    PROVE  PoolInv'
<1>1. task'[t].pc = pc /\ \A p \in Producers : p # t => task'[p] = task[p]
  BY DEF SafeInv, TypeInv, TaskType
<1>2. Entries' = Entries
  BY <1>1, SameEntries DEF Posting
<1> QED BY <1>2, PoolKept

LEMMA FreeRoutedPool == ASSUME SafeInv, PoolInv, NEW t \in Handlers, FreeRouted(t) PROVE PoolInv'
<1> DEFINE d == <<t, "held", 2>>
<1>1. task'[t].pc = "busy" /\ \A p \in Producers : p # t => task'[p] = task[p]
  BY DEF FreeRouted, SafeInv, TypeInv, TaskType
<1>2. task[t].pc = "decoded" /\ short = 0 /\ used' = used - 1 /\ short' = short /\ queue' = queue
  BY DEF FreeRouted
<1>3. d \in Entries /\ d # Posted /\ Posting' = Posting
  BY <1>2, IsEntry DEF Posted, Posting, FreeRouted, wca
<1>4. \A x : x \in Entries' <=> x \in Entries /\ x # d
  <2>1. \A u \in Handlers : task'[u].pc # "idle" <=> Held(u)
    BY <1>1, <1>2
  <2>2. \A u \in Handlers : task'[u].pc = "decoded" <=> task[u].pc = "decoded" /\ u # t
    BY <1>1, <1>2
  <2> QED BY <1>2, <1>3, <2>1, <2>2, IsEntry, IsEntryNext
<1> HIDE DEF d
<1>5. Entries' = Entries \ {d}
  BY <1>4
<1> QED BY <1>2, <1>3, <1>5, OneFreed

\* A handler that is through with its command frees its entry.
LEMMA Frees ==
    ASSUME SafeInv, PoolInv, short = 0, NEW t \in Handlers, Held(t), task[t].pc # "decoded",
           task' = [task EXCEPT ![t] = Free], used' = used - 1, UNCHANGED <<nfc, queue, short>>
    PROVE  PoolInv'
<1> DEFINE r == <<t, "held", 1>>
<1>1. task'[t].pc = "idle" /\ \A p \in Producers : p # t => task'[p] = task[p]
  BY DEF SafeInv, TypeInv, TaskType, Free
<1>2. r \in Entries /\ r # Posted /\ Posting' = Posting
  BY IsEntry DEF Posted, Posting
<1>3. \A x : x \in Entries' <=> x \in Entries /\ x # r
  <2>1. \A u \in Handlers : task'[u].pc # "idle" <=> Held(u) /\ u # t
    BY <1>1
  <2>2. \A u \in Handlers : task'[u].pc = "decoded" <=> task[u].pc = "decoded"
    BY <1>1
  <2> QED BY <1>2, <2>1, <2>2, IsEntry, IsEntryNext
<1> HIDE DEF r
<1>4. Entries' = Entries \ {r}
  BY <1>3
<1> QED BY <1>2, <1>4, OneFreed

LEMMA HandlePool == ASSUME SafeInv, PoolInv, NEW t \in Handlers, Handle(t) PROVE PoolInv'
<1>1. short = 0 /\ task[t].pc = "busy" /\ UNCHANGED <<nfc, queue, short>>
  BY DEF Handle, wca
<1>2. CASE Becomes(t, "send") /\ UNCHANGED used
  <2>1. t \in Producers /\ "send" \in TaskPcs \ {"idle", "decoded"}
    BY DEF TaskPcs
  <2> HIDE DEF Producers, Becomes
  <2> QED BY <1>1, <1>2, <2>1, Proceeds
<1>3. CASE used' = used - 1 /\ task' = [task EXCEPT ![t] = Free]
  BY <1>1, <1>3, Frees
<1> QED BY <1>2, <1>3 DEF Handle

\* What the USART task does is nothing to the pool.
LEMMA UsartPool ==
    ASSUME SafeInv, PoolInv, UNCHANGED <<nfc, queue, used, short>>,
           \A t \in Handlers : task'[t] = task[t]
    PROVE  PoolInv'
<1>1. Entries' = Entries
  BY SameEntries DEF Posting
<1> QED BY <1>1, PoolKept

LEMMA UxcAnswersPool == ASSUME SafeInv, PoolInv, UxcAnswers PROVE PoolInv'
<1>1. \A t \in Handlers : task'[t] = task[t]
  BY Constants DEF UxcAnswers, SafeInv, TypeInv, TaskType
<1> QED BY <1>1, UsartPool DEF UxcAnswers, wca

LEMMA SendStepPool == ASSUME SafeInv, PoolInv, NEW t \in Producers, SendStep(t) PROVE PoolInv'
<1>1. \A pc \in {"done", "encode", "give"} : pc \in TaskPcs \ {"idle", "decoded"}
  BY DEF TaskPcs
<1>2. CASE LockResponse(t)
  <2> HIDE DEF Producers
  <2> QED BY <1>1, <1>2, Proceeds DEF LockResponse
<1>3. CASE handle_proto_response(t)
  <2> HIDE DEF Producers
  <2> QED BY <1>1, <1>3, Proceeds DEF handle_proto_response
<1>4. CASE GiveResponse(t)
  <2> HIDE DEF Producers
  <2> QED BY <1>1, <1>4, Proceeds DEF GiveResponse
<1>5. CASE proto_free_buffers(t)
  <2>1. CASE t \in Handlers
    BY <1>5, <2>1, Frees DEF proto_free_buffers, wca
  <2>2. CASE t \notin Handlers
    <3>1. \A u \in Handlers : task'[u] = task[u]
      BY <1>5, <2>2 DEF proto_free_buffers, SafeInv, TypeInv, TaskType
    <3> QED BY <1>5, <2>2, <3>1, UsartPool DEF proto_free_buffers, wca
  <2> QED BY <2>1, <2>2
<1> QED BY <1>2, <1>3, <1>4, <1>5 DEF SendStep

LEMMA TasksPool == ASSUME SafeInv, PoolInv, UNCHANGED tasks, Posting' = Posting PROVE PoolInv'
<1>1. Entries' = Entries
  BY SameEntries DEF tasks
<1> QED BY <1>1, PoolKept DEF tasks

LEMMA NextPool == SafeInv /\ PoolInv /\ [Next]_vars => PoolInv'
<1> SUFFICES ASSUME SafeInv, PoolInv, [Next]_vars PROVE PoolInv'
  OBVIOUS
<1>1. CASE Apdu
  <2>1. UNCHANGED tasks /\ nfc.pc = "idle" /\ nfc'.pc \in {"idle", "exchange", "retire"}
    BY <1>1
       DEF Apdu, wca_proto, wca_proto_cont, Malformed, wca_get_response,
           wca_reset_session_state, SafeInv, TypeInv, NfcType
  <2>2. Posting' = Posting
    BY <2>1 DEF Posting
  <2> QED BY <2>1, <2>2, TasksPool
<1>2. CASE NfcStep
  <2>1. CASE ipc_proto_route \/ ipc_send
    BY <2>1, RoutePool, SendPool
  <2>2. CASE \/ handle_proto_exchange \/ SemTake \/ CheckResponse
             \/ proto_retire_cmd_seq \/ clear_proto_state
    <3>1. UNCHANGED tasks /\ nfc.pc # "post" /\ nfc'.pc # "post"
      BY <2>2
         DEF handle_proto_exchange, SemTake, CheckResponse, proto_retire_cmd_seq,
             clear_proto_state, SafeInv, TypeInv, NfcType
    <3>2. Posting' = Posting
      BY <3>1 DEF Posting
    <3> QED BY <3>1, <3>2, TasksPool
  <2> QED BY <1>2, <2>1, <2>2 DEF NfcStep
<1>3. ASSUME NEW t \in Handlers, TaskStep(t) PROVE PoolInv'
  BY <1>3, AllocDecodedPool, FreeRoutedPool, HandlePool DEF TaskStep
<1>4. ASSUME NEW t \in Producers, SendStep(t) PROVE PoolInv'
  BY <1>4, SendStepPool
<1>5. CASE UNCHANGED vars
  BY <1>5, TasksPool DEF vars, tasks, Posting
<1> QED
  BY <1>1, <1>2, <1>3, <1>4, <1>5, UxcAnswersPool DEF Next, Asserted

LEMMA InitPool == Init => PoolInv
<1> SUFFICES ASSUME Init PROVE PoolInv
  OBVIOUS
<1>1. \A t \in Handlers : queue[t] = <<>> /\ task[t].pc = "idle"
  BY DEF Init, Free
<1>2. Entries = {}
  <2>1. \A t \in Handlers : DOMAIN queue[t] = {}
    BY <1>1
  <2>2. ~Posting
    BY DEF Init, Posting
  <2> QED BY <1>1, <2>1, <2>2, IsEntry
<1> QED BY <1>2, FS_EmptySet, Constants DEF Init, PoolInv, ShortOnlyWithBacklog

LEMMA SpecPool == Spec => []PoolInv
BY SpecSafe, InitPool, NextPool, PTL DEF Spec

\* mempool_alloc finds the pool of the command buffers empty only when the
\* commands still in the device, at two entries each, can fill it: a command
\* that was answered has freed both of its own (proto_free_buffers).
THEOREM BacklogExhaustsPool == Spec => []ShortOnlyWithBacklog
<1>1. PoolInv => ShortOnlyWithBacklog
  BY DEF PoolInv
<1> QED BY <1>1, SpecPool, PTL

\* A command is added to a queue only where there is a slot.
QueuesFit == \A t \in Handlers : Len(queue[t]) <= QueueSize

LEMMA NextFits == SafeInv /\ QueuesFit /\ [Next]_vars => QueuesFit'
<1> SUFFICES ASSUME SafeInv, QueuesFit, [Next]_vars PROVE QueuesFit'
  OBVIOUS
<1>1. \A t \in Handlers : queue[t] \in Seq(Seqs) /\ Len(queue[t]) \in Nat
  BY DEF SafeInv, TypeInv, QueueType
<1>2. CASE ipc_send
  <2>1. nfc.to \in Handlers /\ Len(queue[nfc.to]) < QueueSize
        /\ queue' = [queue EXCEPT ![nfc.to] = Append(@, nfc.seq)]
    BY <1>2 DEF ipc_send, SafeInv, TypeInv, NfcType
  <2>2. Len(Append(queue[nfc.to], nfc.seq)) = Len(queue[nfc.to]) + 1
    BY <1>1, <2>1
  <2> QED BY <1>1, <2>1, <2>2, Constants DEF QueuesFit, SafeInv, TypeInv, QueueType
<1>3. ASSUME NEW t \in Handlers, AllocDecoded(t) PROVE QueuesFit'
  <2>1. queue[t] # <<>> /\ queue' = [queue EXCEPT ![t] = Tail(@)]
    BY <1>3 DEF AllocDecoded
  <2>2. Len(Tail(queue[t])) = Len(queue[t]) - 1
    BY <1>1, <2>1
  <2> QED BY <1>1, <2>1, <2>2, Constants DEF QueuesFit, SafeInv, TypeInv, QueueType
<1>4. CASE UNCHANGED queue
  BY <1>4 DEF QueuesFit
<1>5. \A t \in Handlers : TaskStep(t) => AllocDecoded(t) \/ UNCHANGED queue
  BY DEF TaskStep, FreeRouted, Handle
<1>6. \A t \in Producers : SendStep(t) => UNCHANGED queue
  BY DEF SendStep, LockResponse, handle_proto_response, GiveResponse, proto_free_buffers
<1>7. Apdu => UNCHANGED queue
  BY DEF Apdu, wca_proto, wca_proto_cont, Malformed, wca_get_response,
         wca_reset_session_state, tasks
<1>8. NfcStep => ipc_send \/ UNCHANGED queue
  BY DEF NfcStep, handle_proto_exchange, ipc_proto_route, SemTake, CheckResponse,
         proto_retire_cmd_seq, clear_proto_state, tasks
<1>9. (UxcAnswers \/ Asserted \/ UNCHANGED vars) => UNCHANGED queue
  BY DEF UxcAnswers, Asserted, vars
<1> QED BY <1>2, <1>3, <1>4, <1>5, <1>6, <1>7, <1>8, <1>9 DEF Next

LEMMA SpecFits == Spec => []QueuesFit
<1>1. Init => QueuesFit
  BY Constants DEF Init, QueuesFit
<1> QED BY <1>1, SpecSafe, NextFits, PTL DEF Spec

\* Every variable keeps its type; the queues and the pool keep their bounds.
THEOREM TypeCorrect == Spec => []TypeOK
<1>1. SafeInv /\ PoolInv /\ QueuesFit => TypeOK
  <2> SUFFICES ASSUME SafeInv, PoolInv, QueuesFit PROVE TypeOK
    OBVIOUS
  <2>1. Len(reader.got) <= Parts
    BY Constants DEF SafeInv, TypeInv, RspType, ReaderType, Given
  <2> QED
    BY <2>1
       DEF SafeInv, TypeInv, NfcType, NfcPcs, CurType, RspType, SemType, LockType,
           TaskType, TaskPcs, QueueType, UxcType, ReaderType, PoolInv, QueuesFit, TypeOK
<1> QED BY <1>1, SpecSafe, SpecPool, SpecFits, PTL

=============================================================================
