-------------------------------- MODULE Wca --------------------------------
(***************************************************************************)
(* The transport of commands over NFC (lib/wca) down to the tasks that     *)
(* answer them (lib/ipc, proto_helpers): a reader sends a command in one   *)
(* or two APDUs, the NFC thread queues it to a task, waiting for a slot if *)
(* the queue is full, and waits for its response, and the reader fetches   *)
(* the response in chunks.                                                 *)
(*                                                                         *)
(* The thread gives a command up after seven seconds; the command does     *)
(* not know that.  It stays in its queue, or goes on, and its response may *)
(* come at any later time, from the task or, if the task had to ask the    *)
(* UXC, from the USART task.  What keeps it from the reader is the sequence*)
(* number of the command, and the lock under which it is compared.         *)
(***************************************************************************)
EXTENDS Integers, Sequences, FiniteSets

CONSTANTS
    Handlers,      \* tasks that commands are routed to
    Parts,         \* chunks of a response
    QueueSize,     \* slots of a task's queue that commands get
    PoolSize,      \* entries of the region of the pool that commands use
    MaxCommands    \* bound on the commands sent: values of cmd_seq

ASSUME ConstantsAssumption ==
    /\ IsFiniteSet(Handlers) /\ Handlers \cap {"usart", "free"} = {}
    /\ {Parts, QueueSize, PoolSize, MaxCommands} \subseteq Nat \ {0}

VARIABLES
    nfc,      \* NFC thread: where it is, cmd_seq, assembly of the command (cmd_ctx),
              \* the task it posts to
    cur,      \* g_cmd_seq: the command that may be answered; 0: none
    rsp,      \* response buffer: whose response, next chunk, chunks left; response_seq
    sem,      \* proto_response_sem
    lock,     \* who holds response_lock
    task,     \* what each handler, and the USART task, is doing for which command
    queue,    \* commands queued to each handler
    uxc,      \* commands the UXC was asked about
    used,     \* entries of the pool in use
    short,    \* history: commands in the device when the pool ran out; 0: it did not
    reader    \* history: the command the reader waits for, the chunks it got, were there more

vars == <<nfc, cur, rsp, sem, lock, task, queue, uxc, used, short, reader>>

Seqs == 1 .. MaxCommands
Producers == Handlers \cup {"usart"}
NoResponse == [of |-> 0, at |-> 1, left |-> 0, seq |-> 0]
Nobody == [cmd |-> 0, got |-> <<>>, more |-> FALSE]
Free == [pc |-> "idle", seq |-> 0]

TypeOK ==
    /\ nfc \in [pc : {"idle", "exchange", "route", "post", "wait", "check", "retire", "clear"},
                seq : 0 .. MaxCommands, asm : {"none", "partial", "full"},
                to : Handlers \cup {"free"}]
    /\ nfc.pc = "post" => nfc.to \in Handlers
    /\ cur \in 0 .. MaxCommands
    /\ rsp \in [of : 0 .. MaxCommands, at : 1 .. Parts + 1, left : 0 .. Parts,
                seq : 0 .. MaxCommands]
    /\ sem \in 0 .. 1
    /\ lock \in Producers \cup {"free"}
    /\ task \in [Producers -> [pc : {"idle", "decoded", "busy", "send", "encode", "give", "done"},
                               seq : 0 .. MaxCommands]]
    /\ queue \in [Handlers -> Seq(Seqs)] /\ \A t \in Handlers : Len(queue[t]) <= QueueSize
    /\ uxc \subseteq Seqs
    /\ used \in 0 .. PoolSize
    /\ short \in 0 .. MaxCommands
    /\ reader.cmd \in 0 .. MaxCommands /\ reader.more \in BOOLEAN
    /\ Len(reader.got) <= Parts

Init ==
    /\ nfc = [pc |-> "idle", seq |-> 0, asm |-> "none", to |-> "free"]
    /\ cur = 0
    /\ rsp = NoResponse
    /\ sem = 0
    /\ lock = "free"
    /\ task = [t \in Producers |-> Free]
    /\ queue = [t \in Handlers |-> <<>>]
    /\ uxc = {}
    /\ used = 0 /\ short = 0
    /\ reader = Nobody

tasks == <<task, queue, uxc, used, short>>

\* Commands that hold an entry of the pool.
InDevice == (UNION {{queue[t][i] : i \in DOMAIN queue[t]} : t \in Handlers})
            \cup {task[t].seq : t \in {h \in Handlers : task[h].pc # "idle"}}
            \cup (IF nfc.pc = "post" THEN {nfc.seq} ELSE {})

\* mempool_alloc: there is no way on without a buffer.
mempool_alloc(n, seq) ==
    IF used + n <= PoolSize THEN used' = used + n /\ UNCHANGED short
    ELSE used' = used /\ short' = Cardinality(InDevice \cup {seq})

-----------------------------------------------------------------------------
(* The NFC thread *)

At(pc) == short = 0 /\ nfc.pc = pc
Goto(pc) == nfc' = [nfc EXCEPT !.pc = pc]

clear_proto_rsp_ctx ==
    /\ sem' = 0
    /\ rsp' = [rsp EXCEPT !.at = 1, !.left = 0]

\* The reader gets the next chunk, and is told whether there is another.
drain_response_buffer ==
    /\ rsp' = [rsp EXCEPT !.at = IF rsp.left = 0 THEN @ ELSE @ + 1,
                          !.left = IF @ = 0 THEN 0 ELSE @ - 1]
    /\ reader' = [reader EXCEPT !.got = IF rsp.left = 0 THEN @
                                        ELSE Append(@, <<rsp.of, rsp.at>>),
                                !.more = rsp.left > 1]

\* A command that fits one APDU, or the first part of one.
wca_proto ==
    /\ At("idle")
    /\ nfc.seq < MaxCommands
    /\ clear_proto_rsp_ctx
    /\ reader' = Nobody
    /\ \/ nfc' = [nfc EXCEPT !.asm = "full", !.pc = "exchange"]
       \/ nfc' = [nfc EXCEPT !.asm = "partial"]
    /\ UNCHANGED <<cur, lock, tasks>>

\* The rest of a command.
wca_proto_cont ==
    /\ At("idle")
    /\ nfc.asm = "partial"
    /\ nfc' = [nfc EXCEPT !.asm = "full", !.pc = "exchange"]
    /\ UNCHANGED <<cur, rsp, sem, lock, reader, tasks>>

\* An APDU that is malformed, unknown, or continues no command.
Malformed ==
    /\ At("idle")
    /\ clear_proto_rsp_ctx
    /\ nfc' = [nfc EXCEPT !.asm = "none"]
    /\ reader' = Nobody
    /\ UNCHANGED <<cur, lock, tasks>>

wca_get_response ==
    /\ At("idle")
    /\ \/ /\ rsp.left = 0
          /\ clear_proto_rsp_ctx
          /\ nfc' = [nfc EXCEPT !.asm = "none"]
          /\ reader' = Nobody
       \/ /\ rsp.left > 0
          /\ drain_response_buffer
          /\ UNCHANGED <<nfc, sem>>
    /\ UNCHANGED <<cur, lock, tasks>>

\* handle_proto_exchange up to the routing: next_cmd_seq, proto_set_cmd_seq.
handle_proto_exchange ==
    /\ At("exchange")
    /\ clear_proto_rsp_ctx
    /\ nfc' = [nfc EXCEPT !.pc = "route", !.seq = @ + 1]
    /\ cur' = nfc.seq + 1
    /\ reader' = [Nobody EXCEPT !.cmd = nfc.seq + 1]
    /\ UNCHANGED <<lock, tasks>>

Respond(seq) == rsp' = [of |-> seq, at |-> 1, left |-> Parts, seq |-> seq]

\* An error (not authenticated, not allowed, unknown) is answered by the NFC
\* thread itself; otherwise the command is copied for its task, unless that has
\* not registered its queue.
ipc_proto_route ==
    /\ At("route")
    /\ \/ /\ lock = "free"
          /\ Respond(nfc.seq) /\ sem' = 1
          /\ Goto("wait")
          /\ UNCHANGED <<reader, tasks>>
       \/ \E t \in Handlers :
            /\ mempool_alloc(1, nfc.seq)
            /\ nfc' = [nfc EXCEPT !.pc = "post", !.to = t]
            /\ UNCHANGED <<rsp, sem, reader, task, queue, uxc>>
       \/ /\ used < PoolSize
          /\ clear_proto_rsp_ctx
          /\ nfc' = [nfc EXCEPT !.pc = "idle", !.asm = "none"]
          /\ reader' = Nobody
          /\ UNCHANGED tasks
    /\ UNCHANGED <<cur, lock>>

\* rtos_queue_send with RTOS_QUEUE_TIMEOUT_MAX: the thread waits for a free slot.
ipc_send ==
    /\ At("post")
    /\ Len(queue[nfc.to]) < QueueSize
    /\ queue' = [queue EXCEPT ![nfc.to] = Append(@, nfc.seq)]
    /\ nfc' = [nfc EXCEPT !.pc = "wait", !.to = "free"]
    /\ UNCHANGED <<cur, rsp, sem, lock, reader, task, uxc, used, short>>

\* Mutant: after a timeout the thread waits again.
TimeoutWaitsAgain ==
    /\ At("wait")
    /\ \/ sem = 1 /\ sem' = 0 /\ Goto("check")
       \/ sem = 0 /\ Goto("wait") /\ UNCHANGED sem
    /\ UNCHANGED <<cur, rsp, lock, reader, tasks>>

\* wca_wait_for_proto_response: the semaphore, or the timeout.
SemTake ==
    /\ At("wait")
    /\ \/ sem = 1 /\ sem' = 0 /\ Goto("check")
       \/ sem = 0 /\ Goto("retire") /\ UNCHANGED sem
    /\ UNCHANGED <<cur, rsp, lock, reader, tasks>>

\* Under the lock: is it the response to this command?
CheckResponse ==
    /\ At("check")
    /\ lock = "free"
    /\ IF rsp.seq = nfc.seq THEN drain_response_buffer /\ Goto("idle")
       ELSE Goto("wait") /\ UNCHANGED <<rsp, reader>>
    /\ UNCHANGED <<cur, sem, lock, tasks>>

\* Mutant: a command that is given up may still be answered.
RetireNothing ==
    /\ At("retire")
    /\ lock = "free"
    /\ Goto("clear")
    /\ UNCHANGED <<cur, rsp, sem, lock, reader, tasks>>

proto_retire_cmd_seq ==
    /\ At("retire")
    /\ lock = "free"
    /\ cur' = IF cur = nfc.seq THEN 0 ELSE cur
    /\ rsp' = [rsp EXCEPT !.seq = IF @ = nfc.seq THEN 0 ELSE @]
    /\ Goto("clear")
    /\ UNCHANGED <<sem, lock, reader, tasks>>

\* The reader is told of the failure, or has left.
clear_proto_state ==
    /\ At("clear")
    /\ clear_proto_rsp_ctx
    /\ nfc' = [nfc EXCEPT !.pc = "idle", !.asm = "none"]
    /\ reader' = Nobody
    /\ UNCHANGED <<cur, lock, tasks>>

\* The field is lost while the thread waits for an APDU.
wca_reset_session_state ==
    /\ At("idle")
    /\ Goto("retire")
    /\ reader' = Nobody
    /\ UNCHANGED <<cur, rsp, sem, lock, tasks>>

-----------------------------------------------------------------------------
(* The tasks *)

Is(t, pc) == short = 0 /\ task[t].pc = pc
Becomes(t, pc) == task' = [task EXCEPT ![t].pc = pc]

wca == <<nfc, cur, rsp, sem, lock, reader>>

\* proto_get_cmd: a copy for the decoded command, then the routed one is freed.
AllocDecoded(t) ==
    /\ Is(t, "idle")
    /\ queue[t] # <<>>
    /\ mempool_alloc(1, Head(queue[t]))
    /\ task' = [task EXCEPT ![t] = [pc |-> "decoded", seq |-> Head(queue[t])]]
    /\ queue' = [queue EXCEPT ![t] = Tail(@)]
    /\ UNCHANGED <<wca, uxc>>

\* Mutant: the routed command is not freed.
KeepRouted(t) ==
    /\ Is(t, "decoded")
    /\ Becomes(t, "busy")
    /\ UNCHANGED <<wca, queue, uxc, used, short>>

\* Mutant: both the routed and the decoded command are freed.
FreeBoth(t) ==
    /\ Is(t, "decoded")
    /\ used' = used - 2
    /\ Becomes(t, "busy")
    /\ UNCHANGED <<wca, queue, uxc, short>>

FreeRouted(t) ==
    /\ Is(t, "decoded")
    /\ used' = used - 1
    /\ Becomes(t, "busy")
    /\ UNCHANGED <<wca, queue, uxc, short>>

\* The handler has its response; or the UXC has to be asked, and the command
\* is freed; the USART task answers then.
Handle(t) ==
    /\ Is(t, "busy")
    /\ \/ /\ Becomes(t, "send")
          /\ UNCHANGED <<uxc, used>>
       \/ /\ uxc' = uxc \cup {task[t].seq}
          /\ used' = used - 1
          /\ task' = [task EXCEPT ![t] = Free]
    /\ UNCHANGED <<wca, queue, short>>

\* The answer of the UXC is received, in whichever order, or lost.
UxcAnswers ==
    /\ Is("usart", "idle")
    /\ \E seq \in uxc :
         /\ uxc' = uxc \ {seq}
         /\ \/ task' = [task EXCEPT !["usart"] = [pc |-> "send", seq |-> seq]]
            \/ UNCHANGED task
    /\ UNCHANGED <<wca, queue, used, short>>

\* send_rsp_internal takes the lock; a response nobody waits for is dropped.
LockResponse(t) ==
    /\ Is(t, "send")
    /\ lock = "free"
    /\ IF task[t].seq # cur THEN Becomes(t, "done") /\ UNCHANGED lock
       ELSE Becomes(t, "encode") /\ lock' = t
    /\ UNCHANGED <<nfc, cur, rsp, sem, reader, queue, uxc, used, short>>

\* The response is encoded, response_seq set, and handle_proto_response called.
handle_proto_response(t) ==
    /\ Is(t, "encode")
    /\ Respond(task[t].seq)
    /\ Becomes(t, "give")
    /\ UNCHANGED <<nfc, cur, sem, lock, reader, queue, uxc, used, short>>

GiveResponse(t) ==
    /\ Is(t, "give")
    /\ sem' = 1
    /\ lock' = "free"
    /\ Becomes(t, "done")
    /\ UNCHANGED <<nfc, cur, rsp, reader, queue, uxc, used, short>>

proto_free_buffers(t) ==
    /\ Is(t, "done")
    /\ used' = IF t \in Handlers THEN used - 1 ELSE used
    /\ task' = [task EXCEPT ![t] = Free]
    /\ UNCHANGED <<wca, queue, uxc, short>>

\* The assertion of mempool_alloc resets the MCU: nothing of this is left.
Asserted == short > 0 /\ UNCHANGED vars

-----------------------------------------------------------------------------
Apdu == wca_proto \/ wca_proto_cont \/ Malformed \/ wca_get_response \/ wca_reset_session_state

NfcStep ==
    \/ handle_proto_exchange \/ ipc_proto_route \/ ipc_send \/ SemTake \/ CheckResponse
    \/ proto_retire_cmd_seq \/ clear_proto_state

TaskStep(t) == AllocDecoded(t) \/ FreeRouted(t) \/ Handle(t)

SendStep(t) ==
    LockResponse(t) \/ handle_proto_response(t) \/ GiveResponse(t) \/ proto_free_buffers(t)

Next ==
    \/ Apdu \/ NfcStep
    \/ \E t \in Handlers : TaskStep(t)
    \/ UxcAnswers
    \/ \E t \in Producers : SendStep(t)
    \/ Asserted

Spec == Init /\ [][Next]_vars

\* The NFC thread runs, its timeout included, and so does a task that is about
\* to answer.  A task finishes the command it works on, in a time that is not
\* bounded, and takes the next from its queue: a task that never did would keep
\* the NFC thread at its full queue for ever.
FairSpec ==
    /\ Spec
    /\ WF_vars(NfcStep)
    /\ \A t \in Handlers : WF_vars(TaskStep(t))
    /\ \A t \in Producers : WF_vars(SendStep(t))

-----------------------------------------------------------------------------
(* Properties *)

\* Whatever answers late, in whichever order, or races the timeout or the loss
\* of the field: the chunks a reader gets are those of the response to the
\* command it sent last, each once and in order, and it is told that there are
\* no more exactly when it has them all.
OwnResponse ==
    /\ \A i \in DOMAIN reader.got : reader.got[i] = <<reader.cmd, i>>
    /\ (reader.got # <<>>) => (reader.more <=> Len(reader.got) < Parts)

\* The NFC thread always comes back for the next APDU: however late a task
\* answers, or drops its answer while holding the lock, and also from a queue
\* that was full of commands given up before, if the tasks get on with theirs.
ExchangeReturns == (nfc.pc # "idle") ~> (nfc.pc = "idle" \/ short > 0)

\* The pool runs out only over commands that were given up and are still in
\* the device; each holds two entries at most, so no answered command may have
\* kept one.
ShortOnlyWithBacklog == short > 0 => 2 * short > PoolSize
==========================================================================
