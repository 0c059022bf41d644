# Bitkey firmware: TLA+ models, checks and proofs

Bitkey is a Bitcoin wallet made of a mobile app (`app/`, Kotlin), a server
(`server/`, Rust, with an enclave signing service), shared Rust libraries
(`core/`) and a hardware device (`firmware/`, C). This project models the
firmware: that is where small amounts of C code, run by several threads on one
or two microcontrollers that can lose power at any moment, carry the guarantees
the rest relies on. The modules here are translated from that C code; a comment
above each definition names the function it stands for, and `PROJECT.json` lists
the exact lines.

## 1. Inventory

The W1 device has one microcontroller (MCU). The W3 has two: the **Core**, which
holds keys, and the **UXC**, which drives the display and touch screen. Each MCU
runs FreeRTOS tasks (`firmware/app/tasks`) that use the libraries in
`firmware/lib`.

| Component (`firmware/lib/...`) | State | Operations | What is hard | What makes it correct | Here |
|---|---|---|---|---|---|
| `uc`: transport between the MCUs | sequence numbers, ACK events and timer, write mutex, read buffer, buffer pools | `uc_send`, `uc_handle_data`, `uc_idle`, buffer release | three kinds of thread, lost and damaged frames, retransmission, reboots of one side, wrap of an 8-bit counter | messages in order, once; success means received; every send returns | `Uc`, `Channel` |
| `secure-channel` (UART) | session key, confirmed flag, two counters | establish, confirm, encrypt, decrypt, replay check | sessions replaced while frames are in flight | nothing is accepted twice, across sessions too | in `Uc` |
| `indexfs`: counter in flash | log of one-word entries | create, count, increment, clear, flags | flash only clears bits, appends without a lock, the log fills up | an increment is never lost | `IndexFs` |
| `unlock`: PIN or password | retry count and delay flag in flash, secret and limit response in files, delay timer | check, provision, configure, reset, wipe | loss of power between any two steps, a fingerprint match or a wipe in between, failing writes | guesses are counted before they are compared; delays are served | `Unlock` |
| `fwup`, `bootloader`, fwup tasks of both MCUs | two slots per MCU, pending signatures, session flags, a staged signature in a file | start, confirm, transfer, finish, patch, atomic commit, boot, version report | power loss at any step, late or unnumbered answers, two MCUs that must change together | some slot always boots; Core never moves ahead of the UXC; only verified images are committed | `Fwup` |
| `auth`, `sleep`, shutdown in sysinfo, lock screen | authenticated flag, expiry timer, power timer, shutdown latch, screen | authenticate, deauthenticate, refresh, start and stop timers, shut down | seven tasks of four priorities, timers commanded outside of locks | a lock screen is true; a device left alone goes off | `Auth`, `Sleep` |
| `wallet` storage, `onboarding`, `filesystem` | files of KEK, seed, derived-key cache, keyset; their copies in RAM | derive, sign, describe, seal, clear cache, wipe | files that depend on each other, created and removed in steps that fail or are cut | keys handed out survive; nothing of an old wallet is used by a new one; an interrupted wipe can be repeated | `Wallet` |
| `wca`, `ipc`, `protobuf/helpers`, `mempool` | command being assembled, current sequence number, one response buffer, semaphore, lock, pool | APDUs, routing, wait, respond, fetch chunks | a command given up goes on, and answers into the shared buffer | a reader gets the answer to its own command | `Wca` |
| `confirmation`, signing in the key manager, flows of the display controller | the one pending confirmation, the one signing session | create, validate, approve, read, clear, expire, sign deferred, return | shared by three tasks, used in several calls each | what is returned is what was approved; what was rejected is not signed any more; polling ends | `Confirm` |
| `grant_protocol`, `kv`, `telemetry-storage`, `ringbuf`, `uc_route` | small files, containers and tables | | limits, partial writes | | not modelled, see section 8 |
| `psbt`, `bip32`, `crypto`, `display`, `rtos` | | | | | not modelled, see section 8 |

How they interact: the USART task feeds received bytes to `uc_handle_data` and
calls `uc_idle` in between; any task calls `uc_send`; received messages are routed
to the queues of other tasks, which free the buffer later. The key manager of
each MCU establishes the secure channel over the same transport. The auth task
runs `unlock`; its matching thread resets the retry count on a fingerprint match;
the timer task marks a delay as served; the sysinfo and auth tasks ask the key
manager to wipe, which ends in `unlock_wipe_state`; the retry log lives in the
flash slot that the *next* firmware update will erase and write.

The NFC thread hands each command of the app through `wca` and `ipc` to the task
that owns it and waits for the response. The fwup task of Core forwards what is
for the UXC over `uc` and relies on what `Channel` says of it. The key manager,
sysinfo and the UI task meet at the confirmation manager. Locking, in `auth`,
starts the power timer of `sleep` and clears the cache of derived keys of
`wallet`; a shutdown is requested by the timer and carried out by sysinfo.

`PROJECT.json` lists all components and, as "hazards", what in this code is hard
to reach with a test, each at its line and with the properties that watch it.

## 2. Modules

| Module | Content |
|---|---|
| `Uc` | the transport with the secure channel's sessions: both MCUs, the wire, faults, reboots; its properties |
| `Channel`, `UcChannel` | what the transport promises to the tasks above it; `Uc` implements it |
| `UcProofs`, `UcChannelProofs` | theorems about `Uc`, and that it implements `Channel`, for all values of its constants |
| `IndexFs` | the monotonic log as operators on a function from positions to words |
| `Unlock` | `unlock` on top of `IndexFs`: the threads that work on the log, faults, restarts, updates |
| `Fwup` | firmware update of both MCUs, their boot loaders, the app that drives it |
| `Sleep` | the power timer as functions of its state |
| `Auth` | authentication, both timers, shutdown and lock screen, on top of `Sleep` |
| `Wallet` | the files of a wallet, the commands that create and use them, the wipe |
| `Wca` | NFC commands and responses down to the tasks that answer |
| `Confirm` | the confirmation manager with the signing sessions, sysinfo and the UI |
| `UnlockProofs`, `FwupProofs`, `AuthProofs`, `WalletProofs`, `WcaProofs`, `ConfirmProofs` | theorems about these components |
| `MC*`, `*.cfg` | instances for TLC |

Definitions whose comment starts with "Mutant:" are plausible faults of the
definition that follows them. No specification uses them: each is put in the
place of the real one to see that some property notices.

### `Uc`

*State.* `sendSeq`, `recvSeq`, `sentFirst`, `events`, `ackTimer`, `held` and
`rdStale` are the fields of `uc_state_priv_t` that decide something (`rdStale`
abstracts `rd_enc_buffer` and `rd_index` to "there is a rejected frame in it");
`wr` is the one send that can be between lock and unlock of `wr_mutex`, with its
position in `uc_encode`; `rx` is the message that the USART task carries in
`_uc_on_proto`; `sess` is `secure_channel_uart.c`; `link[n]` is the wire to `n`.
Messages are numbers in the order in which their sender took `wr_mutex`, frames
keep the header fields that are read. `sent`, `result`, `delivered`, `rejected`
and `wrapped` record what happened for the properties.

*Actions.* `Encode`/`EncodeFails`, `CheckAckTimer`, `Transmit`/`WriteFails`,
`AckReceived`/`RetransmitTimeout` are the stretches of `uc_encode` between which
another thread can act: the test of `recv_seq_num` is apart from the stop of the
timer, and clearing the events is apart from waiting for them. `AckTimerExpires` is
the timer callback, `Idle` is `uc_idle` with the whole of
`_uc_ack_with_timeout(0)`. `Receive` is `uc_decode` with `uc_process_msg`, one
disjunct for each way out of it. `OnProto` and `FreeRecvProto` take and give
`recv_sem`. `Lose`, `Corrupt`, `Establish`, `Confirm` and `Reboot` are the
environment; every fault is bounded by `MaxFaults`.

*Timing.* With `Timely = FALSE` a retransmit timer may fire at any moment, which
covers every scheduling. With `Timely = TRUE` it fires only when nothing else can
happen, the intent behind the static assertion
`UC_RETRANSMIT_TIMEOUT_MS > UC_ACK_TIMEOUT_MS`.

*Abstractions.* A ciphertext is readable with the session key it was made with
and with no other. A damaged frame never passes the CRC. Two frames glued
together never decode: COBS meets the first delimiter in the middle. A write that
fails leaves nothing on the wire; in the code it can fail after some bytes
(`uc.c:604`), which then spoil the next frame, as `Corrupt` of that frame does. Listeners
free what they receive. `UC_SEM_TIMEOUT_MS` (5 s) never passes while waiting for a
receive buffer, because no send holds one longer than its three attempts of
250 ms; `ReceiverUnblocks` is the check of that argument.

### `IndexFs` and `Unlock`

*State.* `log` is the words of the retry log after its header; a word is erased,
an entry, or part of an old firmware image. `Program` is what flash does when it
is written without an erase: it keeps the AND, so an entry written over another
one mixes their counts and accumulates their cleared and served marks. A log has
`LogSize` words that the scans look at and `PageSize` words that creation erases:
`indexfs` compares a word index with a size in bytes, so the first is four times
the second, less the header. `secret` and `response` are the two files, `up`,
`limitResponse` and `timer` the RAM of `unlock_ctx`, `pc`, `cur`, `slot` and `seen` the
auth task inside `unlock_check_secret`, `wipe` and `wipeSlot` the key manager
inside `unlock_wipe_state`. `wrong`, `overtaken`, `owed`, `dropped`, `lost` and
`stray` are for the properties: an erase moves the count it removes to `dropped`
and marks the delay owed as `lost`; only a clear of the count resets them.

*Actions.* The scan for the count, the scan for the index, the write and the check
of an append are separate steps of the auth task (`CheckSecret`, `IncrementRead`,
`IncrementIndex`, `IncrementWrite`, `IncrementVerify`, `Compare`, `WrongSecret`,
`ClearRead`, `ClearIndex`, `ClearWrite`) and of the key manager (`WipeSecret`,
`WipeResponse`, `WipeRead`, `WipeIndex`, `WipeWrite`), since these have the same
priority and preempt each other. The matching thread
(`FingerprintMatch`) and the timer task (`DelayCallback`) have higher priorities
and do theirs in one step. `Reboot` can come after each of them.

*Abstractions.* `MaxCount` stands for the 16-bit limit of a count and is at most
15, so that the AND of two counts can be written with four bits. Creating the log
is taken to succeed. An image word stays none-entry whatever is programmed over
it. A firmware update erases the slot and leaves an image in it in one step.
Provisioning a secret does not fail. Unlocking with a secret is behind a feature
flag, and disabled in production builds; the model has it enabled.

### `Channel` and `UcChannel`

`Channel` has no frames, numbers or timers: a message that was handed over may
arrive at any later time, also after its send failed, never behind a later one
and not twice, except for the very first message and after a reboot; success is
reported only for what arrived, until the sequence numbers have wrapped (`worn`),
at a message or at a pure ACK (`Wear`). `UcChannel` substitutes what the USART task holds
(`rx`) for the message in transit to the tasks, `rejected` for what could not be
decoded, and "somebody has rebooted" for `boots > 0`. `Fwup` is written against
this promise and not against `Uc`.

### `Fwup`

*State.* `chip[m]` is an MCU: image and signature of its two slots, the slot it
runs, and `fwup_priv` (pending signature, confirmed version, patch). `core` is the
static variables of Core's fwup task under their names in `fwup_task_port.c`, `pc`
where that task is inside a handler that changes flash twice, `staged` the file of
`fwup_staged_sig.c`, `uxc` the task of the UXC, `confirm` the pending confirmation,
`app` the command sequence the app is in. An image is its version; a slot is
valid when its image and signature agree. `goal` is for a property: the release of
an update of Core that was begun, with a deferred commit, while the UXC held the
verified image of that release (`Holds`), else 0.

*Actions.* One per handler of the two tasks, with the operations of `fwup.c` as
operators that give the set of their outcomes. `fwup_atomic_commit` (send) is
apart from the staging before it and `fwup_staged_sig_remove` from the commit
before it, so that a reset can fall in between. `UxcReset`, `CoreReset` and
`PowerCycle` are the resets the handlers ask for, and crashes.

*Abstractions.* Chunks of an image are one transfer; a slot written twice
without an erase, or half erased, is `Junk`. `echo` is whether the UXC's firmware
answers with sequence numbers; `cur` says whether a message belongs to the request
Core waits for. When the version report of a restarted UXC is handled, Core gives that
request up, so everything queued is retired, answers in Core's own queue included. The app follows `FwupNfcSessionUiStateMachineImpl`: the UXC first,
then Core, one version for both, deferred or not. Boot-loader updates and the one-phase delta are
left out.

### `Sleep` and `Auth`

*State.* `auth`, `sleep`, `screen` are `auth_ctx_t`, `sleep_ctx` and the display
controller; `uiq` and `sysq` two queues, the second with its limit. Each task has
a program, the operations it has left; an operation is one critical section, one
timer command or one post. `Runs(t)` is FreeRTOS: a task runs only while all of
higher priority wait, tasks of one priority are time-sliced.

*Actions.* `Step(t)` does the next operation of a task; `TimePasses` and `Expires`
are the software timers, which become due only when the tasks are at rest, since
they run for a minute or more; the rest are inputs: a finger, a touch, a
command, a menu choice, the charger, a reboot of the UXC, the power button.

*Abstractions.* `SECURE_DO` runs its argument three times, and does so here.
A task inside an operation of `lib/sleep` holds its lock, so it may finish that
operation before the callback of the power timer. The posts of `on_lock` have no limit
on their wait, so a task may wait there and others run; the queue of the key manager
itself is not modelled, and a post that waits is at some time done. An enrollment may
complete whenever a finger is on the sensor, on a locked device too: the grant that
allows that is left out. It unlocks the device and does not tell the UI. `auth` also
remembers two things for the properties: `enrolled`, that the authentication came
from an enrollment, and `overtaken`, that the last match restarted the expiry timer
while the timer task waited in `on_lock`.

### `Wallet`

*State.* `flash` maps each file to the KEK it is sealed under and to the seeds of
the keys in it; `Empty` is a file that was opened and not written. `ram` is the
loaded KEK, the cache of derived keys and what the running command has derived.
`todo` is what the command has left to do. `given` is what the app was told;
`failed` counts the removals of the running wipe that failed; `spoiled` marks that
such a wipe was cut by a loss of power, or ended with files left. Fingerprint
templates are the numbers below `TemplateCount`, as `bio_wipe_state` counts them.

*Actions.* Each changes flash at most once; commands are programs of them.
`Fails` is the way out of a call that returned false: a command ends, a cache that
cannot be had is replaced by deriving from the seed. `PowerLoss` can come after
each.

*Abstractions.* The NFC task hands out one command at a time, and a wipe is a
command as well, so one program runs. Keys are known by the seed they come from.
A read may fail although the file is intact (the lock of the one open file is not
free within ten seconds, or LittleFS answers an error); for the seed that is `Misread`, where
the code makes a new seed and overwrites the one it could not read. `fs_file_exists`
is taken not to fail: it waits for the file system without a timeout. `WipePass` is
the same program on both paths of a wipe. The confirmed path of W3 answers SUCCESS when
it is over (`sysinfo_task_port.c:810-834`); the direct one, of W1 and of a W3 that is not
set up, answers SUCCESS as soon as the wipe is posted to the key manager
(`core/sysinfo_task.c:212-217`), so there the answer says nothing about the files.

### `Wca`

*State.* `nfc` is the NFC thread (`cmd_seq`, the command being assembled and the task
it posts to), `cur`
is `g_cmd_seq`, `rsp` the response buffer with its read position and
`response_seq`, `sem` and `lock` the semaphore and mutex of `ipc.c`, `task[t]` and
`queue[t]` the handlers, `uxc` the commands the UXC was asked about, `used` the pool.
`short` and `reader` are for the properties.

*Actions.* The thread's steps between an APDU and its answer are separate
(`handle_proto_exchange`, `ipc_proto_route`, `ipc_send`, `SemTake`, `CheckResponse`,
`proto_retire_cmd_seq`, `clear_proto_state`): `ipc_proto_route` takes an entry of the
pool, `ipc_send` waits for a slot of the queue without a timeout. And so are those of a task
(`AllocDecoded`, `FreeRouted`, `Handle`, `LockResponse`, `handle_proto_response`,
`GiveResponse`, `proto_free_buffers`). A task may take any time for a command; the
UXC may answer in any order or never. `QueueSize` is what is left to commands of a
queue of four (`sysinfo_task.c:913`), which other tasks post to as well; the pool has
four entries of each size (`nfc_task.c:115-117`).

### `Confirm`

*State.* `pend` is the confirmation, `session` the union of the three kinds of
session, `km`, `sys` and `ui` where the key manager, sysinfo and the UI task are,
`deferred` the `SIGN_DEFERRED` messages queued, `events` the UI events. `approved`,
`rejected` and `returned` record what happened; `asked` is the request whose result
the app was told to ask for again.

*Actions.* One per call of the confirmation manager and per stretch of a handler
between two such calls. `Receiving` keeps what sharing the memory does: a chunk of
a stream is accepted by a session of another kind, and zeroes it.

*Abstractions.* A request, the content it commits to and its hashes are one
number. A stream has one chunk. Handles are not guessed. The payload of a stream may
decay at any time after it was stored; `faults.late` counts the decays after it was
compared. `get_tx_signature` and its batch are one action: each signature comes from
the signature file or is computed from the flash as it is then.

## 3. Runs

Run with `tlc -workers 2 -config X.cfg M`.

| Run | Instance | Checks |
|---|---|---|
| `uc_lossy` | 3 messages one way, both ACK modes, 2 attempts, 1 receive buffer, 2 faults, 1 reboot | `TypeOK`, `OrderedOnce`, `SuccessMeansReceived`, `ImplementsChannel` |
| `uc_secret` | 2 encrypted messages, 1 fault, 1 reboot, 2 sessions | `SecretOnce` |
| `uc_live` | 1 message each way, 2 attempts, 1 fault, fair threads | `SuccessMeansReceived`, `SendReturns`, `ReceiverUnblocks`, `AckIsSent` |
| `uc_timely` | 3 messages one way, 3 attempts, 1 fault, timely timers | `NoSendGivesUp` |
| `unlock_guess` | limit 1, log of 3 words (2 erased), 1 fault, 1 restart, 1 update | `TypeOK`, `GuessesCounted`, `DelayWaitedOut` |
| `fwup_atomic` | 1 new release, full and delta, 2 starts, 1 fault, 1 crash | `TypeOK`, `AlwaysBootable`, `CoreCommitsAfterUxc`, `UxcCommitsVerified`, `StagedResolved` |
| `auth_rest` | 3 inputs, sysinfo queue of 2 | `TypeOK`, `SomeTimerRuns`, `LockScreenMeansLocked`, `LatchHolds`, `GoesOff` |
| `wallet_wipe` | 1 template, 2 wipes, 2 faults, 1 loss of power | `TypeOK`, `AnsweredKeysKept`, `NoStaleKeys`, `StaysUnlockable`, `WipedClean` |
| `wca_late` | 4 commands, 2 handlers, 2 chunks, queues of 1, pool of 3 | `TypeOK`, `OwnResponse`, `ShortOnlyWithBacklog`, `ExchangeReturns` |
| `confirm_shared` | 2 requests of 4 kinds, 1 page, 1 decay | `TypeOK`, `ReturnedWasApproved`, `ApprovedIsShown`, `RejectedStaysRejected`, `PollAnswered` |

*Why these bounds.* Three messages are the least for which a frame of the first
can be confused with one of the third; two attempts give one retransmission,
and with two faults both the message and its ACK can be lost; one receive buffer
makes the pool run empty at once. Two sessions and one reboot let frames of a dead
session meet a new one. A limit of one leaves a guess with a delay and one past
the limit; with three words the log fills up over these, and one
restart, one fault and one update can fall between any two steps. One release
suffices for `Fwup` since both MCUs go from one version to one other, and two
starts are an update of the UXC and one of Core, or one that is started twice;
the crash may hit any step of either. Three inputs let a lock, an unlock and a
refresh meet in `Auth`. In `wallet_wipe` two wipes and one loss of power let the
second wallet meet what the first left, with two failing reads, writes or removals anywhere;
a wipe that meets three failing removals, its limit, is left to the proof of `WipedClean`.
Four commands and a pool of three let two abandoned commands meet a third. Two
requests are the least for which one can be taken for the other. The sequence
numbers of `Uc` keep their 255 values except in `uc_wrap`.

Two more runs show places where the code does not do what the repository says of
it; each is a finding in `PROJECT.json`:

| Run | What TLC finds |
|---|---|
| `uc_wrap` | pure ACKs take sequence numbers, so a new message can have the number of the last one; it is dropped and acknowledged. 4 sequence numbers instead of 255 |
| `fwup_stale` | an update of the UXC to release 2 is verified, then one to release 3 is started; `uxc_verified` is still set, so Core takes its own update for the second half, and its finish has the UXC write the signature of an image it has not verified. Nothing fails and nothing crashes. The boot loader still verifies the slot it boots |

The other properties hold, with the exceptions their text states:
`OrderedOnce` exempts the first message and reboots, `SuccessMeansReceived` stops
at a reboot or at the wrap of the sequence numbers; the two properties of
`Unlock` bound what a firmware update loses and do not exclude it: `fwup_start`
erases the slot with the log, guesses made after that are counted in a log without
a header, and the next restart finds no header and erases it again
(`indexfs.c:17`), with those guesses and with a delay they left (`dropped`, `lost`);
without an update nothing is lost. They stop once an entry from before an erase is in
the way (`stray`): an append in progress when an update erases the log lands at a
position of the old log, and entries past the erased page survive a creation of
the log; those of `Wallet`
stop at a wipe that was cut after one of its removals had failed, or that gave up
(`spoiled`), `AnsweredKeysKept` and `NoStaleKeys` also at a seed that is misread
although it is intact and so replaced (`count.misreads`), and `WipedClean` at a wipe with
more than three failed removals;
`ReturnedWasApproved` is about what was pending when an approval was handled, and exempts a
payload that decayed after it was compared (`faults.late`); what was pending need not be
what the screen showed, and `ApprovedIsShown` bounds the difference; `SomeTimerRuns` and
`GoesOff` exempt a device on which a match overtook a waiting lock (`auth.overtaken`), and
`LockScreenMeansLocked` one that an enrollment unlocked (`auth.enrolled`); `RejectedStaysRejected` is about confirmation
results and about what the key manager sets out to sign: a stream that was confirmed
and is cancelled only then keeps its session (`money_movement.c:216-222` clears the
confirmation alone), and its signatures are still fetched;
`UxcCommitsVerified` is about a UXC that answers with sequence numbers, and holds
for one release.

*Deadlock* is not checked for `Uc`, where all messages may have been sent, and for
`Auth`, where a device that is off, once the inputs are used up, stays off; it is checked for the others.

*Fairness.* `uc_live` assumes weak fairness of each thread of each MCU: a task
inside `uc_send` goes on (the scheduler runs it, and its wait has a timeout), the
USART task reads what arrives and calls `uc_idle`, the timer task fires expired
timers, and tasks free what they received when they are not waiting in `uc_send`
themselves. Nothing is assumed of the wire, of new sends or of faults.
`fwup_atomic`: the tasks of both MCUs run, a reset that a handler asked for
happens, and a device that keeps becoming idle is at some time switched off and
on (strong fairness of `PowerCycle`): Core has no timeout for the answer to its
commit command, and a restart is what resolves it. `auth_rest`: tasks, time and
expired timers go on, and a post that waits for room gets it, since the tasks that
empty the queues run; nothing is owed by the user. `wca_late`: the NFC thread
runs, its timeout included, and so do the tasks: how long one works on a command is not
bounded, but it finishes. Without that `ExchangeReturns` does not hold: the wait for a
slot of a full queue has no timeout (`ipc.c:13-15`, `rtos_queue.c:14`), so a task that
never finished would keep the NFC thread. `confirm_shared`: sysinfo runs, time
passes, and an app that was told to ask again does (strong fairness, since
sysinfo may be busy when it asks).

## 4. Proofs

`tlapm M.tla` checks the theorems of `M`. They hold for every value of the
constants that the named assumptions of the modelled component admit, and rest on
nothing else: any number of messages, commands, faults, reboots and so on, not only
the ones of section 3. Each invariant below was checked by TLC on the instance of
the run before it was proved. In every module the proof that a step preserves an
invariant has one lemma per action.

### `UcProofs`

For any two distinct MCUs, any sequence-number space of at least two numbers, any
number of attempts, buffers, messages, faults, reboots and sessions
(`NodeAssumption`, `CodeConstants`, `Bounds`).

* `TypeCorrect`: `Spec => []TypeOK`. `TypeOK` is inductive.
* `DeliveryOrder`: `Spec => []OrderedOnce`. `OrderedOnce` speaks of what was
  delivered only and is not inductive: why the next delivery is in order depends
  on what is on the wire, in the sender's buffer and in the receiver's hands.
  `OrderInv` strengthens it, for each direction, with three parts:
  * `WireInv`: the messages on the wire are in order, copies of one message have
    one sequence number, and a send in progress is the newest message;
  * `TakenInv`: what was delivered is in order and not newer than what the USART
    task holds, and that not newer than what is on the wire;
  * `OnceInv` (until a reboot): a copy, on the wire or in the sender's buffer, of a
    message already taken carries exactly `recv_seq_num`, the first message
    excepted; so the receiver recognises it.

  Each action touches one direction's queue in one of five ways (a frame leaves,
  a frame is appended, a message is taken, delivered, or a new one encoded), and
  there is a lemma about the plain operators `WireOK`, `TakenOK` and `OnceOK` for
  each; the lemmas per action then say which applies. That the receiver compares
  only with the *last* sequence number is enough because of `TakenInv`: a copy of
  an older message can no longer be on the wire when a newer one was taken.
* `FaultsSurvived`: `Spec => []NoSendGivesUp` when only one MCU has messages to
  send, none of them encrypted, timers are timely, neither MCU reboots, and
  `RetransmitMax > 2 * MaxFaults`. `OneWayInv` says where the message in progress
  is: on the wire, with the peer, which owes an ACK, on the way back as an ACK, or
  acknowledged; at none of these only when a fault took it (`Spoilt`). A fault takes
  two attempts at most, the one it hits and the one glued to what it left in
  `rd_enc_buffer`; `Left` counts what the faults so far may still take, and the
  attempts that failed do not exceed what they have taken. The bound is tight: with
  `RetransmitMax = 2 * MaxFaults` TLC finds a send that gives up. The other
  hypotheses are needed too: when messages cross, both sends may give up although
  both arrived, and a timer that fires late costs an attempt without any fault.

### `UcChannelProofs`

Builds on `UcProofs`, from the same assumptions.

* `SuccessIsReceipt`: `Spec => []SuccessMeansReceived`. `AcksInv` follows every
  acknowledgement there can be: no frame of a sender has a number beyond its
  `send_seq_num`, and a message with that number is its last (`Outgoing`,
  `InProgress`); no acknowledgement, in the peer's `recv_seq_num`, on the wire or in
  a send in progress, goes beyond `send_seq_num`, and one that is equal to it
  exists only when the peer has the last message (`Incoming`); so it does when the
  ACK event is set during a wait (`Confirmed`). A step takes a new number or none;
  `NewNumber` and `SameNumber` show that either keeps the invariant.
* `NoSecretTwice`: `Spec => []SecretOnce`. `SecretsInv` (when all messages are
  encrypted): every copy still to come, on the wire or in the send in progress, is
  of a later message than all that were taken, or it is spent: it was made in a
  session that the receiver has left, or with a counter that it has passed.
  Sessions and counters only move ahead (`Ahead`), so what is spent stays spent,
  over losses, repetitions, new sessions and reboots.
* `TransportIsChannel`: `Spec => ImplementsChannel`, the refinement of `Channel`
  without fairness. Step by step: `Encode` and `EncodeFails` are `Send`; `WriteFails`,
  `AckReceived` and `RetransmitTimeout` are `Return` or a stutter; `Receive` is
  `Arrive`, `Refuse` or a stutter; `OnProto` is `Deliver`; `Reboot` is `Reboot`; `Idle`
  is `Wear` when its pure ACK takes the last sequence number. `OrderInv` gives the
  guard of `Arrive` and `AcksInv` that of `Return`.

### `UnlockProofs`

For any table of delays that does not decrease and any limit, any log of two
words or more, and any number of faults, restarts and updates (`LogAssumption`,
`UnlockAssumption`, `UnlockBounds`).

* `TypeCorrect`: `Spec => []TypeOK`, with lemmas about what `Append`, `Program` and
  the scans of `IndexFs` return; a count is the AND of two counts at worst, and that
  does not leave `0 .. MaxCount`.
* `GuessesLostOnlyByErase`: `Spec => []GuessesCounted`, and `DelaysLostOnlyByErase`:
  `Spec => []DelayWaitedOut`. Both from `EraseInv`, by which a log without a header has
  never been used before the first update, and `GuessInv`, which as long as no entry from
  before an erase is in the way (`~stray`) says: the log is a prefix of entries
  and none after it (`Gapless`); a thread that is between the scan and the write
  of an append holds a slot not beyond the end of the prefix, and an increment
  that lost its place lost it to a clear (`Slots`); the last entry, with what erased
  logs held, is never behind the wrong guesses, but for one that a clear has
  overtaken, and the count of a guess on its way to the log is ahead by one
  (`Counting`); and a delay that is owed, and was not erased with its log, is marked
  in the log and runs, or will run after the restart (`Delaying`).
  A full log is the exception to the last part, since `indexfs_get_flag` then calls
  every delay served; but no guess is counted any more, so none is compared.

### `FwupProofs`

For any number of versions, starts, faults and crashes (`ConstantsAssumption`).

* `TypeCorrect`: `Spec => []TypeOK`, and `NeverBricked`: `Spec => []AlwaysBootable`.
  Neither is inductive alone. The invariant has for each MCU that the slot it
  *runs* is valid (`Sound`): every operation of `fwup.c` writes to the other slot,
  and the boot loader moves only to a slot whose image and signature agree.
* `CoreFollowsUxc`: `Spec => CoreCommitsAfterUxc`. Core's signature is written at
  three places. At the end of an update of Core alone: `SessionInv` says that an
  update counted in `goal` stays deferred as long as it is under way, over a restart
  of the UXC too. By the recovery from the file: the file names the release whose
  signature it holds (`FileInv`), and the UXC has not gone back behind the version it
  reported (`BootInv`). On the UXC's answer to the commit, which Core believes only if
  the UXC echoes sequence numbers, and then the answer must be to *this* commit and
  the UXC must still hold what it verified. This takes `EchoInv`:
  * `LinkInv`: at most one request is live, as a request, as its answer or as the
    second answer a delta update is owed, and `core.kind` says which;
  * `PhaseInv`: while a finish of the UXC is outstanding, or a commit, nothing else
    is asked of it;
  * `LoadInv`: parts of an update are queued to the UXC in order, behind the start
    they belong to, and none to a UXC that has verified (`QueueInv`); what the app
    takes for begun was begun, unless the UXC has restarted (`AppInv`); what was
    verified is the confirmed image, or was spoilt since (`HeldInv`);
  * `CommitInv`: no commit is queued, to the UXC or as an answer, when Core is about
    to send one, and a commit is the last request there is;
  * `AliveInv`: while Core's update is under way the UXC runs the release, has nothing
    left to commit, or has the release complete in its other slot;
  * `DoneInv`: so a successful answer means that the release is bootable, and
    nothing is left for the UXC to do that could change this.

  The actions are first brought to a dozen forms (`CoreDoes`, `UxcDoes`,
  `CoreRestarts`; `CoreSide` for what they do to Core's own update), and each part
  of the invariant is shown for the forms.

### `AuthProofs`

For any size of the sysinfo queue and any number of inputs (`ConstantsAssumption`); the
callback of a lock may find its queues full at any time.

* `TypeCorrect`: `Spec => []TypeOK`, and `NothingArmsLatched`: `Spec => LatchHolds`;
  both from "a set latch holds the timer off", which the operations of `Sleep`
  preserve.
* `ShownLockedIsLocked`: `Spec => []LockScreenMeansLocked`, which excepts a device that an
  enrollment has unlocked (section 7). `LockInv` says why a lock
  screen cannot be left standing over a device unlocked by a match: the matching task alone
  unlocks, and tells the UI before it does (`OnlyMatchingSets`, `SuccessTold`); the
  UI task alone draws the lock screen, and locks the device right after
  (`OnlyUiLocks`, `LockClears`); so a device that is unlocked behind the lock screen
  has the event that takes the screen away before it, or is about to be locked
  (`UnlockShown`).
* `SomethingSwitchesOff`: `Spec => []SomeTimerRuns`. That a timer
  runs when all tasks are at rest follows from `Armed`, which also holds while they
  are not: a timer runs, the latch is set, a program that will arm one is under way,
  or the UXC's READY event is coming to the power-off screen of a shutdown that was
  called off. To keep it, `ArmInv` says which programs a task can be in (`ProgInv`),
  that a match which is about to stop the power timer has restarted the expiry timer
  and nobody is about to stop that one (`MatchStops`), and how far a shutdown is that a
  boot report may call off (`PollInv`). `Armed` and `MatchStops` are claimed only while
  no match has overtaken a waiting lock: when the timer task waits in `on_lock` its
  remaining locks come after the restart of the expiry timer by the match and before
  its stop of the power timer, and both timers are off in the end (section 7). A lock
  that waits in the sysinfo or the UI task is no such case: these have a lower priority
  than the match and do nothing between its restart of the one timer and its stop of the
  other.

### `WcaProofs`

For any finite set of handlers and any number of commands, parts of a response, slots
of a queue and pool entries (`ConstantsAssumption`).

* `ReaderGetsItsOwn`: `Spec => []OwnResponse`. `SafeInv`: a command number is in one
  place only, a queue, a task or the UXC (`OnePlace`); whoever holds the mutex of the
  response answers the current command, and the NFC task does not leave its wait
  behind its back (`Locked`); what the semaphore announces is the whole response to
  the reader's command (`Answered`); a command that was answered or retired has
  nothing in the device that could answer it again (`Closed`); and the parts the reader has are the first ones of the response
  whose rest is in the buffer (`Given`).
* `BacklogExhaustsPool`: `Spec => []ShortOnlyWithBacklog`. `PoolInv`: as long as no
  allocation has failed, `used` is the number of entries that somebody will free,
  counted as the cardinality of a set of places (`Entries`).
* `TypeCorrect`: `Spec => []TypeOK`, with the bounds of the queues (`QueuesFit`).

### `WalletProofs`

For any number of fingerprint templates, wipes, failing file operations and losses
of power (`ConstantsAssumption`).

* `TypeCorrect`: `Spec => []TypeOK`, with the bound on KEKs and seeds: one is made
  only after a wipe, a fault or a loss of power took the one before (`KeyCount`,
  `SeedCount`).
* `AnsweredKeysAreKept`, `KeysDoNotOutliveSeed`, `WipeCanBeRetried`:
  `Spec => []AnsweredKeysKept`, `[]NoStaleKeys` and `[]StaysUnlockable`. The three speak
  of the time between commands. That they hold there depends on what the running
  command still has to do, so the invariant (`WalletInv`) is about programs:
  * `Promise(t, ...)`: in the program `t` each operation that needs something comes
    after one that provides it (the KEK loaded before anything is sealed, the seed of
    flash in RAM before a key is derived, all keys of the cache before the cache is
    stored), a new KEK or seed is stored before anything else is done with it, and
    behind a use of the cache come only operations that do not ask how it found the
    key.
    `PromiseDoes` is the lemma that carries it over a step that replaces the head of
    the program by other operations, `FailsPromise` over a failing call;
  * `Normal`: the program promises what the files and the RAM provide (`SeedGood`,
    `Goods`, `NewKek`, `NewSeed`), and the three properties hold in their strong form, at
    every step (`Safe`; `Kept` and `Same` until an intact seed is misread);
  * `Wipe`: the rest of the program is pass `k` of the wipe after `n` removals
    (`Rest`); as long as no removal failed the first `n` files are gone, and since
    cache and keyset come before the seed, the seed before the KEK and both before
    what unlocks the device, `Safe` holds at every step of it.
* `WipeEndsClean`: `Spec => []WipedClean`. In pass `k` at least `k` removals have
  failed, and one more if a file is left behind the position (`Removing`); four passes
  that all leave something need four failures.

### `ConfirmProofs`

For any set of kinds of session and any number of requests, refreshes and decays
(`ConstantsAssumption`).

* `TypeCorrect`: `Spec => []TypeOK`.
* `SignedOnlyWhatWasApproved`: `Spec => []ReturnedWasApproved`. `SafeInv`: the
  confirmation is about the session the key manager works on, or about a wipe, and
  approved only if an approval was handled while it was pending (`PendShape`); the
  signatures of a stream are of what was approved, or of what decayed after it was
  compared (`StreamSafe`). That every signature in memory is of approved
  content is *not* an invariant: an approved wipe can replace the confirmation of
  an action between the two looks of the key manager at it, which then takes the
  approval of the wipe for that of the action. Such a signature is not returned
  (`TaintedOut`): what is pending is the wipe, or nothing, until the next request
  has cleared the session.
* `RejectedIsNotSignedAnyMore`: `Spec => RejectedStaysRejected`. `RejectInv`: a rejected
  request is not pending and never again will be (`RejectedNotPending`), because
  nobody knows the number of a request that no screen was asked to show
  (`NewIsNew`, `Numbered`), and a confirmation is shown on the screen of its own type,
  so that rejecting it there clears it (`ShownAsAsked`); so a late question ends in the checks of
  `confirmation_manager_validate` (`LateIsRejected`), and what the key manager compares
  its session with before it signs was not rejected (`SignStep`).
* `ApprovalIsOfTheShown`: `Spec => ApprovedIsShown`. `ScreenInv`: a confirmation and its
  screen are asked for together and the queue of the UI keeps their order, so the pending
  confirmation is that of the last screen in the queue or, when it is empty, of the
  screen that is on.

## 5. What is only model-checked

* Liveness (`SendReturns`, `ReceiverUnblocks`, `AckIsSent`, `StagedResolved`, `GoesOff`,
  `ExchangeReturns`, `PollAnswered`): fairness and ENABLED are outside of what TLAPS
  proves.
* `UxcCommitsVerified` of `Fwup`: it is false for two new releases (`fwup_stale`), so
  there is no theorem to be had about it.
* The case that the hypothesis of one theorem leaves out: `NoSendGivesUp` of `Uc` when
  messages cross. It is false there, and the run has an instance within the hypothesis.

## 6. Plan

All components that carry behaviour over time have their module, and every safety
property that holds for all values of the constants, or under a hypothesis the
code lets one state, is proved. What is left is outside of the prover's reach
(section 5).

## 7. Reading a counterexample, and known divergences

A trace of TLC names the action of each step; the comment of that action names
the C function, and the map in `PROJECT.json` its lines.

The models contain more places where the code departs from what a comment or a
document says. They are in the actions, so every run takes them into account,
and the properties are worded around them:

* The ACK of the first message after boot is lost: its retransmission resets
  `recv_seq_num` and is delivered again (`uc.c:343`; `lib/uc/README.md:72`).
* A rebooted MCU that sends a pure ACK first gets its first message dropped as a
  duplicate (`uc.c:343`; `uc_impl.h:231`).
* Two messages cross on a perfect wire: each sender holds `wr_mutex`, no pure ACK
  goes out, and both sends fail although both messages arrived (`uc.c:158`).
* A frame rejected by its CRC stays in the read buffer and takes the next,
  undamaged one with it (`uc.c:693`; `lib/uc/README.md:80`).
* Wrong guesses made between `fwup_start` and the next restart are counted in a log
  that this restart erases, with the delay they left (`indexfs.c:17`, `fwup.c:133`);
  `GuessesCounted` and `DelayWaitedOut` allow for exactly that.
* On the first boot the limit response in RAM stays "delay" although the file, just
  written, says "wipe" (`unlock.c:128`; `unlock_test.c:292`).
* A fingerprint enrolled on a locked device, under a grant (`ipc_internal.jinja.c:117`),
  unlocks it (`auth_task.c:820`). No `UI_EVENT_AUTH_SUCCESS` is sent, so `is_locked`,
  "Device requires fingerprint to unlock" (`display_controller_internal.h:17`), stays set
  and the lock screen returns over an unlocked device (`display_controller.c:916`), until
  the expiry.
* An expiry locks three times, and `on_lock` waits without limit for room in the queue of
  the key manager, which has four slots (`auth_task.c:147`, `key_manager_task.c:820`). A
  finger that matches during such a wait restarts the expiry timer; the remaining locks
  stop it and start the power timer, which the match then stops. The device is locked
  and no timer runs, against "Locked: Power timer running" (`sleep.h:15`), until it is
  locked again or a finger fails to match.
* A finger that matches between the steps of `do_deauthenticate` unlocks a device
  whose power timer runs (`auth.c:93`; `sleep.h:14`).
* The shutdown latch is "never cleared (only a reset clears it ...)" by its comment
  (`sleep.c:13`), and `sleep_cancel_shutdown` clears it when the UXC has rebooted;
  `LatchHolds` is about the time up to that.
* A seed that is intact and cannot be read once, for the lock of the one open file or
  an error of LittleFS, is replaced by a new one, and the keys handed out are lost
  (`seed.c:22-32`, `filesystem.c:239`); `AnsweredKeysKept` and `NoStaleKeys` stop there.
* A removal that fails in a wipe that is then cut leaves a cache of an old seed
  beside its KEK (`wallet_storage.c:77`; the comment at `:81`).
* An approved confirmation does time out (`confirmation_manager.c:128`;
  `privileged_action.c:95`).
* A request replaces the pending confirmation while the screen of the one before is on and
  its own is still queued; approving that screen approves the new request
  (`confirmation_manager.c:211`), although the confirmation is meant to hold "the ground
  truth for what the user actually approved" (`key_manager_task_port.c:575`).
* A streamed payload decays after it was compared with what was approved:
  `get_tx_signature` computes a signature that its file misses from the flash as it is
  then, and hands it out (`key_manager_task_port.c:3225`, the batch at `:3348`), although
  "any post-approval flash corruption will be detected" (`:616`).
* A stream that was confirmed and then cancelled is still signed on demand: the cancel
  clears the confirmation, and `get_tx_signature` looks at the session only
  (`money_movement.c:216`, `key_manager_task_port.c:3175`).

Further exposures that no property is about: the session may be torn down between
`has_session` and `gcm_encrypt` (`uc.c:500`, ends in an error); a listener's full
queue blocks the USART task (`uc_route.c:81`); a wipe past the guess limit is not
resumed after a loss of power (`unlock.c:194`); a header of the retry log that
could not be written (`indexfs_monotonic.c:136`); `cmd_seq` restarts when Core
resets (`wca.c:80`); the data of a UI event is a static buffer
(`ui_messaging.h:22`).

## 8. Not modelled, and why

* PSBT, BIP32, crypto: cryptography and parsing; their correctness is about
  values, and small instances say little about it.
* Screens: presentation. Of the display controller, the parts that lock, approve,
  cancel and expire are in `Auth` and `Confirm`.
* RTOS (FreeRTOS) and littlefs: third-party code behind thin wrappers, modelled by
  how the code here uses it: file operations that may fail, timers, mutexes, event
  groups, priorities.
* `grant_protocol`, `kv`, `telemetry-storage`, `ringbuf`: sequential code of one task
  over one file or buffer, with unit tests that reach its cases.
* `uc_route`, the pool of send buffers and `uc_ack`: routing is a table lookup
  followed by a blocking post, the pool of four send buffers only delays callers,
  and no task calls `uc_ack`.
* In modelled components: the enrollment grant and the recorded method of `auth` (what a
  completed enrollment does is modelled),
  inhibition and the ship state of `sleep`, boot-loader updates and the one-phase
  delta of `fwup`, the session with the app and attestation in the key manager.
* Other users of the confirmation manager: the start of a firmware update
  (`CONFIRMATION_TYPE_FWUP_START`, from the fwup task) and the recovery, upgrade and
  repair types (`confirmation_manager.h:29-45`, from `recovery_composites.c`,
  `lost_app_recovery.c`, `rotate_app_auth_keys.c` and others). They replace, validate
  and clear the one pending confirmation too, and keep sessions of their own, whose
  signatures and keys are not in `Confirm`: its theorems are about transactions,
  streams, actions and wipes. `Fwup` has its confirmation as one flag, without other
  types beside it.
* Starting an update without a confirmation: a device that is not onboarded, or a
  manufacturing build, starts it at once (`fwup_task_port.c:286-298`, `:664-688`). `Fwup`
  is an onboarded device with production firmware.
* The app, the server, the Rust core, infrastructure and tools: other languages
  and other questions, and by far the largest part of the repository, together
  with vendored and generated C code.
