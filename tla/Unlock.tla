-------------------------------- MODULE Unlock --------------------------------
(***************************************************************************)
(* Unlocking with a secret (firmware/lib/unlock): wrong guesses are counted *)
(* in flash before they are compared, every guess from the fourth on costs *)
(* a delay that a restart does not shorten, and past ATTEMPT_LIMIT the     *)
(* limit response is taken.                                                *)
(*                                                                         *)
(* Four threads work on the retry log without a lock: the auth task, which *)
(* checks secrets; the matching thread of the auth task (higher priority:  *)
(* the auth task never runs in the middle of its steps), which clears the  *)
(* count on a fingerprint match; the timer task (highest priority), which  *)
(* marks a delay as served; and the key manager (same priority as the auth *)
(* task), which wipes the state.  An action ends where another thread may  *)
(* change what the next step reads.                                        *)
(***************************************************************************)
EXTENDS IndexFs

CONSTANTS
    Limit,          \* ATTEMPT_LIMIT
    Delay,          \* delay_table: Delay[c] after the c-th wrong guess
    MaxFaults,      \* bound: flash and file operations that fail
    MaxReboots,     \* bound: restarts
    MaxUpdates      \* bound: firmware updates started

ASSUME UnlockAssumption ==
    /\ Limit \in Nat \ {0}
    /\ Delay \in [1 .. Limit -> Nat]
    /\ \A c \in 1 .. Limit - 1 : Delay[c] <= Delay[c + 1]

ASSUME UnlockBounds == MaxFaults \in Nat /\ MaxReboots \in Nat /\ MaxUpdates \in Nat

VARIABLES
    log,            \* flash: the retry log
    header,         \* flash: the log starts with INDEXFS_MONOTONIC_MAGIC
    secret,         \* file: unlock-secret.bin exists
    response,       \* file: limit-response.bin
    up,             \* unlock_ctx.initialized
    limitResponse,  \* unlock_ctx.limit_response
    timer,          \* delay_timer: the duration it runs for, 0 when it does not
    authed,         \* is_authenticated() (lib/auth)
    pc,             \* the auth task inside unlock_check_secret
    cur,            \* its current_count
    slot,           \* the index and
    seen,           \* the count that its indexfs call has read
    wipe,           \* the key manager inside unlock_wipe_state
    wipeSlot        \* the index that its indexfs_clear has read

\* What happened so far, read by no action of the code.
VARIABLES
    wrong,          \* wrong secrets compared since the count was last cleared
    dropped,        \* the counts that erased logs held since then
    lost,           \* the log was erased that recorded the delay owed
    overtaken,      \* 1: the count was cleared under a guess not yet compared
    owed,           \* the delay that the last wrong guess still costs
    stray,          \* an entry from before an erase is, or may get, in the way:
                    \* the erase hit an append, or left entries past the page
    faults, reboots, updates

flashVars == <<log, header, secret, response>>
taskVars == <<pc, cur, slot, seen>>
wipeVars == <<wipe, wipeSlot>>
guessVars == <<wrong, overtaken, owed, dropped, lost>>
bounds == <<stray, faults, reboots, updates>>
vars == <<flashVars, up, limitResponse, timer, authed, taskVars, wipeVars, guessVars,
          bounds>>

Responses == {"delay", "wipe"}

Init ==
    /\ log \in {[i \in 1 .. LogSize |-> Blank(kind)] : kind \in {"erased", "image"}}
    /\ header = FALSE
    /\ secret = FALSE
    /\ response = "none"
    /\ up = FALSE
    /\ limitResponse = "delay"
    /\ timer = 0
    /\ authed = FALSE
    /\ pc = "idle" /\ cur = 0 /\ slot = 0 /\ seen = 0
    /\ wipe = "idle" /\ wipeSlot = 0
    /\ wrong = 0 /\ overtaken = 0 /\ owed = 0 /\ dropped = 0 /\ lost = FALSE
    /\ stray = FALSE /\ faults = 0 /\ reboots = 0 /\ updates = 0

Fault ==
    /\ faults < MaxFaults
    /\ faults' = faults + 1
    /\ UNCHANGED <<stray, reboots, updates>>

\* Back from unlock_check_secret.
Return == pc' = "idle" /\ cur' = 0 /\ slot' = 0 /\ seen' = 0

\* The count was cleared: guesses are counted from 0 again.
Cleared ==
    /\ wrong' = 0 /\ dropped' = 0
    /\ owed' = 0 /\ lost' = FALSE
    /\ overtaken' = IF pc = "compare" THEN 1 ELSE 0

\* The log is erased, with the count and the delay it records; what the guesses
\* were and what they cost is not undone by that.
Erased ==
    /\ dropped' = dropped + Count(log)
    /\ UNCHANGED <<wrong, overtaken, owed>>

TableDelay(count) == Delay[IF count >= Limit THEN Limit ELSE count]

\* get_delay_for_retry_count on the log l.
DelayFor(l, count) == IF count = 0 \/ GetFlag(l) THEN 0 ELSE TableDelay(count)

\* begin_delay.
BeginDelay(l, count) ==
    timer' = IF DelayFor(l, count) = 0 THEN timer ELSE DelayFor(l, count)

\* limit_response_read at startup: when it fails it writes the default response to
\* the file, and unlock_ctx keeps RESPONSE_DELAY.
LimitResponseRead ==
    \/ /\ response # "none"
       /\ limitResponse' = response
       /\ UNCHANGED <<response, faults>>
    \/ /\ response = "none"
       /\ response' = "wipe"
       /\ UNCHANGED <<limitResponse, faults>>
    \/ /\ response # "none"
       /\ faults < MaxFaults
       /\ faults' = faults + 1
       /\ response' = "wipe"
       /\ UNCHANGED limitResponse

-----------------------------------------------------------------------------
(* The auth task.                                                          *)

\* Mutant: the delay does not survive a restart.
InitWithoutDelay ==
    /\ ~up
    /\ up' = TRUE
    /\ log' = Create(log, header)
    /\ header' = TRUE
    /\ LimitResponseRead
    /\ UNCHANGED timer
    /\ IF header THEN UNCHANGED guessVars ELSE Erased /\ lost' = (lost \/ owed > 0)
    /\ stray' = (stray \/ (~header /\ \E i \in 1 .. LogSize : log'[i].kind = "entry"))
    /\ UNCHANGED <<secret, authed, taskVars, wipeVars, reboots, updates>>

\* unlock_init_and_begin_delay.
InitAndBeginDelay ==
    /\ ~up
    /\ up' = TRUE
    /\ log' = Create(log, header)
    /\ header' = TRUE
    /\ LimitResponseRead
    /\ BeginDelay(log', Count(log'))
    /\ IF header THEN UNCHANGED guessVars ELSE Erased /\ lost' = (lost \/ owed > 0)
    /\ stray' = (stray \/ (~header /\ \E i \in 1 .. LogSize : log'[i].kind = "entry"))
    /\ UNCHANGED <<secret, authed, taskVars, wipeVars, reboots, updates>>

\* unlock_check_secret up to the end of "Enforce delay"; its error returns, and
\* UNLOCK_WAITING_ON_DELAY, change nothing.
CheckSecret ==
    /\ up
    /\ pc = "idle"
    /\ secret
    /\ timer = 0
    /\ pc' = "increment"
    /\ cur' = Count(log) + 1
    /\ UNCHANGED <<flashVars, up, limitResponse, timer, authed, slot, seen, wipeVars,
                   guessVars, bounds>>

\* indexfs_increment scans the log for the count,
IncrementRead ==
    /\ pc = "increment"
    /\ IF Count(log) + 1 > MaxCount THEN Return
       ELSE seen' = Count(log) /\ pc' = "index" /\ UNCHANGED <<cur, slot>>
    /\ UNCHANGED <<flashVars, up, limitResponse, timer, authed, wipeVars, guessVars,
                   bounds>>

\* and once more for the index.
IncrementIndex ==
    /\ pc = "index"
    /\ slot' = CurrentIndex(log)
    /\ pc' = "write"
    /\ UNCHANGED <<cur, seen, flashVars, up, limitResponse, timer, authed, wipeVars,
                   guessVars, bounds>>

\* It writes its entry where the index was.
IncrementWrite ==
    /\ pc = "write"
    /\ \/ /\ log' = Append(log, slot, IncrementEntry(seen))
          /\ pc' = "verify"
          /\ UNCHANGED <<cur, slot, seen, bounds>>
       \/ /\ Fault
          /\ Return
          /\ UNCHANGED log
    /\ UNCHANGED <<header, secret, response, up, limitResponse, timer, authed,
                   wipeVars, guessVars>>

\* Mutant: the count is not read back.
IncrementUnverified ==
    /\ pc = "verify"
    /\ pc' = "compare"
    /\ UNCHANGED <<cur, slot, seen, flashVars, up, limitResponse, timer, authed,
                   wipeVars, guessVars, bounds>>

\* retry_counter_write: "Read and check".
IncrementVerify ==
    /\ pc = "verify"
    /\ IF Count(log) = cur THEN pc' = "compare" /\ UNCHANGED <<cur, slot, seen>>
       ELSE Return
    /\ UNCHANGED <<flashVars, up, limitResponse, timer, authed, wipeVars, guessVars,
                   bounds>>

\* unlock_secret_read, which fails without the file, and compare_secrets.
Compare ==
    /\ pc = "compare"
    /\ \/ /\ secret
          /\ pc' = "clear"
          /\ UNCHANGED <<cur, slot, seen, wrong, owed, lost, bounds>>
       \/ /\ secret
          /\ pc' = "wrong"
          /\ wrong' = wrong + 1
          /\ owed' = IF Count(log) = cur \/ lost THEN TableDelay(cur) ELSE owed
          /\ lost' = (lost /\ Count(log) # cur)
          /\ UNCHANGED <<cur, slot, seen, bounds>>
       \/ /\ ~secret
          /\ Return
          /\ UNCHANGED <<wrong, owed, lost, bounds>>
       \/ /\ Fault
          /\ Return
          /\ UNCHANGED <<wrong, owed, lost>>
    /\ UNCHANGED <<flashVars, up, limitResponse, timer, authed, wipeVars, overtaken,
                   dropped>>

\* perform_limit_response: a wipe is asked for by posting to the key manager.
PerformLimitResponse ==
    wipe' = IF limitResponse = "wipe" /\ wipe = "idle" THEN "asked" ELSE wipe

\* "Wrong secret": begin_delay and, past the limit, perform_limit_response.
WrongSecret ==
    /\ pc = "wrong"
    /\ BeginDelay(log, cur)
    /\ IF cur > Limit THEN PerformLimitResponse ELSE UNCHANGED wipe
    /\ Return
    /\ UNCHANGED <<flashVars, up, limitResponse, authed, wipeSlot, guessVars, bounds>>

\* retry_counter_write(0), which fails when the count is 0 already; the index is
\* the result of a second scan.
ClearRead ==
    /\ pc = "clear"
    /\ IF Count(log) = 0 THEN Return
       ELSE pc' = "clear_index" /\ UNCHANGED <<cur, slot, seen>>
    /\ UNCHANGED <<flashVars, up, limitResponse, timer, authed, wipeVars, guessVars,
                   bounds>>

ClearIndex ==
    /\ pc = "clear_index"
    /\ pc' = "clear_write"
    /\ slot' = CurrentIndex(log)
    /\ UNCHANGED <<cur, seen, flashVars, up, limitResponse, timer, authed, wipeVars,
                   guessVars, bounds>>

\* The clear is written and checked; only then is the device unlocked.
ClearWrite ==
    /\ pc = "clear_write"
    /\ Return
    /\ \/ /\ log' = Append(log, slot, ClearEntry)
          /\ IF Count(log') = 0
             THEN timer' = 0 /\ authed' = TRUE /\ Cleared
             ELSE UNCHANGED <<timer, authed, guessVars>>
          /\ UNCHANGED bounds
       \/ /\ Fault
          /\ UNCHANGED <<log, timer, authed, guessVars>>
    /\ UNCHANGED <<header, secret, response, up, limitResponse, wipeVars>>

\* unlock_provision_secret and unlock_set_configured_limit_response, for who may
\* send these commands: auth is required once a secret is set.  (The second reads
\* the file back, and a read that fails leaves the default in it.)
ProvisionSecret ==
    /\ up /\ pc = "idle"
    /\ secret => authed
    /\ secret' = TRUE
    /\ UNCHANGED <<log, header, response, up, limitResponse, timer, authed, taskVars,
                   wipeVars, guessVars, bounds>>

SetLimitResponse ==
    /\ up /\ pc = "idle"
    /\ secret => authed
    /\ response' \in Responses
    /\ UNCHANGED <<log, header, secret, up, limitResponse, timer, authed, taskVars,
                   wipeVars, guessVars, bounds>>

-----------------------------------------------------------------------------
(* The other threads.                                                      *)

\* delay_callback in the timer task.
DelayCallback ==
    /\ timer > 0
    /\ timer' = 0
    /\ \/ /\ log' = IF Count(log) = 0 THEN log
                    ELSE Append(log, CurrentIndex(log), FlagEntry(Count(log)))
          /\ UNCHANGED bounds
       \/ Fault /\ UNCHANGED log
    /\ owed' = IF timer >= owed THEN 0 ELSE owed
    /\ UNCHANGED <<header, secret, response, up, limitResponse, authed, taskVars,
                   wipeVars, wrong, overtaken, dropped, lost>>

\* A fingerprint matches: set_authenticated_via_fingerprint, then
\* unlock_reset_retry_counter, which leaves a running delay alone.
FingerprintMatch ==
    /\ authed' = TRUE
    /\ \/ /\ up /\ Count(log) # 0
          /\ log' = Append(log, CurrentIndex(log), ClearEntry)
          /\ IF Count(log') = 0 THEN Cleared ELSE UNCHANGED guessVars
          /\ UNCHANGED bounds
       \/ /\ ~up \/ Count(log) = 0
          /\ UNCHANGED <<log, guessVars, bounds>>
       \/ /\ up /\ Count(log) # 0
          /\ Fault
          /\ UNCHANGED <<log, guessVars>>
    /\ UNCHANGED <<header, secret, response, up, limitResponse, timer, taskVars,
                   wipeVars>>

Deauthenticate ==
    /\ authed
    /\ authed' = FALSE
    /\ UNCHANGED <<flashVars, up, limitResponse, timer, taskVars, wipeVars, guessVars,
                   bounds>>

\* handle_wipe_state of the sysinfo task.
RequestWipe ==
    /\ up /\ wipe = "idle"
    /\ secret => authed
    /\ wipe' = "asked"
    /\ authed' = FALSE
    /\ UNCHANGED <<flashVars, up, limitResponse, timer, taskVars, wipeSlot, guessVars,
                   bounds>>

\* unlock_wipe_state in the key manager: the two files first, then the count.
WipeSecret ==
    /\ wipe = "asked"
    /\ wipe' = "response"
    /\ secret' = FALSE
    /\ UNCHANGED <<log, header, response, up, limitResponse, timer, authed, taskVars,
                   wipeSlot, guessVars, bounds>>

WipeResponse ==
    /\ wipe = "response"
    /\ wipe' = "reset"
    /\ response' = "none"
    /\ UNCHANGED <<log, header, secret, up, limitResponse, timer, authed, taskVars,
                   wipeSlot, guessVars, bounds>>

WipeRead ==
    /\ wipe = "reset"
    /\ wipe' = IF Count(log) = 0 THEN "idle" ELSE "index"
    /\ UNCHANGED <<flashVars, up, limitResponse, timer, authed, taskVars, wipeSlot,
                   guessVars, bounds>>

WipeIndex ==
    /\ wipe = "index"
    /\ wipe' = "write"
    /\ wipeSlot' = CurrentIndex(log)
    /\ UNCHANGED <<flashVars, up, limitResponse, timer, authed, taskVars, guessVars,
                   bounds>>

WipeWrite ==
    /\ wipe = "write"
    /\ wipe' = "idle" /\ wipeSlot' = 0
    /\ \/ /\ log' = Append(log, wipeSlot, ClearEntry)
          /\ IF Count(log') = 0 THEN Cleared ELSE UNCHANGED guessVars
          /\ UNCHANGED bounds
       \/ Fault /\ UNCHANGED <<log, guessVars>>
    /\ UNCHANGED <<header, secret, response, up, limitResponse, timer, authed,
                   taskVars>>

\* A firmware update (fwup_start): the slot that holds the log is erased, and in
\* the end holds the new image.  The restart into that image makes the old one's
\* slot the next home of the log, without a header as well.  (Chunks of the image
\* written over entries that were appended since the erase are not modelled.)
FirmwareUpdate ==
    /\ updates < MaxUpdates
    /\ updates' = updates + 1
    /\ authed
    /\ \E kind \in {"erased", "image"} : log' = [i \in 1 .. LogSize |-> Blank(kind)]
    /\ header' = FALSE
    /\ Erased /\ lost' = TRUE
    /\ stray' = (stray \/ pc \in {"write", "clear_write"} \/ wipe = "write")
    /\ UNCHANGED <<secret, response, up, limitResponse, timer, authed, taskVars,
                   wipeVars, faults, reboots>>

\* Power is lost, at any moment.
Reboot ==
    /\ reboots < MaxReboots
    /\ reboots' = reboots + 1
    /\ up' = FALSE
    /\ limitResponse' = "delay"
    /\ timer' = 0
    /\ authed' = FALSE
    /\ Return
    /\ wipe' = "idle" /\ wipeSlot' = 0
    /\ UNCHANGED <<flashVars, guessVars, stray, faults, updates>>

-----------------------------------------------------------------------------
AuthTask ==
    \/ InitAndBeginDelay \/ CheckSecret \/ IncrementRead \/ IncrementIndex
    \/ IncrementWrite \/ IncrementVerify \/ Compare \/ WrongSecret \/ ClearRead
    \/ ClearIndex \/ ClearWrite \/ ProvisionSecret \/ SetLimitResponse

Next ==
    \/ AuthTask \/ DelayCallback \/ FingerprintMatch \/ Deauthenticate
    \/ RequestWipe \/ WipeSecret \/ WipeResponse \/ WipeRead \/ WipeIndex
    \/ WipeWrite \/ FirmwareUpdate \/ Reboot

Spec == Init /\ [][Next]_vars

-----------------------------------------------------------------------------
(* Properties.                                                             *)

TypeOK ==
    /\ log \in [1 .. LogSize -> Word]
    /\ header \in BOOLEAN /\ secret \in BOOLEAN /\ response \in Responses \cup {"none"}
    /\ up \in BOOLEAN /\ limitResponse \in Responses /\ timer \in Nat
    /\ authed \in BOOLEAN
    /\ pc \in {"idle", "increment", "index", "write", "verify", "compare", "wrong",
               "clear", "clear_index", "clear_write"}
    /\ cur \in 0 .. MaxCount + 1 /\ seen \in 0 .. MaxCount - 1
    /\ slot \in 0 .. LogSize - 1 /\ wipeSlot \in 0 .. LogSize - 1
    /\ wipe \in {"idle", "asked", "response", "reset", "index", "write"}
    /\ wrong \in Nat /\ overtaken \in {0, 1} /\ owed \in Nat
    /\ dropped \in Nat /\ lost \in BOOLEAN /\ stray \in BOOLEAN
    /\ faults \in 0 .. MaxFaults /\ reboots \in 0 .. MaxReboots
    /\ updates \in 0 .. MaxUpdates

\* Wrong guesses are missing from the persisted count only where a log that held
\* them was erased, and that takes a firmware update: the count, with what erased
\* logs held, is at least the number of wrong secrets compared since it was last
\* cleared, whatever restarts, failing writes and other threads do; a clear that
\* overtakes a guess costs one.  The guesses that fwup_start erases are gone, and so
\* are at the next restart the ones counted after it, in a log that has no header.
\* (Not claimed once an entry from before an erase got into the log, see stray.)
GuessesCounted ==
    /\ ~stray => wrong <= Count(log) + overtaken + dropped
    /\ dropped > 0 => updates > 0

\* A secret is compared only after the delay that the guess before it cost was
\* waited out in full, also across restarts, unless the log that recorded this
\* delay was erased, which takes a firmware update.  (Same exception.)
DelayWaitedOut ==
    /\ ~stray /\ ~lost /\ pc = "compare" => owed = 0
    /\ lost => updates > 0
==============================================================================
