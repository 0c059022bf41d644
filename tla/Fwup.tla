------------------------------- MODULE Fwup -------------------------------
(***************************************************************************)
(* Firmware update of the two MCUs of the W3 hardware.  Each MCU has two   *)
(* application slots, A and B; a boot loader runs the valid slot of the    *)
(* higher version.  The app sends an image and its signature over NFC to   *)
(* Core, which forwards what is for the UXC over the UC link.  In a        *)
(* deferred session both signatures stay in RAM until both images are      *)
(* verified; then Core saves its own to a file (staged), has the UXC write *)
(* its own to flash, and writes its own after the UXC's answer.  The file  *)
(* is the intent record from which an interrupted commit is completed when *)
(* the UXC next reports the version it runs.                               *)
(*                                                                         *)
(* An image is its version number: 0 is an erased or incomplete slot, Junk *)
(* one that was programmed twice.  A slot is valid when its image and its  *)
(* signature agree.  The UC link gives what module Channel promises: a     *)
(* send that succeeds was delivered, one that fails was delivered or not.  *)
(***************************************************************************)
EXTENDS Integers, Sequences

CONSTANTS
    MaxVersion,   \* the releases are 2 .. MaxVersion; both MCUs start at 1
    Modes,        \* a subset of {"normal", "delta"}
    MaxStarts,    \* bound on the fwup_start commands of the app
    MaxFaults,    \* bound on failed sends, lost answers and flash failures
    MaxCrashes    \* bound on resets that no handler asked for

ASSUME ConstantsAssumption ==
    /\ MaxVersion \in Nat \ {0, 1}
    /\ Modes \subseteq {"normal", "delta"}
    /\ {MaxStarts, MaxFaults, MaxCrashes} \subseteq Nat

VARIABLES
    chip,      \* per MCU: flash slots, the running slot and fwup_priv
    core,      \* the variables of Core's fwup task, lost on a reset of Core
    pc,        \* where Core's fwup task is
    staged,    \* the file of fwup_staged_sig.c, or NoFile
    uxc,       \* the variables of the UXC's fwup task and where it is
    echo,      \* does the UXC's firmware echo the sequence number?
    toUxc,     \* messages received by the UXC, not yet handled by its fwup task
    toCore,    \* messages in the queue of Core's fwup task
    reported,  \* UXC version told to the app, and the one in the boot message
    confirm,   \* the pending confirmation of a fwup_start, or NoCmd
    app,       \* the update the app is engaged in and how far it came
    goal,      \* history: release of a deferred update of Core, verified by the UXC
    starts, faults, crashes

vars == <<chip, core, pc, staged, uxc, echo, toUxc, toCore, reported, confirm,
          app, goal, starts, faults, crashes>>

Mcus == {"Core", "Uxc"}
Slots == {"A", "B"}
Releases == 2 .. MaxVersion
Junk == MaxVersion + 1
Images == 0 .. Junk
NoFile == [sig |-> 0, slot |-> "A", uxc |-> 0]
NoCmd == [mcu |-> "Core", v |-> 0, mode |-> "normal", defer |-> FALSE]

-----------------------------------------------------------------------------
(* Boot loader *)

Valid(ch, s) == ch.img[s] = ch.sig[s] /\ ch.img[s] \in 1 .. MaxVersion

\* Mutant: the higher version is booted without a look at its signature.
SelectUnverified(ch) == IF ch.img["A"] >= ch.img["B"] THEN "A" ELSE "B"

\* The only valid slot, else the higher version, else A.
bl_select_slot(ch) ==
    IF ~Valid(ch, "B") \/ (Valid(ch, "A") /\ ch.img["A"] >= ch.img["B"])
    THEN "A" ELSE "B"

\* A reset: fwup_priv, the delta state and the patch file are gone.
Boot(ch) == [ch EXCEPT !.run = bl_select_slot(ch), !.pend = 0, !.conf = 0,
                       !.patch = 0, !.open = FALSE, !.verified = FALSE]

fwup_target_slot(ch) == IF ch.run = "A" THEN "B" ELSE "A"
Running(ch) == ch.img[ch.run]

-----------------------------------------------------------------------------
(* fwup.c: each operation gives the set of its outcomes; a failure of the  *)
(* flash costs a fault.                                                    *)

Outcome(ok, ch, cost) == [ok |-> ok, ch |-> ch, cost |-> cost]

\* Flash is programmed once after an erase; the same data again is harmless.
Program(old, new) == IF old \in {0, new} THEN new ELSE Junk

Erased(ch) == LET t == fwup_target_slot(ch)
              IN  [ch EXCEPT !.img[t] = 0, !.sig[t] = 0]

\* The erase goes page by page and stops at the page that fails.
HalfErased(ch) == [ch EXCEPT !.img[fwup_target_slot(ch)] = Junk]

fwup_start(ch, cmd) ==
    LET opened == [ch EXCEPT !.conf = cmd.v, !.pend = 0, !.verified = FALSE,
                             !.patch = 0, !.open = (cmd.mode = "delta")]
    IN  IF cmd.mode = "delta"
        THEN {Outcome(TRUE, opened, 0), Outcome(FALSE, [opened EXCEPT !.open = FALSE], 1)}
        ELSE {Outcome(TRUE, Erased(opened), 0), Outcome(FALSE, HalfErased(opened), 1)}

\* The image or the patch; the signature stays in RAM.
fwup_transfer(ch, part, cmd) ==
    LET t == fwup_target_slot(ch) IN
    CASE part = "sig" ->
           {Outcome(TRUE, [ch EXCEPT !.pend = cmd.v, !.verified = FALSE], 0)}
      [] part = "body" /\ cmd.mode = "delta" ->
           {IF ch.open THEN Outcome(TRUE, [ch EXCEPT !.patch = cmd.v], 0)
                       ELSE Outcome(FALSE, ch, 0)}
      [] OTHER ->
           {Outcome(TRUE, [ch EXCEPT !.img[t] = Program(@, cmd.v)], 0),
            Outcome(FALSE, [ch EXCEPT !.img[t] = Junk], 1)}

\* The header of a patch must carry the confirmed version.
fwup_pre_apply_check(ch) == ch.conf # 0 /\ ch.patch = ch.conf

\* Is the image in the target slot newer, signed and the confirmed one?
Verifies(ch) ==
    LET t == fwup_target_slot(ch) IN
    /\ ch.pend # 0
    /\ ch.img[t] > Running(ch)
    /\ ch.img[t] = ch.pend
    /\ ch.conf = ch.img[t]

fwup_finish(ch, mode) ==
    LET t == fwup_target_slot(ch)
        applied == [Erased(ch) EXCEPT !.img[t] = ch.patch, !.patch = 0]
        checked(c) == Outcome(Verifies(c), [c EXCEPT !.verified = Verifies(c)], 0)
    IN  CASE mode = "normal" -> {checked(ch)}
          [] mode = "delta" /\ ch.open /\ ch.patch # 0 ->
               {checked(applied), Outcome(FALSE, [HalfErased(ch) EXCEPT !.patch = 0], 1)}
          [] OTHER -> {Outcome(FALSE, ch, 0)}

\* A failed write erases the page of the signature again.
fwup_commit_signature_to(ch, s, sig) ==
    {Outcome(TRUE, [ch EXCEPT !.sig[s] = Program(@, sig)], 0),
     Outcome(FALSE, [ch EXCEPT !.sig[s] = 0], 1)}

fwup_commit_signature(ch) ==
    IF ch.pend = 0 THEN {Outcome(FALSE, ch, 0)}
    ELSE fwup_commit_signature_to(ch, fwup_target_slot(ch), ch.pend)

\* Mutant: the slot in the file is not compared with the running one.
CommitStagedUnchecked(ch, file) == fwup_commit_signature_to(ch, file.slot, file.sig)

\* Never to the running slot.
fwup_staged_sig_commit_to_flash(ch, file) ==
    IF file.slot # fwup_target_slot(ch) THEN {Outcome(FALSE, ch, 0)}
    ELSE fwup_commit_signature_to(ch, file.slot, file.sig)

-----------------------------------------------------------------------------
(* State *)

CoreBoot == [pending |-> FALSE, coproc |-> FALSE, reset_pending |-> FALSE,
             confirmed |-> 0, awaiting_delta |-> FALSE, awaiting_commit |-> FALSE,
             commit_seq |-> 0, seq_counter |-> 0, defer |-> FALSE,
             uxc_verified |-> FALSE, kind |-> "none"]
UxcBoot == [pc |-> "loop", defer |-> FALSE, cur |-> FALSE]
Idle == [cmd |-> NoCmd, step |-> "idle"]

Kinds == {"none", "start", "start_confirmed", "transfer", "finish", "delta",
          "cached_ok", "cached_error"}
PCs == {"loop", "send_commit", "remove_staged", "remove_staged_both", "reset",
        "reset_both"}
Msgs == [type : {"start", "body", "sig", "finish", "commit", "version"},
         cmd : [mcu : Mcus, v : 0 .. MaxVersion, mode : {"normal", "delta"},
                defer : BOOLEAN],
         result : {"none", "ok", "error", "patch"}, seq : Nat, cur : BOOLEAN]

TypeOK ==
    /\ chip \in [Mcus -> [img : [Slots -> Images], sig : [Slots -> Images],
                          run : Slots, pend : 0 .. MaxVersion,
                          conf : 0 .. MaxVersion, patch : 0 .. MaxVersion,
                          open : BOOLEAN, verified : BOOLEAN]]
    /\ core \in [pending : BOOLEAN, coproc : BOOLEAN, reset_pending : BOOLEAN,
                 confirmed : 0 .. MaxVersion, awaiting_delta : BOOLEAN,
                 awaiting_commit : BOOLEAN, commit_seq : Nat, seq_counter : Nat,
                 defer : BOOLEAN, uxc_verified : BOOLEAN, kind : Kinds]
    /\ pc \in PCs
    /\ staged \in [sig : 0 .. MaxVersion, slot : Slots, uxc : 0 .. MaxVersion]
    /\ uxc \in [pc : {"loop", "apply", "commit", "reset"}, defer : BOOLEAN, cur : BOOLEAN]
    /\ echo \in BOOLEAN
    /\ toUxc \in Seq(Msgs)
    /\ toCore \in Seq(Msgs)
    /\ reported \in [info : 0 .. MaxVersion, boot : 0 .. MaxVersion]
    /\ goal \in Images
    /\ starts \in 0 .. MaxStarts
    /\ faults \in 0 .. MaxFaults
    /\ crashes \in 0 .. MaxCrashes

Init ==
    /\ chip = [m \in Mcus |->
                 [img |-> [A |-> 1, B |-> 0], sig |-> [A |-> 1, B |-> 0],
                  run |-> "A", pend |-> 0, conf |-> 0, patch |-> 0,
                  open |-> FALSE, verified |-> FALSE]]
    /\ core = CoreBoot /\ pc = "loop" /\ staged = NoFile
    /\ uxc = UxcBoot /\ echo \in BOOLEAN
    /\ toUxc = <<>> /\ toCore = <<>>
    /\ reported = [info |-> 1, boot |-> 1]
    /\ confirm = NoCmd /\ app = Idle /\ goal = 0
    /\ starts = 0 /\ faults = 0 /\ crashes = 0

-----------------------------------------------------------------------------
(* Steps shared by the actions *)

Spend(cost) == /\ faults + cost <= MaxFaults
               /\ faults' = faults + cost

\* Core clears a request whose answer is still due: that answer is now stale.
Retired(q) == [i \in DOMAIN q |-> [q[i] EXCEPT !.cur = FALSE]]

\* uc_send of Core: the message is received; or the send fails, and the
\* message was lost or is received all the same.
Sent(msg) == toUxc' = Append(toUxc, msg) /\ Spend(0)
NotSent(msg) == /\ toUxc' \in {toUxc, Append(toUxc, [msg EXCEPT !.cur = FALSE])}
                /\ Spend(1)

Msg(type, cmd, seq) ==
    [type |-> type, cmd |-> cmd, result |-> "none", seq |-> seq, cur |-> TRUE]

\* The app is told the result and goes on to the given step, "idle" after an
\* error; at the cost of a fault the NFC exchange has timed out meanwhile and
\* the app will repeat the command.
Told(step, cost) == \/ app' = [app EXCEPT !.step = step] /\ Spend(cost)
                    \/ UNCHANGED app /\ Spend(cost + 1)

NeedsConfirmation(v) == core.confirmed # v

\* The image v was verified and is still what is in the target slot.
Holds(ch, v) == ch.verified /\ ch.img[fwup_target_slot(ch)] = v

\* fwup_start on Core, on behalf of the command cmd.
CoreStart(c1, cmd, confirmed) ==
    \E o \in fwup_start(chip["Core"], cmd) :
        /\ chip' = [chip EXCEPT !["Core"] = o.ch]
        /\ core' = [c1 EXCEPT !.pending = o.ok,
                              !.confirmed = IF o.ok \/ ~confirmed THEN @ ELSE 0]
        /\ goal' = IF c1.defer /\ Holds(chip["Uxc"], cmd.v) THEN cmd.v ELSE 0
        /\ app' = [cmd |-> cmd, step |-> IF o.ok THEN "open" ELSE "idle"]
        /\ Spend(o.cost)

-----------------------------------------------------------------------------
(* Commands of the app, handled by Core's fwup task.  A command that is    *)
(* rejected changes nothing.                                               *)

Loop == pc = "loop"
Accepts == Loop /\ ~core.reset_pending

\* What the app checks with getDeviceInfo before it starts an update.  It
\* updates the UXC first, and Core when the UXC is done.  It defers the commit
\* if the release has an image for Core too, and Core does not run it yet.
AppStarts(cmd) ==
    \/ /\ cmd.mcu = "Uxc" /\ cmd.v # reported.info
       /\ cmd.defer => Running(chip["Core"]) # cmd.v
    \/ /\ cmd.mcu = "Core" /\ cmd.v # Running(chip["Core"])
       /\ \/ reported.info = cmd.v
          \/ reported.info = 0 /\ app.step = "next" /\ app.cmd.v = cmd.v

fwup_task_send_coproc_fwup_start_cmd(cmd) ==
    LET c1 == [core EXCEPT !.kind = "none", !.defer = cmd.defer]
        forward == [c1 EXCEPT !.confirmed = cmd.v, !.kind = "start", !.coproc = TRUE]
        failed == [c1 EXCEPT !.confirmed = 0, !.defer = FALSE]
        cached == core.kind \in {"cached_ok", "cached_error"}
    IN  /\ core.kind = "none" \/ cached
        /\ UNCHANGED <<chip, goal>>
        /\ IF NeedsConfirmation(cmd.v)
           THEN /\ core' = c1 /\ confirm' = cmd
                /\ app' = [cmd |-> cmd, step |-> "confirm"]
                /\ UNCHANGED <<toUxc, faults>>
           ELSE /\ confirm' = IF cached THEN NoCmd ELSE confirm
                /\ app' = [cmd |-> cmd, step |-> "start"]
                /\ \/ Sent(Msg("start", cmd, 0)) /\ core' = forward
                   \/ NotSent(Msg("start", cmd, 0)) /\ core' = failed

fwup_task_port_handle_start_cmd(cmd) ==
    LET c1 == [core EXCEPT !.defer = cmd.defer \/ core.uxc_verified]
    IN  /\ UNCHANGED toUxc
        /\ \/ /\ cmd.defer /\ ~core.uxc_verified
              /\ core' = [core EXCEPT !.defer = FALSE]
              /\ app' = Idle
              /\ UNCHANGED <<chip, goal, confirm, faults>>
           \/ /\ cmd.defer => core.uxc_verified
              /\ NeedsConfirmation(cmd.v)
              /\ core' = c1 /\ confirm' = cmd
              /\ app' = [cmd |-> cmd, step |-> "confirm"]
              /\ UNCHANGED <<chip, goal, faults>>
           \/ /\ cmd.defer => core.uxc_verified
              /\ ~NeedsConfirmation(cmd.v)
              /\ CoreStart(c1, cmd, FALSE)
              /\ UNCHANGED confirm

AppStart ==
    \E cmd \in [mcu : Mcus, v : Releases, mode : Modes, defer : BOOLEAN] :
        /\ Accepts /\ AppStarts(cmd)
        /\ starts < MaxStarts /\ starts' = starts + 1
        /\ \/ cmd.mcu = "Uxc" /\ fwup_task_send_coproc_fwup_start_cmd(cmd)
           \/ cmd.mcu = "Core" /\ fwup_task_port_handle_start_cmd(cmd)
        /\ UNCHANGED <<pc, staged, uxc, echo, toCore, reported, crashes>>

\* The user has approved on the device and the app asks for the result.  The
\* confirmation is kept until the UXC's answer to the start reached the app.
fwup_handle_confirmation_result ==
    LET c1 == [core EXCEPT !.confirmed = confirm.v]
        msg == Msg("start", confirm, 0)
    IN  /\ Loop /\ confirm # NoCmd /\ app.step = "confirm" /\ app.cmd = confirm
        /\ \/ /\ core.reset_pending
              /\ confirm' = NoCmd /\ app' = Idle
              /\ UNCHANGED <<core, chip, goal, toUxc, faults>>
           \/ /\ ~core.reset_pending /\ confirm.mcu = "Core"
              /\ CoreStart(c1, confirm, TRUE)
              /\ confirm' = NoCmd /\ UNCHANGED toUxc
           \/ /\ ~core.reset_pending /\ confirm.mcu = "Uxc"
              /\ core.kind \in {"cached_ok", "cached_error"}
              /\ core' = [c1 EXCEPT !.kind = "none"]
              /\ app' = IF core.kind = "cached_ok" THEN [app EXCEPT !.step = "open"]
                                                   ELSE Idle
              /\ confirm' = NoCmd /\ UNCHANGED <<chip, goal, toUxc, faults>>
           \/ /\ ~core.reset_pending /\ confirm.mcu = "Uxc"
              /\ core.kind \in {"start", "start_confirmed", "transfer", "finish", "delta"}
              /\ core' = c1 /\ UNCHANGED <<chip, goal, app, confirm, toUxc, faults>>
           \/ /\ ~core.reset_pending /\ confirm.mcu = "Uxc" /\ core.kind = "none"
              /\ UNCHANGED <<chip, goal, app>>
              /\ \/ /\ Sent(msg) /\ UNCHANGED confirm
                    /\ core' = [c1 EXCEPT !.kind = "start_confirmed", !.coproc = TRUE]
                 \/ /\ NotSent(msg) /\ confirm' = NoCmd
                    /\ core' = [c1 EXCEPT !.confirmed = 0]
        /\ UNCHANGED <<pc, staged, uxc, echo, toCore, reported, starts, crashes>>

\* A confirmation expires, is rejected by the user or replaced by another one.
ConfirmationCleared ==
    /\ confirm # NoCmd /\ confirm' = NoCmd
    /\ UNCHANGED <<chip, core, pc, staged, uxc, echo, toUxc, toCore, reported,
                   app, goal, starts, faults, crashes>>

\* A transfer or a finish for the UXC is forwarded.
ForwardToUxc(type, kind) ==
    LET c1 == [core EXCEPT !.kind = kind]
        failed == [core EXCEPT !.confirmed = 0, !.coproc = FALSE]
    IN  /\ app.cmd.mcu = "Uxc" /\ core.kind = "none"
        /\ \/ /\ Sent(Msg(type, app.cmd, 0))
              /\ core' = IF kind = "finish" THEN [c1 EXCEPT !.reset_pending = TRUE]
                                            ELSE c1
           \/ /\ NotSent(Msg(type, app.cmd, 0)) /\ core' = failed
        /\ UNCHANGED <<chip, staged, pc, app>>

fwup_task_handle_transfer_cmd ==
    \E part \in {"body", "sig"} :
        /\ Accepts /\ app.step = (IF part = "body" THEN "open" ELSE "body")
        /\ \/ ForwardToUxc(part, "transfer")
           \/ \E o \in fwup_transfer(chip["Core"], part, app.cmd) :
                /\ app.cmd.mcu = "Core"
                /\ chip' = [chip EXCEPT !["Core"] = o.ch]
                /\ Told(IF o.ok THEN part ELSE "idle", o.cost)
                /\ UNCHANGED <<core, toUxc, staged, pc>>
        /\ UNCHANGED <<uxc, echo, toCore, reported, confirm, goal, starts, crashes>>

fwup_task_port_try_atomic_commit ==
    core.defer /\ core.uxc_verified /\ core.coproc /\ core.confirmed # 0

\* Core's own update: verify, then begin the atomic commit, or fail because
\* the session is deferred, or commit alone.
fwup_task_handle_finish_cmd ==
    /\ Accepts /\ app.step = "sig"
    /\ \/ ForwardToUxc("finish", "finish")
       \/ \E o \in (IF app.cmd.mode = "delta" /\ ~fwup_pre_apply_check(chip["Core"])
                    THEN {Outcome(FALSE, chip["Core"], 0)}
                    ELSE fwup_finish(chip["Core"], app.cmd.mode)) :
            /\ app.cmd.mcu = "Core" /\ app' = Idle
            /\ UNCHANGED <<core, toUxc>>
            /\ \/ /\ o.ok /\ fwup_task_port_try_atomic_commit
                  /\ chip' = [chip EXCEPT !["Core"] = o.ch]
                  /\ \/ /\ staged' = [sig |-> o.ch.pend, uxc |-> core.confirmed,
                                      slot |-> fwup_target_slot(o.ch)]
                        /\ pc' = "send_commit" /\ Spend(o.cost)
                     \/ UNCHANGED staged /\ pc' = "reset" /\ Spend(o.cost + 1)
               \/ /\ ~o.ok \/ (core.defer /\ ~fwup_task_port_try_atomic_commit)
                  /\ chip' = [chip EXCEPT !["Core"] = o.ch]
                  /\ pc' = "reset" /\ UNCHANGED staged /\ Spend(o.cost)
               \/ /\ o.ok /\ ~core.defer
                  /\ \E w \in fwup_commit_signature(o.ch) :
                       /\ chip' = [chip EXCEPT !["Core"] = w.ch]
                       /\ Spend(o.cost + w.cost)
                  /\ pc' = "reset" /\ UNCHANGED staged
    /\ UNCHANGED <<uxc, echo, toCore, reported, confirm, goal, starts, crashes>>

\* The rest of fwup_atomic_commit, after the file was written.
fwup_atomic_commit ==
    LET seq == core.seq_counter + 1
        msg == Msg("commit", NoCmd, seq)
    IN  /\ pc = "send_commit"
        /\ \/ /\ Sent(msg) /\ pc' = "loop" /\ UNCHANGED staged
              /\ core' = [core EXCEPT !.seq_counter = seq, !.commit_seq = seq,
                                      !.awaiting_commit = TRUE, !.reset_pending = TRUE]
           \/ /\ NotSent(msg) /\ pc' = "reset" /\ UNCHANGED staged
              /\ core' = [core EXCEPT !.seq_counter = seq]
        /\ UNCHANGED <<chip, uxc, echo, toCore, reported, confirm, app, goal,
                       starts, crashes>>

-----------------------------------------------------------------------------
(* Messages of the UXC, handled by Core's fwup task *)

Rsp == toCore[1]
Handles(type) == Loop /\ toCore # <<>> /\ Rsp.type \in type /\ toCore' = Tail(toCore)

\* An answer without a sequence number is taken for the outstanding one.
fwup_uxc_take_rsp_seq == core.kind # "none" /\ (echo => Rsp.cur)

Dropped == UNCHANGED <<core, pc, chip, staged, reported, confirm, app, faults>>

fwup_task_handle_coproc_fwup_start ==
    LET ok == Rsp.result = "ok"
        after(c) == IF ok THEN c ELSE [c EXCEPT !.confirmed = 0, !.coproc = FALSE]
        told == IF ok THEN [app EXCEPT !.step = "open"] ELSE Idle
        waits == app.cmd.mcu = "Uxc" /\ app.step \in {"start", "confirm"}
    IN  /\ Handles({"start"})
        /\ \/ ~fwup_uxc_take_rsp_seq /\ Dropped
           \/ /\ fwup_uxc_take_rsp_seq /\ waits
              /\ core' = after([core EXCEPT !.kind = "none"]) /\ app' = told
              /\ confirm' = IF core.kind = "start_confirmed" THEN NoCmd ELSE confirm
              /\ Spend(0) /\ UNCHANGED <<pc, chip, staged, reported>>
           \/ /\ fwup_uxc_take_rsp_seq
              /\ core' = after([core EXCEPT !.kind =
                      IF @ # "start_confirmed" THEN "none"
                      ELSE IF ok THEN "cached_ok" ELSE "cached_error"])
              /\ Spend(IF waits THEN 1 ELSE 0)
              /\ UNCHANGED <<pc, chip, staged, reported, confirm, app>>
        /\ UNCHANGED <<uxc, echo, toUxc, goal, starts, crashes>>

fwup_task_handle_coproc_fwup_transfer ==
    LET ok == Rsp.result = "ok" IN
    /\ Handles({"body", "sig"})
    /\ \/ ~fwup_uxc_take_rsp_seq /\ Dropped
       \/ /\ fwup_uxc_take_rsp_seq
          /\ core' = IF ok THEN [core EXCEPT !.kind = "none"]
                     ELSE [core EXCEPT !.kind = "none", !.confirmed = 0, !.coproc = FALSE]
          /\ IF app.cmd.mcu = "Uxc" /\ app.step \in {"open", "body"}
             THEN Told(IF ok THEN Rsp.type ELSE "idle", 0) ELSE UNCHANGED <<app, faults>>
          /\ UNCHANGED <<pc, chip, staged, reported, confirm>>
    /\ UNCHANGED <<uxc, echo, toUxc, goal, starts, crashes>>

\* Mutant: in a deferred session every answer of the UXC counts as verified.
FinishUiAlwaysVerified(c1, success) ==
    /\ core' = [c1 EXCEPT !.uxc_verified = c1.defer, !.reset_pending = FALSE]
    /\ reported' = IF success /\ c1.confirmed # 0
                   THEN [reported EXCEPT !.info = c1.confirmed] ELSE reported
    /\ pc' = "loop"

\* c1 is Core's state when the result of an update of the UXC is known.
fwup_coproc_finish_ui(c1, success) ==
    CASE success /\ c1.defer ->
           /\ core' = [c1 EXCEPT !.uxc_verified = TRUE, !.reset_pending = FALSE]
           /\ reported' = IF c1.confirmed = 0 THEN reported
                          ELSE [reported EXCEPT !.info = c1.confirmed]
           /\ pc' = "loop"
      [] success /\ ~c1.defer ->
           core' = c1 /\ UNCHANGED reported /\ pc' = "loop"
      [] ~success /\ c1.defer ->
           core' = c1 /\ UNCHANGED reported /\ pc' = "reset"
      [] OTHER ->
           /\ core' = [c1 EXCEPT !.confirmed = 0, !.coproc = FALSE,
                                 !.reset_pending = FALSE]
           /\ UNCHANGED reported /\ pc' = "loop"

\* A delta update is answered twice: before and after the patch is applied.
fwup_task_handle_coproc_fwup_finish ==
    /\ Handles({"finish"})
    /\ \/ ~fwup_uxc_take_rsp_seq /\ Dropped
       \/ /\ fwup_uxc_take_rsp_seq /\ UNCHANGED <<chip, staged, confirm>>
          /\ IF ~core.awaiting_delta /\ app.cmd.mcu = "Uxc" /\ app.step = "sig"
             THEN Told(IF Rsp.result = "error" THEN "idle" ELSE "next", 0)
             ELSE UNCHANGED <<app, faults>>
          /\ IF ~core.awaiting_delta /\ Rsp.result = "patch"
             THEN /\ core' = [core EXCEPT !.kind = "delta", !.awaiting_delta = TRUE]
                  /\ UNCHANGED <<pc, reported>>
             ELSE fwup_coproc_finish_ui(
                      [core EXCEPT !.kind = "none", !.awaiting_delta = FALSE],
                      Rsp.result = "ok")
    /\ UNCHANGED <<uxc, echo, toUxc, goal, starts, crashes>>

fwup_task_handle_commit_sig_rsp ==
    LET c1 == [core EXCEPT !.awaiting_commit = FALSE, !.commit_seq = 0]
        current == core.awaiting_commit /\ echo /\ Rsp.seq = core.commit_seq
    IN  /\ Handles({"commit"})
        /\ \/ /\ ~core.awaiting_commit \/ (echo /\ Rsp.seq # core.commit_seq)
              /\ Dropped
           \/ /\ core.awaiting_commit /\ ~echo
              /\ fwup_coproc_finish_ui(c1, FALSE)
              /\ UNCHANGED <<chip, staged, confirm, app, faults>>
           \/ /\ current /\ Rsp.result # "ok"
              /\ staged' = NoFile /\ fwup_coproc_finish_ui(c1, FALSE)
              /\ UNCHANGED <<chip, confirm, app, faults>>
           \/ /\ current /\ Rsp.result = "ok"
              /\ \E o \in fwup_commit_signature(chip["Core"]) :
                   /\ chip' = [chip EXCEPT !["Core"] = o.ch] /\ Spend(o.cost)
                   /\ IF o.ok
                      THEN /\ core' = c1 /\ pc' = "remove_staged_both"
                           /\ UNCHANGED <<staged, reported>>
                      ELSE staged' = NoFile /\ fwup_coproc_finish_ui(c1, FALSE)
              /\ UNCHANGED <<confirm, app>>
        /\ UNCHANGED <<uxc, echo, toUxc, goal, starts, crashes>>

\* The file goes, then the reset: of both MCUs after an atomic commit.
fwup_staged_sig_remove ==
    /\ pc \in {"remove_staged", "remove_staged_both"}
    /\ staged' = NoFile
    /\ pc' = IF pc = "remove_staged" THEN "reset" ELSE "reset_both"
    /\ UNCHANGED <<chip, core, uxc, echo, toUxc, toCore, reported, confirm, app,
                   goal, starts, faults, crashes>>

\* Mutant: the deferral is forgotten although Core's own update is under way.
ClearedAndUndeferred(c) ==
    [c EXCEPT !.awaiting_commit = FALSE, !.commit_seq = 0, !.kind = "none",
              !.awaiting_delta = FALSE, !.uxc_verified = FALSE, !.coproc = FALSE,
              !.defer = FALSE, !.reset_pending = FALSE]

\* What is left of a session once the UXC has restarted.
ClearedByVersion(c) ==
    [c EXCEPT !.awaiting_commit = FALSE, !.commit_seq = 0, !.kind = "none",
              !.awaiting_delta = FALSE, !.uxc_verified = FALSE, !.coproc = FALSE,
              !.defer = @ /\ c.pending, !.reset_pending = FALSE]

\* The UXC has booted.  The answer of a delta update that never came is
\* decided by its version, and so is an interrupted atomic commit.
fwup_task_handle_coproc_version ==
    LET v == reported.boot
        success == core.confirmed \in {0, v}
        c1 == [core EXCEPT !.awaiting_delta = FALSE, !.kind = "none"]
        failed == core.awaiting_delta /\ ~success
        \* Core's state after the delta fallback, when it did not reset Core
        c2 == IF ~core.awaiting_delta THEN core
              ELSE IF failed THEN [c1 EXCEPT !.confirmed = 0] ELSE c1
        match == staged # NoFile /\ staged.uxc = v
    IN  /\ Loop /\ toCore # <<>> /\ Rsp.type = "version" /\ toCore' = Retired(Tail(toCore))
        /\ uxc' = [uxc EXCEPT !.cur = FALSE] /\ toUxc' = Retired(toUxc)
        /\ \/ /\ failed /\ core.defer
              /\ core' = c1 /\ pc' = "reset"
              /\ UNCHANGED <<chip, staged, reported, faults>>
           \/ /\ ~(failed /\ core.defer) /\ match
              /\ \E o \in fwup_staged_sig_commit_to_flash(chip["Core"], staged) :
                   /\ chip' = [chip EXCEPT !["Core"] = o.ch] /\ Spend(o.cost)
                   /\ IF o.ok THEN core' = c2 /\ pc' = "remove_staged" /\ UNCHANGED staged
                      ELSE /\ core' = ClearedByVersion(c2) /\ staged' = NoFile
                           /\ UNCHANGED pc
              /\ UNCHANGED reported
           \/ /\ ~(failed /\ core.defer) /\ ~match
              /\ core' = ClearedByVersion(c2) /\ staged' = NoFile
              /\ UNCHANGED <<pc, chip, reported, faults>>
        /\ UNCHANGED <<echo, confirm, app, goal, starts, crashes>>

-----------------------------------------------------------------------------
(* The UXC's fwup task *)

Result(ok) == IF ok THEN "ok" ELSE "error"

\* The outcome o of a handler that answers msg; the answer may be lost.
Answer(msg, o, result) ==
    LET rsp == [msg EXCEPT !.result = result, !.cmd = NoCmd] IN
    /\ chip' = [chip EXCEPT !["Uxc"] = o.ch]
    /\ \/ toCore' = Append(toCore, rsp) /\ Spend(o.cost)
       \/ UNCHANGED toCore /\ Spend(o.cost + 1)

UxcIdle == UNCHANGED <<core, pc, staged, echo, reported, confirm, app, goal,
                       starts, crashes>>
Receives(type) ==
    uxc.pc = "loop" /\ toUxc # <<>> /\ toUxc[1].type \in type /\ toUxc' = Tail(toUxc)

uxc_handle_fwup_start ==
    /\ Receives({"start"})
    /\ \E o \in fwup_start(chip["Uxc"], toUxc[1].cmd) : Answer(toUxc[1], o, Result(o.ok))
    /\ uxc' = [uxc EXCEPT !.defer = toUxc[1].cmd.defer]
    /\ UxcIdle

uxc_handle_fwup_transfer ==
    /\ Receives({"body", "sig"})
    /\ \E o \in fwup_transfer(chip["Uxc"], toUxc[1].type, toUxc[1].cmd) :
          Answer(toUxc[1], o, Result(o.ok))
    /\ UNCHANGED uxc
    /\ UxcIdle

\* Without deferral the signature is written before the answer, and the UXC
\* resets.  A patch is announced, and applied after that.
uxc_handle_fwup_finish ==
    LET ch == chip["Uxc"]
        msg == toUxc[1]
    IN  /\ Receives({"finish"})
        /\ \/ /\ msg.cmd.mode = "normal"
              /\ \E o \in fwup_finish(ch, "normal") :
                   \E w \in (IF o.ok /\ ~uxc.defer THEN fwup_commit_signature(o.ch)
                                                   ELSE {o}) :
                      Answer(msg, w, Result(o.ok))
              /\ uxc' = IF uxc.defer THEN uxc ELSE [uxc EXCEPT !.pc = "reset"]
           \/ /\ msg.cmd.mode = "delta" /\ ~fwup_pre_apply_check(ch)
              /\ Answer(msg, Outcome(FALSE, ch, 0), "error")
              /\ uxc' = [uxc EXCEPT !.pc = "reset"]
           \/ /\ msg.cmd.mode = "delta" /\ fwup_pre_apply_check(ch)
              /\ Answer(msg, Outcome(TRUE, ch, 0), "patch")
              /\ uxc' = [uxc EXCEPT !.pc = "apply", !.cur = msg.cur]
        /\ UxcIdle

\* The result of the patch is answered before the signature is written.
uxc_apply_patch ==
    LET msg == [Msg("finish", NoCmd, 0) EXCEPT !.cur = uxc.cur] IN
    /\ uxc.pc = "apply"
    /\ \E o \in fwup_finish(chip["Uxc"], "delta") :
         /\ Answer(msg, o, Result(o.ok))
         /\ uxc' = [uxc EXCEPT !.cur = FALSE, !.pc =
                      IF uxc.defer THEN "loop" ELSE IF o.ok THEN "commit" ELSE "reset"]
    /\ UNCHANGED toUxc
    /\ UxcIdle

uxc_commit_patched ==
    /\ uxc.pc = "commit" /\ uxc' = [uxc EXCEPT !.pc = "reset"]
    /\ \E o \in fwup_commit_signature(chip["Uxc"]) :
          chip' = [chip EXCEPT !["Uxc"] = o.ch] /\ Spend(o.cost)
    /\ UNCHANGED <<toUxc, toCore>>
    /\ UxcIdle

uxc_handle_commit_sig ==
    /\ Receives({"commit"})
    /\ \E o \in fwup_commit_signature(chip["Uxc"]) : Answer(toUxc[1], o, Result(o.ok))
    /\ UNCHANGED uxc
    /\ UxcIdle

-----------------------------------------------------------------------------
(* Resets *)

\* Mutant: the UXC boots without telling Core its version.
BootsSilently(queue, known) ==
    uxc' = UxcBoot /\ toUxc' = <<>> /\ toCore' = queue /\ reported' = known /\ Spend(0)

\* The boot message sets the version Core tells the app, and the buffer that
\* a version message already queued will be read from.  It may be lost.
UxcBoots(queue, known) ==
    LET v == Running(Boot(chip["Uxc"]))
        msg == [Msg("version", NoCmd, 0) EXCEPT !.cur = FALSE]
    IN  /\ uxc' = UxcBoot /\ toUxc' = <<>>
        /\ \/ /\ toCore' = Append(queue, msg) /\ Spend(0)
              /\ reported' = [info |-> v, boot |-> v]
           \/ toCore' = queue /\ Spend(1) /\ reported' = known

\* A reset of Core loses its queue and what it knew of the UXC.
CoreBoots ==
    core' = CoreBoot /\ pc' = "loop" /\ confirm' = NoCmd

Unknown == [info |-> 0, boot |-> 0]

\* Only the UXC: asked for by its fwup task, or a crash.
UxcReset ==
    /\ \/ uxc.pc = "reset" /\ UNCHANGED crashes
       \/ crashes < MaxCrashes /\ crashes' = crashes + 1
    /\ UxcBoots(toCore, reported)
    /\ chip' = [chip EXCEPT !["Uxc"] = Boot(@)]
    /\ UNCHANGED <<core, pc, staged, echo, confirm, app, goal, starts>>

\* Core: asked for by its fwup task, or a crash.  The UXC may run on, unless
\* Core holds it in reset until it has booted.
CoreReset ==
    /\ \/ pc \in {"reset", "reset_both"} /\ UNCHANGED crashes
       \/ crashes < MaxCrashes /\ crashes' = crashes + 1
    /\ CoreBoots
    /\ \/ /\ pc # "reset_both"
          /\ chip' = [chip EXCEPT !["Core"] = Boot(@)]
          /\ uxc' = [uxc EXCEPT !.cur = FALSE] /\ toUxc' = Retired(toUxc)
          /\ toCore' = <<>> /\ reported' = Unknown /\ Spend(0)
       \/ /\ UxcBoots(<<>>, Unknown)
          /\ chip' = [m \in Mcus |-> Boot(chip[m])]
    /\ UNCHANGED <<staged, echo, app, goal, starts>>

\* The device goes to sleep when nothing happens, and is woken: both boot.
PowerCycle ==
    /\ Loop /\ toCore = <<>> /\ toUxc = <<>> /\ uxc.pc = "loop"
    /\ CoreBoots /\ UxcBoots(<<>>, Unknown)
    /\ chip' = [m \in Mcus |-> Boot(chip[m])]
    /\ UNCHANGED <<staged, echo, app, goal, starts, crashes>>

-----------------------------------------------------------------------------
CoreStep ==
    \/ fwup_atomic_commit
    \/ fwup_task_handle_coproc_fwup_start
    \/ fwup_task_handle_coproc_fwup_transfer
    \/ fwup_task_handle_coproc_fwup_finish
    \/ fwup_task_handle_commit_sig_rsp
    \/ fwup_staged_sig_remove
    \/ fwup_task_handle_coproc_version

UxcStep ==
    \/ uxc_handle_fwup_start
    \/ uxc_handle_fwup_transfer
    \/ uxc_handle_fwup_finish
    \/ uxc_apply_patch
    \/ uxc_commit_patched
    \/ uxc_handle_commit_sig

AppStep ==
    \/ AppStart
    \/ fwup_handle_confirmation_result
    \/ fwup_task_handle_transfer_cmd
    \/ fwup_task_handle_finish_cmd

Next == CoreStep \/ UxcStep \/ AppStep \/ ConfirmationCleared
        \/ UxcReset \/ CoreReset \/ PowerCycle

Spec == Init /\ [][Next]_vars

\* The tasks run, a reset that was asked for happens, and a user who keeps
\* trying does at some time let the device go to sleep.  The app owes nothing.
FairSpec ==
    /\ Spec
    /\ WF_vars(CoreStep) /\ WF_vars(UxcStep) /\ SF_vars(PowerCycle)
    /\ WF_vars(pc \in {"reset", "reset_both"} /\ CoreReset)
    /\ WF_vars(uxc.pc = "reset" /\ UxcReset)

-----------------------------------------------------------------------------
(* Properties *)

\* Whatever is cut short, by a reset, a lost message or a failing flash, the
\* slot an MCU runs from keeps an image and a signature that agree: nothing
\* that fwup.c or the recovery of a staged signature writes or erases is in
\* the running slot, so the boot loader always finds a slot to run.
AlwaysBootable == \A m \in Mcus : Valid(chip[m], chip[m].run)

\* The version an MCU would boot.
BootVersion(ch) == ch.img[bl_select_slot(ch)]

\* An update of Core that was begun, with a deferred commit, while the UXC held the
\* verified image of the same release is made bootable only when that release is
\* bootable on the UXC: not when the UXC lost its image in a restart, not on an
\* answer to another request, not by the recovery from the file.
CoreCommitsAfterUxc ==
    [][\A s \in Slots :
         /\ goal # 0 /\ chip'["Core"].img[s] = goal
         /\ chip'["Core"].sig[s] # chip["Core"].sig[s] /\ Valid(chip'["Core"], s)
         => BootVersion(chip["Uxc"]) >= goal]_vars

\* A UXC that echoes the sequence number makes an image bootable only after it
\* has verified that image with the very signature it writes.
UxcCommitsVerified ==
    [][\A s \in Slots :
         echo /\ chip'["Uxc"].sig[s] \notin {0, chip["Uxc"].sig[s]} => chip'["Uxc"].verified]_vars

\* A staged signature does not stay: the commit it stands for is completed or
\* given up.
StagedResolved == staged # NoFile ~> staged = NoFile
=============================================================================
