------------------------------ MODULE FwupProofs ------------------------------
(***************************************************************************)
(* Theorems about the firmware update of both MCUs, for any number of      *)
(* versions, updates, faults and crashes.                                  *)
(***************************************************************************)
EXTENDS Fwup, TLAPS, SequenceTheorems

USE ConstantsAssumption
USE DEF Mcus

\* The sets of the type invariant, by variable.
Chips == [img : [Slots -> Images], sig : [Slots -> Images], run : Slots,
          pend : 0 .. MaxVersion, conf : 0 .. MaxVersion, patch : 0 .. MaxVersion,
          open : BOOLEAN, verified : BOOLEAN]
Cores == [pending : BOOLEAN, coproc : BOOLEAN, reset_pending : BOOLEAN,
          confirmed : 0 .. MaxVersion, awaiting_delta : BOOLEAN,
          awaiting_commit : BOOLEAN, commit_seq : Nat, seq_counter : Nat,
          defer : BOOLEAN, uxc_verified : BOOLEAN, kind : Kinds]
Files == [sig : 0 .. MaxVersion, slot : Slots, uxc : 0 .. MaxVersion]
Uxcs == [pc : {"loop", "apply", "commit", "reset"}, defer : BOOLEAN, cur : BOOLEAN]
Cmds == [mcu : Mcus, v : 0 .. MaxVersion, mode : {"normal", "delta"}, defer : BOOLEAN]
Steps == {"idle", "confirm", "start", "open", "body", "sig", "next"}
Apps == [cmd : Cmds, step : Steps]
Reports == [info : 0 .. MaxVersion, boot : 0 .. MaxVersion]

\* A chip whose running slot is valid.  That it stays so is what makes the type
\* invariant inductive: the slots that are written are chosen by the slot that
\* runs.
Sound(ch) == ch \in Chips /\ Valid(ch, ch.run)

ChipInv == DOMAIN chip = Mcus /\ chip = [m \in Mcus |-> chip[m]] /\ \A m \in Mcus : Sound(chip[m])
CoreType == core \in Cores
PcType == pc \in PCs
StagedType == staged \in Files
UxcType == uxc \in Uxcs
ToUxcType == toUxc \in Seq(Msgs)
ToCoreType == toCore \in Seq(Msgs)
ReportedType == reported \in Reports
ConfirmType == confirm \in Cmds
AppType == app \in Apps
GoalType == goal \in Images
FaultsType == faults \in 0 .. MaxFaults
CountsType == starts \in 0 .. MaxStarts /\ crashes \in 0 .. MaxCrashes /\ echo \in BOOLEAN

TypeInv ==
    /\ ChipInv /\ CoreType /\ PcType /\ StagedType /\ UxcType /\ ToUxcType /\ ToCoreType
    /\ ReportedType /\ ConfirmType /\ AppType /\ GoalType /\ FaultsType /\ CountsType

-----------------------------------------------------------------------------
LEMMA Constants ==
    /\ MaxVersion \in Nat /\ 0 .. MaxVersion \subseteq Images /\ Junk \in Images /\ 0 \in Images
    /\ Releases \subseteq 0 .. MaxVersion /\ 0 \in 0 .. MaxVersion /\ 1 \in 0 .. MaxVersion
BY DEF Images, Junk, Releases

LEMMA ProgramType ==
    ASSUME NEW old \in Images, NEW new \in Images PROVE Program(old, new) \in Images
BY Constants DEF Program

LEMMA TargetSlot ==
    ASSUME NEW ch \in Chips PROVE fwup_target_slot(ch) \in Slots /\ fwup_target_slot(ch) # ch.run
BY DEF fwup_target_slot, Chips, Slots

\* What a chip with another slot written is.
LEMMA WriteImage ==
    ASSUME NEW ch, Sound(ch), NEW x \in Images
    PROVE  Sound([ch EXCEPT !.img[fwup_target_slot(ch)] = x])
<1> DEFINE t == fwup_target_slot(ch)
<1> DEFINE c == [ch EXCEPT !.img[t] = x]
<1>1. t \in Slots /\ t # ch.run /\ ch \in Chips
  BY TargetSlot DEF Sound
<1> HIDE DEF t
<1>2. c \in Chips
  BY <1>1 DEF Chips
<1>3. c.run = ch.run /\ c.sig = ch.sig /\ c.img[ch.run] = ch.img[ch.run]
  BY <1>1 DEF Chips
<1>4. Valid(c, c.run)
  BY <1>3 DEF Sound, Valid
<1> QED BY <1>2, <1>4 DEF Sound, t

\* The same of the signature of a slot that does not run.
LEMMA WriteSignature ==
    ASSUME NEW ch, Sound(ch), NEW t \in Slots, t # ch.run, NEW x \in Images
    PROVE  Sound([ch EXCEPT !.sig[t] = x])
<1> DEFINE c == [ch EXCEPT !.sig[t] = x]
<1>1. ch \in Chips
  BY DEF Sound
<1>2. c \in Chips
  BY <1>1 DEF Chips
<1>3. c.run = ch.run /\ c.img = ch.img /\ c.sig[ch.run] = ch.sig[ch.run]
  BY <1>1 DEF Chips
<1>4. Valid(c, c.run)
  BY <1>3 DEF Sound, Valid
<1> QED BY <1>2, <1>4 DEF Sound

\* The fields of a chip that are in RAM.
SameSlots(a, b) == a.run = b.run /\ a.img = b.img /\ a.sig = b.sig

\* An operation that writes no slot.
LEMMA RamOnly ==
    ASSUME NEW ch, Sound(ch), NEW c \in Chips, SameSlots(ch, c) PROVE Sound(c)
BY DEF Sound, Valid, SameSlots

SoundOutcome(o) == Sound(o.ch) /\ o.ok \in BOOLEAN /\ o.cost \in {0, 1}

LEMMA OutcomeSound ==
    ASSUME NEW ch, Sound(ch), NEW ok \in BOOLEAN, NEW cost \in {0, 1}
    PROVE  SoundOutcome(Outcome(ok, ch, cost))
BY DEF SoundOutcome, Outcome

LEMMA ErasedSound ==
    ASSUME NEW ch, Sound(ch) PROVE Sound(Erased(ch)) /\ Sound(HalfErased(ch))
<1> DEFINE t == fwup_target_slot(ch)
<1> DEFINE c == [ch EXCEPT !.img[t] = 0]
<1>1. Sound(c) /\ Sound(HalfErased(ch))
  BY WriteImage, Constants DEF HalfErased
<1>2. c.run = ch.run /\ t \in Slots /\ t # ch.run
  BY TargetSlot DEF Sound, Chips
<1>3. Sound([c EXCEPT !.sig[t] = 0])
  BY <1>1, <1>2, WriteSignature, Constants
<1>4. Erased(ch) = [c EXCEPT !.sig[t] = 0]
  BY <1>2 DEF Erased, Sound, Chips
<1> QED BY <1>1, <1>3, <1>4

-----------------------------------------------------------------------------
(* The operations of lib/fwup: whatever they return, also when flash fails under
   them, the slot that runs is untouched *)
LEMMA StartSound ==
    ASSUME NEW ch, Sound(ch), NEW cmd \in Cmds, NEW o \in fwup_start(ch, cmd)
    PROVE  SoundOutcome(o)
<1> DEFINE opened == [ch EXCEPT !.conf = cmd.v, !.pend = 0, !.verified = FALSE,
                                !.patch = 0, !.open = (cmd.mode = "delta")]
<1> DEFINE closed == [opened EXCEPT !.open = FALSE]
<1>1. opened \in Chips /\ SameSlots(ch, opened) /\ closed \in Chips /\ SameSlots(ch, closed)
  <2>1. (cmd.mode = "delta") \in BOOLEAN /\ cmd.v \in 0 .. MaxVersion /\ 0 \in 0 .. MaxVersion
    BY Constants DEF Cmds
  <2> QED BY <2>1 DEF Sound, Chips, SameSlots
<1>2. Sound(opened) /\ Sound(closed)
  BY <1>1, RamOnly
<1>3. Sound(Erased(opened)) /\ Sound(HalfErased(opened))
  BY <1>2, ErasedSound
<1> HIDE DEF opened, closed
<1>4. o \in {Outcome(TRUE, opened, 0), Outcome(FALSE, closed, 1),
             Outcome(TRUE, Erased(opened), 0), Outcome(FALSE, HalfErased(opened), 1)}
  BY DEF fwup_start, opened, closed
<1> QED BY <1>2, <1>3, <1>4, OutcomeSound

LEMMA TransferSound ==
    ASSUME NEW ch, Sound(ch), NEW cmd \in Cmds, NEW part \in {"body", "sig"},
           NEW o \in fwup_transfer(ch, part, cmd)
    PROVE  SoundOutcome(o)
<1> DEFINE t == fwup_target_slot(ch)
<1> DEFINE c1 == [ch EXCEPT !.pend = cmd.v, !.verified = FALSE]
<1> DEFINE c2 == [ch EXCEPT !.patch = cmd.v]
<1>1. cmd.v \in 0 .. MaxVersion /\ cmd.v \in Images /\ ch \in Chips
  BY Constants DEF Cmds, Sound
<1>2. Sound(c1) /\ Sound(c2)
  <2>1. c1 \in Chips /\ SameSlots(ch, c1) /\ c2 \in Chips /\ SameSlots(ch, c2)
    BY <1>1 DEF Chips, SameSlots
  <2> QED BY <2>1, RamOnly
<1>3. Program(ch.img[t], cmd.v) \in Images
  BY <1>1, ProgramType, TargetSlot DEF Chips
<1>4. Sound([ch EXCEPT !.img[t] = Program(@, cmd.v)]) /\ Sound([ch EXCEPT !.img[t] = Junk])
  BY <1>3, WriteImage, Constants
<1> HIDE DEF c1, c2
<1>5. o \in {Outcome(TRUE, c1, 0), Outcome(TRUE, c2, 0), Outcome(FALSE, ch, 0),
             Outcome(TRUE, [ch EXCEPT !.img[t] = Program(@, cmd.v)], 0),
             Outcome(FALSE, [ch EXCEPT !.img[t] = Junk], 1)}
  BY DEF fwup_transfer, c1, c2
<1> QED BY <1>2, <1>4, <1>5, OutcomeSound

LEMMA VerifiedSound ==
    ASSUME NEW ch, Sound(ch), NEW b \in BOOLEAN PROVE Sound([ch EXCEPT !.verified = b])
BY RamOnly DEF Sound, Chips, SameSlots

LEMMA UnpatchedSound ==
    ASSUME NEW ch, Sound(ch) PROVE Sound([ch EXCEPT !.patch = 0])
BY RamOnly, Constants DEF Sound, Chips, SameSlots

LEMMA FinishSound ==
    ASSUME NEW ch, Sound(ch), NEW mode \in {"normal", "delta"}, NEW o \in fwup_finish(ch, mode)
    PROVE  SoundOutcome(o)
<1> DEFINE t == fwup_target_slot(ch)
<1> DEFINE c1 == [Erased(ch) EXCEPT !.img[t] = ch.patch]
<1> DEFINE applied == [Erased(ch) EXCEPT !.img[t] = ch.patch, !.patch = 0]
<1> DEFINE checked(c) == Outcome(Verifies(c), [c EXCEPT !.verified = Verifies(c)], 0)
<1>1. Sound(Erased(ch)) /\ Sound(HalfErased(ch)) /\ Erased(ch) \in Chips
  BY ErasedSound DEF Sound
<1>2. Sound(applied)
  <2>1. fwup_target_slot(Erased(ch)) = t
    BY TargetSlot DEF fwup_target_slot, Erased, Sound, Chips
  <2>2. Sound(c1)
    BY <1>1, <2>1, WriteImage, Constants DEF Sound, Chips
  <2>3. applied = [c1 EXCEPT !.patch = 0]
    BY <1>1 DEF Chips
  <2> QED BY <2>2, <2>3, UnpatchedSound
<1>3. ASSUME NEW c, Sound(c) PROVE SoundOutcome(checked(c))
  <2>1. Verifies(c) \in BOOLEAN
    BY DEF Verifies
  <2> QED BY <1>3, <2>1, VerifiedSound, OutcomeSound
<1>4. Sound([HalfErased(ch) EXCEPT !.patch = 0])
  BY <1>1, UnpatchedSound
<1>5. o \in {checked(ch), checked(applied), Outcome(FALSE, [HalfErased(ch) EXCEPT !.patch = 0], 1),
             Outcome(FALSE, ch, 0)}
  BY DEF fwup_finish
<1> HIDE DEF checked, applied
<1> QED BY <1>2, <1>3, <1>4, <1>5, OutcomeSound

LEMMA CommitToSound ==
    ASSUME NEW ch, Sound(ch), NEW s \in Slots, s # ch.run, NEW sig \in 0 .. MaxVersion,
           NEW o \in fwup_commit_signature_to(ch, s, sig)
    PROVE  SoundOutcome(o)
<1>1. Program(ch.sig[s], sig) \in Images
  BY ProgramType, Constants DEF Sound, Chips
<1>2. Sound([ch EXCEPT !.sig[s] = Program(@, sig)]) /\ Sound([ch EXCEPT !.sig[s] = 0])
  BY <1>1, WriteSignature, Constants
<1> QED BY <1>2, OutcomeSound DEF fwup_commit_signature_to

LEMMA CommitSound ==
    ASSUME NEW ch, Sound(ch), NEW o \in fwup_commit_signature(ch)
    PROVE  SoundOutcome(o)
<1>1. CASE ch.pend = 0
  BY <1>1, OutcomeSound DEF fwup_commit_signature
<1>2. CASE ch.pend # 0
  <2>1. ch.pend \in 0 .. MaxVersion /\ fwup_target_slot(ch) \in Slots /\ fwup_target_slot(ch) # ch.run
    BY TargetSlot DEF Sound, Chips
  <2>2. o \in fwup_commit_signature_to(ch, fwup_target_slot(ch), ch.pend)
    BY <1>2 DEF fwup_commit_signature
  <2> QED BY <2>1, <2>2, CommitToSound
<1> QED BY <1>1, <1>2

LEMMA CommitStagedSound ==
    ASSUME NEW ch, Sound(ch), NEW file \in Files, NEW o \in fwup_staged_sig_commit_to_flash(ch, file)
    PROVE  SoundOutcome(o)
<1>1. CASE file.slot # fwup_target_slot(ch)
  BY <1>1, OutcomeSound DEF fwup_staged_sig_commit_to_flash
<1>2. CASE file.slot = fwup_target_slot(ch)
  <2>1. file.slot \in Slots /\ file.slot # ch.run /\ file.sig \in 0 .. MaxVersion
    BY <1>2, TargetSlot DEF Sound, Files
  <2>2. o \in fwup_commit_signature_to(ch, file.slot, file.sig)
    BY <1>2 DEF fwup_staged_sig_commit_to_flash
  <2> QED BY <2>1, <2>2, CommitToSound
<1> QED BY <1>1, <1>2

\* The boot loader finds a valid slot, since the running one is valid.
LEMMA BootSound ==
    ASSUME NEW ch, Sound(ch)
    PROVE  Sound(Boot(ch)) /\ Running(Boot(ch)) \in 1 .. MaxVersion
<1>1. bl_select_slot(ch) \in Slots /\ Valid(ch, bl_select_slot(ch))
  BY DEF bl_select_slot, Sound, Chips, Slots
<1>2. Boot(ch) \in Chips
  BY <1>1, Constants DEF Boot, Sound, Chips
<1>3. Boot(ch).run = bl_select_slot(ch) /\ Boot(ch).img = ch.img /\ Boot(ch).sig = ch.sig
  BY DEF Boot, Sound, Chips
<1> QED BY <1>1, <1>2, <1>3 DEF Sound, Valid, Running

-----------------------------------------------------------------------------
(* Messages, answers and the other variables *)
LEMMA SetChip ==
    ASSUME ChipInv, NEW m \in Mcus, NEW c, Sound(c), chip' = [chip EXCEPT ![m] = c]
    PROVE  ChipInv'
BY DEF ChipInv

LEMMA BothBoot ==
    ASSUME ChipInv, chip' = [m \in Mcus |-> Boot(chip[m])] PROVE ChipInv'
BY BootSound DEF ChipInv

-----------------------------------------------------------------------------
LEMMA SpendType ==
    ASSUME FaultsType, NEW cost \in Nat, Spend(cost) PROVE FaultsType'
BY DEF FaultsType, Spend

LEMMA NoCmdType == NoCmd \in Cmds
BY Constants DEF NoCmd, Cmds

LEMMA IdleType == Idle \in Apps
BY NoCmdType DEF Idle, Apps, Steps

LEMMA NoFileType == NoFile \in Files
BY Constants DEF NoFile, Files, Slots

LEMMA CoreBootType == CoreBoot \in Cores
BY Constants DEF CoreBoot, Cores, Kinds

LEMMA UxcBootType == UxcBoot \in Uxcs
BY DEF UxcBoot, Uxcs

MsgTypes == {"start", "body", "sig", "finish", "commit", "version"}

LEMMA MsgsShape ==
    Msgs = [type : MsgTypes, cmd : Cmds, result : {"none", "ok", "error", "patch"},
            seq : Nat, cur : BOOLEAN]
BY DEF Msgs, MsgTypes, Cmds

LEMMA MsgType ==
    ASSUME NEW type \in MsgTypes, NEW cmd \in Cmds, NEW seq \in Nat
    PROVE  /\ Msg(type, cmd, seq) \in Msgs
           /\ \A b \in BOOLEAN : [Msg(type, cmd, seq) EXCEPT !.cur = b] \in Msgs
BY MsgsShape DEF Msg

LEMMA SentType ==
    ASSUME ToUxcType, FaultsType, NEW msg \in Msgs, Sent(msg) \/ NotSent(msg)
    PROVE  ToUxcType' /\ FaultsType'
<1>1. FaultsType'
  BY SpendType DEF Sent, NotSent
<1>2. [msg EXCEPT !.cur = FALSE] \in Msgs
  BY MsgsShape
<1>3. ToUxcType'
  <2>1. \/ toUxc' = toUxc
        \/ toUxc' = Append(toUxc, msg)
        \/ toUxc' = Append(toUxc, [msg EXCEPT !.cur = FALSE])
    BY DEF Sent, NotSent
  <2>2. ASSUME NEW m \in Msgs, toUxc' = Append(toUxc, m) PROVE ToUxcType'
    BY <2>2 DEF ToUxcType
  <2> QED BY <1>2, <2>1, <2>2 DEF ToUxcType
<1> QED BY <1>1, <1>3

LEMMA RetiredType ==
    ASSUME NEW q \in Seq(Msgs) PROVE Retired(q) \in Seq(Msgs)
<1>1. \A i \in 1 .. Len(q) : [q[i] EXCEPT !.cur = FALSE] \in Msgs
  <2> SUFFICES ASSUME NEW i \in 1 .. Len(q) PROVE [q[i] EXCEPT !.cur = FALSE] \in Msgs
    OBVIOUS
  <2>1. q[i] \in Msgs
    OBVIOUS
  <2> QED BY <2>1, MsgsShape
<1>2. Retired(q) \in [1 .. Len(q) -> Msgs]
  BY <1>1 DEF Retired
<1> QED BY <1>2, SeqDef

LEMMA ToldType ==
    ASSUME AppType, FaultsType, NEW step \in Steps, NEW cost \in Nat, Told(step, cost)
    PROVE  AppType' /\ FaultsType'
<1>1. FaultsType'
  BY SpendType DEF Told
<1>2. [app EXCEPT !.step = step] \in Apps
  BY DEF AppType, Apps
<1> QED BY <1>1, <1>2 DEF Told, AppType

LEMMA HandlesType ==
    ASSUME ToCoreType, NEW types, Handles(types)
    PROVE  ToCoreType' /\ Rsp \in Msgs /\ Rsp.type \in types
BY DEF ToCoreType, Handles, Rsp

LEMMA AppFields ==
    ASSUME AppType
    PROVE  /\ app.cmd \in Cmds /\ app.cmd.mode \in {"normal", "delta"}
           /\ \A s \in Steps : [app EXCEPT !.step = s] \in Apps
BY DEF AppType, Apps, Cmds

LEMMA CoreStartType ==
    ASSUME TypeInv, NEW c1 \in Cores, NEW cmd \in Cmds, NEW confirmed \in BOOLEAN,
           CoreStart(c1, cmd, confirmed)
    PROVE  ChipInv' /\ CoreType' /\ GoalType' /\ AppType' /\ FaultsType'
<1>1. PICK o \in fwup_start(chip["Core"], cmd) :
        /\ chip' = [chip EXCEPT !["Core"] = o.ch]
        /\ core' = [c1 EXCEPT !.pending = o.ok,
                              !.confirmed = IF o.ok \/ ~confirmed THEN @ ELSE 0]
        /\ app' = [cmd |-> cmd, step |-> IF o.ok THEN "open" ELSE "idle"]
        /\ Spend(o.cost)
  BY DEF CoreStart
<1>2. SoundOutcome(o)
  BY StartSound DEF TypeInv, ChipInv
<1>3. ChipInv' /\ FaultsType'
  BY <1>1, <1>2, SetChip, SpendType DEF TypeInv, SoundOutcome
<1>4. CoreType'
  BY <1>1, <1>2, Constants DEF SoundOutcome, CoreType, Cores
<1>5. AppType'
  BY <1>1 DEF AppType, Apps, Steps
<1>6. GoalType'
  BY Constants DEF CoreStart, GoalType, Cmds
<1> QED BY <1>3, <1>4, <1>5, <1>6

LEMMA FinishUiType ==
    ASSUME ReportedType, NEW c1 \in Cores, NEW success \in BOOLEAN,
           fwup_coproc_finish_ui(c1, success)
    PROVE  CoreType' /\ ReportedType' /\ PcType'
<1>1. CoreType'
  BY Constants, ZenonT(60) DEF fwup_coproc_finish_ui, CoreType, Cores
<1>2. ReportedType'
  BY DEF fwup_coproc_finish_ui, ReportedType, Reports, Cores
<1>3. PcType'
  BY DEF fwup_coproc_finish_ui, PcType, PCs
<1> QED BY <1>1, <1>2, <1>3

Answers == {"none", "ok", "error", "patch"}

LEMMA AnswerType ==
    ASSUME TypeInv, NEW msg \in Msgs, NEW o, SoundOutcome(o), NEW result \in Answers,
           Answer(msg, o, result)
    PROVE  ChipInv' /\ ToCoreType' /\ FaultsType'
<1>1. ChipInv'
  BY SetChip DEF TypeInv, Answer, SoundOutcome
<1>2. FaultsType'
  <2>1. o.cost \in Nat /\ o.cost + 1 \in Nat
    BY DEF SoundOutcome
  <2> QED BY <2>1, SpendType DEF TypeInv, Answer
<1>3. [msg EXCEPT !.result = result, !.cmd = NoCmd] \in Msgs
  BY MsgsShape, NoCmdType DEF Answers
<1>4. ToCoreType'
  BY <1>3 DEF TypeInv, Answer, ToCoreType
<1> QED BY <1>1, <1>2, <1>4

LEMMA UxcBootsType ==
    ASSUME TypeInv, NEW queue \in Seq(Msgs), NEW known \in Reports, UxcBoots(queue, known)
    PROVE  UxcType' /\ ToUxcType' /\ ToCoreType' /\ ReportedType' /\ FaultsType'
<1>1. FaultsType'
  BY SpendType DEF UxcBoots, TypeInv
<1>2. Running(Boot(chip["Uxc"])) \in 1 .. MaxVersion
  BY BootSound DEF TypeInv, ChipInv
<1>3. [Msg("version", NoCmd, 0) EXCEPT !.cur = FALSE] \in Msgs
  BY MsgType, NoCmdType DEF MsgTypes
<1>4. UxcType' /\ ToUxcType'
  BY UxcBootType DEF UxcBoots, UxcType, ToUxcType
<1>5. ToCoreType' 
  BY <1>3 DEF UxcBoots, ToCoreType
<1>6. ReportedType'
  BY <1>2 DEF UxcBoots, ReportedType, Reports
<1> QED BY <1>1, <1>4, <1>5, <1>6

-----------------------------------------------------------------------------
LEMMA InitType == Init => TypeInv
<1> SUFFICES ASSUME Init PROVE TypeInv
  OBVIOUS
<1> DEFINE c == [img |-> [A |-> 1, B |-> 0], sig |-> [A |-> 1, B |-> 0],
                 run |-> "A", pend |-> 0, conf |-> 0, patch |-> 0,
                 open |-> FALSE, verified |-> FALSE]
<1>1. Sound(c)
  <2>1. [A |-> 1, B |-> 0] \in [Slots -> Images]
    BY DEF Slots, Images, Junk
  <2> QED BY <2>1, Constants DEF Sound, Chips, Valid, Slots
<1>2. ChipInv
  BY <1>1 DEF Init, ChipInv
<1>3. CoreType /\ StagedType /\ UxcType /\ ConfirmType /\ AppType
  BY CoreBootType, NoFileType, UxcBootType, NoCmdType, IdleType
     DEF Init, CoreType, StagedType, UxcType, ConfirmType, AppType
<1>4. PcType /\ ToUxcType /\ ToCoreType
  BY DEF Init, PcType, PCs, ToUxcType, ToCoreType
<1>5. ReportedType /\ GoalType /\ FaultsType /\ CountsType
  BY Constants DEF Init, ReportedType, Reports, GoalType, FaultsType, CountsType
<1> QED BY <1>2, <1>3, <1>4, <1>5 DEF TypeInv

-----------------------------------------------------------------------------
(* Core *)
LEMMA SendStartType ==
    ASSUME TypeInv, NEW cmd \in Cmds, fwup_task_send_coproc_fwup_start_cmd(cmd)
    PROVE  /\ ChipInv' /\ CoreType' /\ ToUxcType' /\ ConfirmType' /\ AppType'
           /\ GoalType' /\ FaultsType'
<1> DEFINE c1 == [core EXCEPT !.kind = "none", !.defer = cmd.defer]
<1> DEFINE forward == [c1 EXCEPT !.confirmed = cmd.v, !.kind = "start", !.coproc = TRUE]
<1> DEFINE failed == [c1 EXCEPT !.confirmed = 0, !.defer = FALSE]
<1>1. core \in Cores /\ cmd.defer \in BOOLEAN /\ cmd.v \in 0 .. MaxVersion
  BY DEF TypeInv, CoreType, Cmds
<1>2. c1 \in Cores
  BY <1>1 DEF Cores, Kinds
<1>3. forward \in Cores /\ failed \in Cores
  BY <1>1, <1>2, Constants DEF Cores, Kinds
<1>4. CoreType'
  BY <1>2, <1>3 DEF fwup_task_send_coproc_fwup_start_cmd, CoreType
<1>5. ConfirmType' /\ AppType'
  BY NoCmdType
     DEF fwup_task_send_coproc_fwup_start_cmd, TypeInv, ConfirmType, AppType, Apps,
         Steps
<1>6. ToUxcType' /\ FaultsType'
  <2>1. Msg("start", cmd, 0) \in Msgs
    BY MsgType DEF MsgTypes
  <2>2. \/ UNCHANGED <<toUxc, faults>>
        \/ Sent(Msg("start", cmd, 0)) \/ NotSent(Msg("start", cmd, 0))
    BY DEF fwup_task_send_coproc_fwup_start_cmd
  <2> QED BY <2>1, <2>2, SentType DEF TypeInv, ToUxcType, FaultsType
<1>7. ChipInv' /\ GoalType'
  BY DEF fwup_task_send_coproc_fwup_start_cmd, TypeInv, ChipInv, GoalType
<1> QED BY <1>4, <1>5, <1>6, <1>7

LEMMA HandleStartType ==
    ASSUME TypeInv, NEW cmd \in Cmds, fwup_task_port_handle_start_cmd(cmd)
    PROVE  /\ ChipInv' /\ CoreType' /\ ToUxcType' /\ ConfirmType' /\ AppType'
           /\ GoalType' /\ FaultsType'
<1> DEFINE c1 == [core EXCEPT !.defer = cmd.defer \/ core.uxc_verified]
<1>1. core \in Cores /\ cmd.defer \in BOOLEAN /\ core.uxc_verified \in BOOLEAN
  BY DEF TypeInv, CoreType, Cmds, Cores
<1>2. c1 \in Cores /\ [core EXCEPT !.defer = FALSE] \in Cores
  BY <1>1 DEF Cores
<1>3. ToUxcType'
  BY DEF fwup_task_port_handle_start_cmd, TypeInv, ToUxcType
<1>4. CASE /\ core' = [core EXCEPT !.defer = FALSE] /\ app' = Idle
           /\ UNCHANGED <<chip, goal, confirm, faults>>
  BY <1>2, <1>3, <1>4, IdleType
     DEF TypeInv, ChipInv, CoreType, ConfirmType, AppType, GoalType, FaultsType
<1>5. CASE /\ core' = c1 /\ confirm' = cmd /\ app' = [cmd |-> cmd, step |-> "confirm"]
           /\ UNCHANGED <<chip, goal, faults>>
  BY <1>2, <1>3, <1>5
     DEF TypeInv, ChipInv, CoreType, ConfirmType, AppType, Apps, Steps, GoalType, FaultsType
<1>6. CASE CoreStart(c1, cmd, FALSE) /\ UNCHANGED confirm
  BY <1>2, <1>3, <1>6, CoreStartType DEF TypeInv, ConfirmType
<1> QED BY <1>4, <1>5, <1>6 DEF fwup_task_port_handle_start_cmd

LEMMA AppStartType == ASSUME TypeInv, AppStart PROVE TypeInv'
<1>1. PICK cmd \in [mcu : Mcus, v : Releases, mode : Modes, defer : BOOLEAN] :
        /\ \/ fwup_task_send_coproc_fwup_start_cmd(cmd)
           \/ fwup_task_port_handle_start_cmd(cmd)
        /\ starts < MaxStarts /\ starts' = starts + 1
        /\ UNCHANGED <<pc, staged, uxc, echo, toCore, reported, crashes>>
  BY DEF AppStart
<1>2. cmd \in Cmds
  BY Constants DEF Cmds
<1>3. /\ ChipInv' /\ CoreType' /\ ToUxcType' /\ ConfirmType' /\ AppType'
      /\ GoalType' /\ FaultsType'
  BY <1>1, <1>2, SendStartType, HandleStartType
<1> QED
  BY <1>1, <1>3
     DEF TypeInv, PcType, StagedType, UxcType, ToCoreType, ReportedType, CountsType

LEMMA ConfirmationResultType == ASSUME TypeInv, fwup_handle_confirmation_result PROVE TypeInv'
<1> DEFINE c1 == [core EXCEPT !.confirmed = confirm.v]
<1> DEFINE msg == Msg("start", confirm, 0)
<1>1. core \in Cores /\ confirm \in Cmds /\ confirm.v \in 0 .. MaxVersion
  BY DEF TypeInv, CoreType, ConfirmType, Cmds
<1>2. /\ c1 \in Cores /\ [c1 EXCEPT !.kind = "none"] \in Cores
      /\ [c1 EXCEPT !.kind = "start_confirmed", !.coproc = TRUE] \in Cores
      /\ [c1 EXCEPT !.confirmed = 0] \in Cores
  BY <1>1, Constants DEF Cores, Kinds
<1>3. msg \in Msgs
  BY <1>1, MsgType DEF MsgTypes
<1>4. UNCHANGED <<pc, staged, uxc, echo, toCore, reported, starts, crashes>>
  BY DEF fwup_handle_confirmation_result
<1> SUFFICES ChipInv' /\ CoreType' /\ ToUxcType' /\ ConfirmType' /\ AppType' /\ GoalType' /\ FaultsType'
  BY <1>4 DEF TypeInv, PcType, StagedType, UxcType, ToCoreType, ReportedType, CountsType
<1>5. CASE confirm' = NoCmd /\ app' = Idle /\ UNCHANGED <<core, chip, goal, toUxc, faults>>
  BY <1>5, NoCmdType, IdleType
     DEF TypeInv, ChipInv, CoreType, ToUxcType, ConfirmType, AppType, GoalType, FaultsType
<1>6. CASE CoreStart(c1, confirm, TRUE) /\ confirm' = NoCmd /\ UNCHANGED toUxc
  BY <1>1, <1>2, <1>6, CoreStartType, NoCmdType DEF TypeInv, ConfirmType, ToUxcType
<1>7. CASE /\ core' = [c1 EXCEPT !.kind = "none"]
           /\ app' = IF core.kind = "cached_ok" THEN [app EXCEPT !.step = "open"] ELSE Idle
           /\ confirm' = NoCmd /\ UNCHANGED <<chip, goal, toUxc, faults>>
  <2>1. AppType'
    BY <1>7, AppFields, IdleType DEF TypeInv, AppType, Steps
  <2> QED
    BY <1>2, <1>7, <2>1, NoCmdType
       DEF TypeInv, ChipInv, CoreType, ToUxcType, ConfirmType, GoalType, FaultsType
<1>8. CASE core' = c1 /\ UNCHANGED <<chip, goal, app, confirm, toUxc, faults>>
  BY <1>2, <1>8
     DEF TypeInv, ChipInv, CoreType, ToUxcType, ConfirmType, AppType, GoalType, FaultsType
<1>9. CASE /\ UNCHANGED <<chip, goal, app>>
           /\ \/ /\ Sent(msg) /\ UNCHANGED confirm
                 /\ core' = [c1 EXCEPT !.kind = "start_confirmed", !.coproc = TRUE]
              \/ /\ NotSent(msg) /\ confirm' = NoCmd
                 /\ core' = [c1 EXCEPT !.confirmed = 0]
  <2>1. ToUxcType' /\ FaultsType'
    BY <1>3, <1>9, SentType DEF TypeInv
  <2> QED
    BY <1>2, <1>9, <2>1, NoCmdType
       DEF TypeInv, ChipInv, CoreType, ConfirmType, AppType, GoalType
<1> QED BY <1>5, <1>6, <1>7, <1>8, <1>9 DEF fwup_handle_confirmation_result

LEMMA ConfirmationClearedType == ASSUME TypeInv, ConfirmationCleared PROVE TypeInv'
BY NoCmdType
   DEF ConfirmationCleared, TypeInv, ChipInv, CoreType, PcType, StagedType, UxcType,
       ToUxcType, ToCoreType, ReportedType, ConfirmType, AppType, GoalType, FaultsType,
       CountsType

LEMMA ForwardType ==
    ASSUME TypeInv, NEW type \in {"body", "sig", "finish"}, NEW kind \in {"transfer", "finish"},
           ForwardToUxc(type, kind)
    PROVE  ChipInv' /\ CoreType' /\ ToUxcType' /\ StagedType' /\ PcType' /\ AppType' /\ FaultsType'
<1> DEFINE c1 == [core EXCEPT !.kind = kind]
<1>1. core \in Cores
  BY DEF TypeInv, CoreType
<1>2. c1 \in Cores /\ [c1 EXCEPT !.reset_pending = TRUE] \in Cores
      /\ [core EXCEPT !.confirmed = 0, !.coproc = FALSE] \in Cores
  BY <1>1, Constants DEF Cores, Kinds
<1>3. Msg(type, app.cmd, 0) \in Msgs
  BY MsgType, AppFields DEF TypeInv, MsgTypes
<1>4. ToUxcType' /\ FaultsType'
  BY <1>3, SentType DEF ForwardToUxc, TypeInv
<1>5. CoreType'
  BY <1>2 DEF ForwardToUxc, CoreType
<1> QED BY <1>4, <1>5 DEF ForwardToUxc, TypeInv, ChipInv, StagedType, PcType, AppType

LEMMA TransferCmdType == ASSUME TypeInv, fwup_task_handle_transfer_cmd PROVE TypeInv'
<1>1. PICK part \in {"body", "sig"} :
        /\ \/ ForwardToUxc(part, "transfer")
           \/ \E o \in fwup_transfer(chip["Core"], part, app.cmd) :
                /\ chip' = [chip EXCEPT !["Core"] = o.ch]
                /\ Told(IF o.ok THEN part ELSE "idle", o.cost)
                /\ UNCHANGED <<core, toUxc, staged, pc>>
        /\ UNCHANGED <<uxc, echo, toCore, reported, confirm, goal, starts, crashes>>
  BY DEF fwup_task_handle_transfer_cmd
<1> SUFFICES ChipInv' /\ CoreType' /\ ToUxcType' /\ StagedType' /\ PcType' /\ AppType' /\ FaultsType'
  BY <1>1 DEF TypeInv, UxcType, ToCoreType, ReportedType, ConfirmType, GoalType, CountsType
<1>2. CASE ForwardToUxc(part, "transfer")
  BY <1>2, ForwardType
<1>3. ASSUME NEW o \in fwup_transfer(chip["Core"], part, app.cmd),
             chip' = [chip EXCEPT !["Core"] = o.ch],
             Told(IF o.ok THEN part ELSE "idle", o.cost),
             UNCHANGED <<core, toUxc, staged, pc>>
      PROVE  ChipInv' /\ CoreType' /\ ToUxcType' /\ StagedType' /\ PcType' /\ AppType' /\ FaultsType'
  <2>1. SoundOutcome(o)
    BY TransferSound, AppFields DEF TypeInv, ChipInv
  <2>2. ChipInv'
    BY <1>3, <2>1, SetChip DEF TypeInv, SoundOutcome
  <2>3. AppType' /\ FaultsType'
    BY <1>3, <2>1, ToldType DEF TypeInv, SoundOutcome, Steps
  <2> QED BY <1>3, <2>2, <2>3 DEF TypeInv, CoreType, ToUxcType, StagedType, PcType
<1> QED BY <1>1, <1>2, <1>3

LEMMA FinishCmdType == ASSUME TypeInv, fwup_task_handle_finish_cmd PROVE TypeInv'
<1> DEFINE outcomes == IF app.cmd.mode = "delta" /\ ~fwup_pre_apply_check(chip["Core"])
                       THEN {Outcome(FALSE, chip["Core"], 0)}
                       ELSE fwup_finish(chip["Core"], app.cmd.mode)
<1>1. UNCHANGED <<uxc, echo, toCore, reported, confirm, goal, starts, crashes>>
  BY DEF fwup_task_handle_finish_cmd
<1> SUFFICES ChipInv' /\ CoreType' /\ ToUxcType' /\ StagedType' /\ PcType' /\ AppType' /\ FaultsType'
  BY <1>1 DEF TypeInv, UxcType, ToCoreType, ReportedType, ConfirmType, GoalType, CountsType
<1>2. CASE ForwardToUxc("finish", "finish")
  BY <1>2, ForwardType
<1>3. ASSUME NEW o \in outcomes,
             app' = Idle, UNCHANGED <<core, toUxc>>,
             \/ /\ chip' = [chip EXCEPT !["Core"] = o.ch]
                /\ staged' = [sig |-> o.ch.pend, uxc |-> core.confirmed,
                              slot |-> fwup_target_slot(o.ch)]
                /\ pc' = "send_commit" /\ Spend(o.cost)
             \/ /\ chip' = [chip EXCEPT !["Core"] = o.ch]
                /\ UNCHANGED staged /\ pc' = "reset" /\ Spend(o.cost + 1)
             \/ /\ chip' = [chip EXCEPT !["Core"] = o.ch]
                /\ pc' = "reset" /\ UNCHANGED staged /\ Spend(o.cost)
             \/ /\ \E w \in fwup_commit_signature(o.ch) :
                      /\ chip' = [chip EXCEPT !["Core"] = w.ch]
                      /\ Spend(o.cost + w.cost)
                /\ pc' = "reset" /\ UNCHANGED staged
      PROVE  ChipInv' /\ CoreType' /\ ToUxcType' /\ StagedType' /\ PcType' /\ AppType' /\ FaultsType'
  <2>1. SoundOutcome(o)
    BY FinishSound, OutcomeSound, AppFields DEF TypeInv, ChipInv
  <2> HIDE DEF outcomes
  <2>2. o.ch \in Chips /\ o.cost \in Nat /\ Sound(o.ch)
    BY <2>1 DEF SoundOutcome, Sound
  <2>3. \A w \in fwup_commit_signature(o.ch) : Sound(w.ch) /\ w.cost \in Nat
    BY <2>2, CommitSound DEF SoundOutcome
  <2>4. ChipInv'
    BY <1>3, <2>2, <2>3, SetChip DEF TypeInv
  <2>5. FaultsType'
    <3>1. \/ Spend(o.cost) \/ Spend(o.cost + 1)
          \/ \E w \in fwup_commit_signature(o.ch) : Spend(o.cost + w.cost)
      BY <1>3
    <3> QED BY <2>2, <2>3, <3>1, SpendType DEF TypeInv
  <2>6. StagedType'
    <3>1. [sig |-> o.ch.pend, uxc |-> core.confirmed, slot |-> fwup_target_slot(o.ch)] \in Files
      BY <2>2, TargetSlot DEF TypeInv, CoreType, Cores, Chips, Files
    <3> QED BY <1>3, <3>1 DEF TypeInv, StagedType
  <2>7. PcType' /\ AppType'
    BY <1>3, IdleType DEF PcType, PCs, AppType
  <2> QED BY <1>3, <2>4, <2>5, <2>6, <2>7 DEF TypeInv, CoreType, ToUxcType
<1> QED BY <1>2, <1>3 DEF fwup_task_handle_finish_cmd

LEMMA AtomicCommitType == ASSUME TypeInv, fwup_atomic_commit PROVE TypeInv'
<1> DEFINE seq == core.seq_counter + 1
<1>1. core \in Cores /\ seq \in Nat
  BY DEF TypeInv, CoreType, Cores
<1>2. /\ [core EXCEPT !.seq_counter = seq, !.commit_seq = seq,
                      !.awaiting_commit = TRUE, !.reset_pending = TRUE] \in Cores
      /\ [core EXCEPT !.seq_counter = seq] \in Cores
  BY <1>1 DEF Cores
<1>3. Msg("commit", NoCmd, seq) \in Msgs
  BY <1>1, MsgType, NoCmdType DEF MsgTypes
<1>4. ToUxcType' /\ FaultsType'
  BY <1>3, SentType DEF fwup_atomic_commit, TypeInv
<1>5. CoreType' /\ PcType'
  BY <1>2 DEF fwup_atomic_commit, CoreType, PcType, PCs
<1> QED
  BY <1>4, <1>5
     DEF fwup_atomic_commit, TypeInv, ChipInv, StagedType, UxcType, ToCoreType,
         ReportedType, ConfirmType, AppType, GoalType, CountsType

-----------------------------------------------------------------------------
CoreVarsType == CoreType /\ PcType /\ ChipInv /\ StagedType /\ ReportedType /\ ConfirmType
                /\ AppType /\ FaultsType

LEMMA DroppedType == ASSUME TypeInv, Dropped PROVE CoreVarsType'
BY DEF Dropped, TypeInv, CoreVarsType, CoreType, PcType, ChipInv, StagedType,
       ReportedType, ConfirmType, AppType, FaultsType

LEMMA CoprocStartType == ASSUME TypeInv, fwup_task_handle_coproc_fwup_start PROVE TypeInv'
<1> DEFINE ok == Rsp.result = "ok"
<1> DEFINE after(c) == IF ok THEN c ELSE [c EXCEPT !.confirmed = 0, !.coproc = FALSE]
<1> DEFINE told == IF ok THEN [app EXCEPT !.step = "open"] ELSE Idle
<1> DEFINE next == [core EXCEPT !.kind =
                      IF @ # "start_confirmed" THEN "none"
                      ELSE IF ok THEN "cached_ok" ELSE "cached_error"]
<1>1. Handles({"start"}) /\ UNCHANGED <<uxc, echo, toUxc, goal, starts, crashes>>
  BY DEF fwup_task_handle_coproc_fwup_start
<1>2. ToCoreType'
  BY <1>1, HandlesType DEF TypeInv
<1> SUFFICES CoreVarsType'
  BY <1>1, <1>2 DEF CoreVarsType, TypeInv, UxcType, ToUxcType, GoalType, CountsType
<1>3. core \in Cores /\ [core EXCEPT !.kind = "none"] \in Cores /\ next \in Cores
  BY DEF TypeInv, CoreType, Cores, Kinds
<1>4. \A c \in Cores : after(c) \in Cores
  BY Constants, ZenonT(60) DEF Cores
<1>5. told \in Apps
  BY AppFields, IdleType DEF TypeInv, Steps
<1> HIDE DEF next, told
<1>6. CASE Dropped
  BY <1>6, DroppedType
<1>7. CASE /\ core' = after([core EXCEPT !.kind = "none"]) /\ app' = told
           /\ confirm' = IF core.kind = "start_confirmed" THEN NoCmd ELSE confirm
           /\ Spend(0) /\ UNCHANGED <<pc, chip, staged, reported>>
  <2>1. CoreType' /\ AppType' /\ ConfirmType'
    BY <1>3, <1>4, <1>5, <1>7, NoCmdType DEF TypeInv, CoreType, AppType, ConfirmType
  <2>2. FaultsType'
    BY <1>7, SpendType DEF TypeInv
  <2> QED
    BY <1>7, <2>1, <2>2 DEF CoreVarsType, TypeInv, PcType, ChipInv, StagedType, ReportedType
<1>8. CASE /\ core' = after(next)
           /\ Spend(0) \/ Spend(1)
           /\ UNCHANGED <<pc, chip, staged, reported, confirm, app>>
  <2>1. CoreType'
    BY <1>3, <1>4, <1>8 DEF CoreType
  <2>2. FaultsType'
    BY <1>8, SpendType DEF TypeInv
  <2> QED
    BY <1>8, <2>1, <2>2
       DEF CoreVarsType, TypeInv, PcType, ChipInv, StagedType, ReportedType, ConfirmType, AppType
<1> QED BY <1>6, <1>7, <1>8 DEF fwup_task_handle_coproc_fwup_start, next, told

LEMMA CoprocTransferType == ASSUME TypeInv, fwup_task_handle_coproc_fwup_transfer PROVE TypeInv'
<1> DEFINE ok == Rsp.result = "ok"
<1>1. Handles({"body", "sig"}) /\ UNCHANGED <<uxc, echo, toUxc, goal, starts, crashes>>
  BY DEF fwup_task_handle_coproc_fwup_transfer
<1>2. ToCoreType' /\ Rsp.type \in {"body", "sig"}
  BY <1>1, HandlesType DEF TypeInv
<1> SUFFICES CoreVarsType'
  BY <1>1, <1>2 DEF CoreVarsType, TypeInv, UxcType, ToUxcType, GoalType, CountsType
<1>3. CASE Dropped
  BY <1>3, DroppedType
<1>4. CASE /\ core' = IF ok THEN [core EXCEPT !.kind = "none"]
                      ELSE [core EXCEPT !.kind = "none", !.confirmed = 0, !.coproc = FALSE]
           /\ Told(IF ok THEN Rsp.type ELSE "idle", 0) \/ UNCHANGED <<app, faults>>
           /\ UNCHANGED <<pc, chip, staged, reported, confirm>>
  <2>1. CoreType'
    BY <1>4, Constants DEF TypeInv, CoreType, Cores, Kinds
  <2>2. AppType' /\ FaultsType'
    <3>1. (IF ok THEN Rsp.type ELSE "idle") \in Steps
      BY <1>2 DEF Steps
    <3> QED BY <1>4, <3>1, ToldType DEF TypeInv, AppType, FaultsType
  <2> QED
    BY <1>4, <2>1, <2>2
       DEF CoreVarsType, TypeInv, PcType, ChipInv, StagedType, ReportedType, ConfirmType
<1> QED BY <1>3, <1>4 DEF fwup_task_handle_coproc_fwup_transfer

LEMMA CoprocFinishType == ASSUME TypeInv, fwup_task_handle_coproc_fwup_finish PROVE TypeInv'
<1> DEFINE c1 == [core EXCEPT !.kind = "none", !.awaiting_delta = FALSE]
<1>1. Handles({"finish"}) /\ UNCHANGED <<uxc, echo, toUxc, goal, starts, crashes>>
  BY DEF fwup_task_handle_coproc_fwup_finish
<1>2. ToCoreType'
  BY <1>1, HandlesType DEF TypeInv
<1> SUFFICES CoreVarsType'
  BY <1>1, <1>2 DEF CoreVarsType, TypeInv, UxcType, ToUxcType, GoalType, CountsType
<1>3. CASE Dropped
  BY <1>3, DroppedType
<1>4. CASE /\ UNCHANGED <<chip, staged, confirm>>
           /\ \/ Told(IF Rsp.result = "error" THEN "idle" ELSE "next", 0)
              \/ UNCHANGED <<app, faults>>
           /\ \/ /\ core' = [core EXCEPT !.kind = "delta", !.awaiting_delta = TRUE]
                 /\ UNCHANGED <<pc, reported>>
              \/ fwup_coproc_finish_ui(c1, Rsp.result = "ok")
  <2>1. AppType' /\ FaultsType'
    <3>1. (IF Rsp.result = "error" THEN "idle" ELSE "next") \in Steps
      BY DEF Steps
    <3> QED BY <1>4, <3>1, ToldType DEF TypeInv, AppType, FaultsType
  <2>2. c1 \in Cores /\ [core EXCEPT !.kind = "delta", !.awaiting_delta = TRUE] \in Cores
    BY DEF TypeInv, CoreType, Cores, Kinds
  <2>3. CoreType' /\ PcType' /\ ReportedType'
    BY <1>4, <2>2, FinishUiType DEF TypeInv, CoreType, PcType, ReportedType
  <2> QED BY <1>4, <2>1, <2>3 DEF CoreVarsType, TypeInv, ChipInv, StagedType, ConfirmType
<1> QED BY <1>3, <1>4 DEF fwup_task_handle_coproc_fwup_finish

LEMMA CommitRspType == ASSUME TypeInv, fwup_task_handle_commit_sig_rsp PROVE TypeInv'
<1> DEFINE c1 == [core EXCEPT !.awaiting_commit = FALSE, !.commit_seq = 0]
<1>1. Handles({"commit"}) /\ UNCHANGED <<uxc, echo, toUxc, goal, starts, crashes>>
  BY DEF fwup_task_handle_commit_sig_rsp
<1>2. ToCoreType'
  BY <1>1, HandlesType DEF TypeInv
<1> SUFFICES CoreVarsType'
  BY <1>1, <1>2 DEF CoreVarsType, TypeInv, UxcType, ToUxcType, GoalType, CountsType
<1>3. c1 \in Cores
  BY DEF TypeInv, CoreType, Cores
<1> HIDE DEF c1
<1>4. CASE Dropped
  BY <1>4, DroppedType
<1>5. CASE /\ fwup_coproc_finish_ui(c1, FALSE)
           /\ staged' = NoFile \/ UNCHANGED staged
           /\ UNCHANGED <<chip, confirm, app, faults>>
  <2>1. CoreType' /\ PcType' /\ ReportedType'
    BY <1>3, <1>5, FinishUiType DEF TypeInv
  <2> QED
    BY <1>5, <2>1, NoFileType
       DEF CoreVarsType, TypeInv, ChipInv, StagedType, ConfirmType, AppType, FaultsType
<1>6. ASSUME NEW o \in fwup_commit_signature(chip["Core"]),
             chip' = [chip EXCEPT !["Core"] = o.ch], Spend(o.cost),
             \/ core' = c1 /\ pc' = "remove_staged_both" /\ UNCHANGED <<staged, reported>>
             \/ staged' = NoFile /\ fwup_coproc_finish_ui(c1, FALSE),
             UNCHANGED <<confirm, app>>
      PROVE  CoreVarsType'
  <2>1. SoundOutcome(o)
    BY CommitSound DEF TypeInv, ChipInv
  <2>2. ChipInv' /\ FaultsType'
    BY <1>6, <2>1, SetChip, SpendType DEF TypeInv, SoundOutcome
  <2>3. CoreType' /\ PcType' /\ ReportedType' /\ StagedType'
    BY <1>3, <1>6, FinishUiType, NoFileType
       DEF TypeInv, CoreType, PcType, PCs, ReportedType, StagedType
  <2> QED BY <1>6, <2>2, <2>3 DEF CoreVarsType, TypeInv, ConfirmType, AppType
<1> QED BY <1>4, <1>5, <1>6 DEF fwup_task_handle_commit_sig_rsp, c1

LEMMA StagedRemoveType == ASSUME TypeInv, fwup_staged_sig_remove PROVE TypeInv'
BY NoFileType
   DEF fwup_staged_sig_remove, TypeInv, ChipInv, CoreType, PcType, PCs, StagedType,
       UxcType, ToUxcType, ToCoreType, ReportedType, ConfirmType, AppType, GoalType,
       FaultsType, CountsType

LEMMA ClearedType ==
    ASSUME NEW c \in Cores PROVE ClearedByVersion(c) \in Cores
<1>1. (c.defer /\ c.pending) \in BOOLEAN
  BY DEF Cores
<1> QED BY <1>1 DEF ClearedByVersion, Cores, Kinds

LEMMA CoprocVersionType == ASSUME TypeInv, fwup_task_handle_coproc_version PROVE TypeInv'
<1> DEFINE v == reported.boot
<1> DEFINE success == core.confirmed \in {0, v}
<1> DEFINE c1 == [core EXCEPT !.awaiting_delta = FALSE, !.kind = "none"]
<1> DEFINE failed == core.awaiting_delta /\ ~success
<1> DEFINE c2 == IF ~core.awaiting_delta THEN core
                 ELSE IF failed THEN [c1 EXCEPT !.confirmed = 0] ELSE c1
<1>1. /\ toCore # <<>> /\ toCore' = Retired(Tail(toCore))
      /\ UNCHANGED <<echo, confirm, app, goal, starts, crashes>>
      /\ uxc' = [uxc EXCEPT !.cur = FALSE] /\ toUxc' = Retired(toUxc)
  BY DEF fwup_task_handle_coproc_version
<1>2. ToCoreType' /\ ToUxcType' /\ UxcType'
  <2>1. Tail(toCore) \in Seq(Msgs)
    BY <1>1 DEF TypeInv, ToCoreType
  <2> QED BY <1>1, <2>1, RetiredType DEF TypeInv, ToCoreType, ToUxcType, UxcType, Uxcs
<1> SUFFICES CoreType' /\ PcType' /\ ChipInv' /\ StagedType' /\ ReportedType' /\ FaultsType'
  BY <1>1, <1>2 DEF TypeInv, ConfirmType, AppType, GoalType, CountsType
<1>3. core \in Cores /\ c1 \in Cores /\ [c1 EXCEPT !.confirmed = 0] \in Cores
  BY Constants DEF TypeInv, CoreType, Cores, Kinds
<1>4. c2 \in Cores
  BY <1>3
<1>5. ClearedByVersion(c2) \in Cores
  BY <1>4, ClearedType
<1> HIDE DEF c1, c2
<1>6. CASE core' = c1 /\ pc' = "reset" /\ UNCHANGED <<chip, staged, reported, faults>>
  BY <1>3, <1>6
     DEF TypeInv, CoreType, PcType, PCs, ChipInv, StagedType, ReportedType, FaultsType
<1>7. ASSUME NEW o \in fwup_staged_sig_commit_to_flash(chip["Core"], staged),
             chip' = [chip EXCEPT !["Core"] = o.ch], Spend(o.cost),
             \/ core' = c2 /\ pc' = "remove_staged" /\ UNCHANGED staged
             \/ core' = ClearedByVersion(c2) /\ staged' = NoFile /\ UNCHANGED pc,
             UNCHANGED reported
      PROVE  CoreType' /\ PcType' /\ ChipInv' /\ StagedType' /\ ReportedType' /\ FaultsType'
  <2>1. SoundOutcome(o)
    BY CommitStagedSound DEF TypeInv, ChipInv, StagedType
  <2>2. ChipInv' /\ FaultsType'
    BY <1>7, <2>1, SetChip, SpendType DEF TypeInv, SoundOutcome
  <2> QED
    BY <1>4, <1>5, <1>7, <2>2, NoFileType
       DEF TypeInv, CoreType, PcType, PCs, StagedType, ReportedType
<1>8. CASE /\ core' = ClearedByVersion(c2) /\ staged' = NoFile
           /\ UNCHANGED <<pc, chip, reported, faults>>
  BY <1>5, <1>8, NoFileType
     DEF TypeInv, CoreType, PcType, ChipInv, StagedType, ReportedType, FaultsType
<1> QED BY <1>6, <1>7, <1>8 DEF fwup_task_handle_coproc_version, c1, c2

-----------------------------------------------------------------------------
\* What a handler of the UXC leaves alone.
LEMMA UxcIdleType ==
    ASSUME TypeInv, UxcIdle, ChipInv', UxcType', ToUxcType', ToCoreType', FaultsType'
    PROVE  TypeInv'
BY DEF UxcIdle, TypeInv, CoreType, PcType, StagedType, ReportedType, ConfirmType,
       AppType, GoalType, CountsType

LEMMA ReceivesType ==
    ASSUME TypeInv, NEW types, Receives(types)
    PROVE  ToUxcType' /\ toUxc[1] \in Msgs /\ toUxc[1].type \in types /\ toUxc[1].cmd \in Cmds
<1>1. ToUxcType' /\ toUxc[1] \in Msgs /\ toUxc[1].type \in types
  BY DEF TypeInv, ToUxcType, Receives
<1> QED BY <1>1, MsgsShape

\* The UXC reads its own chip.
LEMMA UxcSound == ASSUME TypeInv PROVE Sound(chip["Uxc"])
BY DEF TypeInv, ChipInv

LEMMA ResultType == \A ok \in BOOLEAN : Result(ok) \in Answers
BY DEF Result, Answers

LEMMA UxcStartType == ASSUME TypeInv, uxc_handle_fwup_start PROVE TypeInv'
<1>1. PICK o \in fwup_start(chip["Uxc"], toUxc[1].cmd) : Answer(toUxc[1], o, Result(o.ok))
  BY DEF uxc_handle_fwup_start
<1>2. ToUxcType' /\ toUxc[1] \in Msgs /\ toUxc[1].cmd \in Cmds
  BY ReceivesType DEF uxc_handle_fwup_start
<1>3. SoundOutcome(o)
  BY <1>2, StartSound, UxcSound
<1>4. ChipInv' /\ ToCoreType' /\ FaultsType'
  BY <1>1, <1>2, <1>3, AnswerType, ResultType DEF SoundOutcome
<1>5. UxcType'
  BY <1>2 DEF uxc_handle_fwup_start, TypeInv, UxcType, Uxcs, Cmds
<1> QED BY <1>2, <1>4, <1>5, UxcIdleType DEF uxc_handle_fwup_start

LEMMA UxcTransferType == ASSUME TypeInv, uxc_handle_fwup_transfer PROVE TypeInv'
<1>1. PICK o \in fwup_transfer(chip["Uxc"], toUxc[1].type, toUxc[1].cmd) :
          Answer(toUxc[1], o, Result(o.ok))
  BY DEF uxc_handle_fwup_transfer
<1>2. /\ ToUxcType' /\ toUxc[1] \in Msgs /\ toUxc[1].cmd \in Cmds
      /\ toUxc[1].type \in {"body", "sig"}
  BY ReceivesType DEF uxc_handle_fwup_transfer
<1>3. SoundOutcome(o)
  BY <1>2, TransferSound, UxcSound
<1>4. ChipInv' /\ ToCoreType' /\ FaultsType'
  BY <1>1, <1>2, <1>3, AnswerType, ResultType DEF SoundOutcome
<1> QED
  BY <1>2, <1>4, UxcIdleType DEF uxc_handle_fwup_transfer, TypeInv, UxcType

LEMMA UxcFinishType == ASSUME TypeInv, uxc_handle_fwup_finish PROVE TypeInv'
<1> DEFINE ch == chip["Uxc"]
<1> DEFINE msg == toUxc[1]
<1>1. ToUxcType' /\ msg \in Msgs
  BY ReceivesType DEF uxc_handle_fwup_finish
<1>2. msg.cur \in BOOLEAN
  BY <1>1, MsgsShape
<1>3. UxcType'
  <2>1. uxc \in Uxcs
    BY DEF TypeInv, UxcType
  <2>2. [uxc EXCEPT !.pc = "reset"] \in Uxcs /\ [uxc EXCEPT !.pc = "apply", !.cur = msg.cur] \in Uxcs
    BY <1>2, <2>1 DEF Uxcs
  <2> QED BY <2>1, <2>2 DEF uxc_handle_fwup_finish, UxcType
<1>4. ChipInv' /\ ToCoreType' /\ FaultsType'
  <2>1. ASSUME NEW o \in fwup_finish(ch, "normal"),
               NEW w \in (IF o.ok /\ ~uxc.defer THEN fwup_commit_signature(o.ch) ELSE {o}),
               Answer(msg, w, Result(o.ok))
        PROVE  ChipInv' /\ ToCoreType' /\ FaultsType'
    <3>1. SoundOutcome(o)
      BY FinishSound, UxcSound
    <3>2. SoundOutcome(w)
      BY <3>1, CommitSound DEF SoundOutcome
    <3> QED BY <1>1, <2>1, <3>1, <3>2, AnswerType, ResultType DEF SoundOutcome
  <2>2. ASSUME NEW b \in BOOLEAN, NEW r \in Answers, Answer(msg, Outcome(b, ch, 0), r)
        PROVE  ChipInv' /\ ToCoreType' /\ FaultsType'
    <3>1. SoundOutcome(Outcome(b, ch, 0))
      BY OutcomeSound, UxcSound
    <3> QED BY <1>1, <2>2, <3>1, AnswerType
  <2> QED BY <2>1, <2>2 DEF uxc_handle_fwup_finish, Answers
<1> QED BY <1>1, <1>3, <1>4, UxcIdleType DEF uxc_handle_fwup_finish

LEMMA UxcApplyType == ASSUME TypeInv, uxc_apply_patch PROVE TypeInv'
<1> DEFINE msg == [Msg("finish", NoCmd, 0) EXCEPT !.cur = uxc.cur]
<1>1. PICK o \in fwup_finish(chip["Uxc"], "delta") :
        /\ Answer(msg, o, Result(o.ok))
        /\ uxc' = [uxc EXCEPT !.cur = FALSE, !.pc =
                      IF uxc.defer THEN "loop" ELSE IF o.ok THEN "commit" ELSE "reset"]
  BY DEF uxc_apply_patch
<1>2. SoundOutcome(o)
  BY FinishSound, UxcSound
<1>3. msg \in Msgs
  BY MsgType, NoCmdType DEF MsgTypes, TypeInv, UxcType, Uxcs
<1>4. ChipInv' /\ ToCoreType' /\ FaultsType'
  BY <1>1, <1>2, <1>3, AnswerType, ResultType DEF SoundOutcome
<1>5. UxcType'
  BY <1>1 DEF TypeInv, UxcType, Uxcs
<1> QED BY <1>4, <1>5, UxcIdleType DEF uxc_apply_patch, TypeInv, ToUxcType

LEMMA UxcCommitPatchedType == ASSUME TypeInv, uxc_commit_patched PROVE TypeInv'
<1>1. PICK o \in fwup_commit_signature(chip["Uxc"]) :
          chip' = [chip EXCEPT !["Uxc"] = o.ch] /\ Spend(o.cost)
  BY DEF uxc_commit_patched
<1>2. SoundOutcome(o)
  BY CommitSound, UxcSound
<1>3. ChipInv' /\ FaultsType'
  BY <1>1, <1>2, SetChip, SpendType DEF TypeInv, SoundOutcome
<1>4. UxcType'
  BY DEF uxc_commit_patched, TypeInv, UxcType, Uxcs
<1> QED BY <1>3, <1>4, UxcIdleType DEF uxc_commit_patched, TypeInv, ToUxcType, ToCoreType

LEMMA UxcCommitType == ASSUME TypeInv, uxc_handle_commit_sig PROVE TypeInv'
<1>1. PICK o \in fwup_commit_signature(chip["Uxc"]) : Answer(toUxc[1], o, Result(o.ok))
  BY DEF uxc_handle_commit_sig
<1>2. ToUxcType' /\ toUxc[1] \in Msgs
  BY ReceivesType DEF uxc_handle_commit_sig
<1>3. SoundOutcome(o)
  BY CommitSound, UxcSound
<1>4. ChipInv' /\ ToCoreType' /\ FaultsType'
  BY <1>1, <1>2, <1>3, AnswerType, ResultType DEF SoundOutcome
<1> QED
  BY <1>2, <1>4, UxcIdleType DEF uxc_handle_commit_sig, TypeInv, UxcType

-----------------------------------------------------------------------------
(* Resets *)
LEMMA CoreBootsType ==
    ASSUME CoreBoots PROVE CoreType' /\ PcType' /\ ConfirmType'
BY CoreBootType, NoCmdType DEF CoreBoots, CoreType, PcType, PCs, ConfirmType

LEMMA EmptyQueue == <<>> \in Seq(Msgs)
OBVIOUS

LEMMA UnknownType == Unknown \in Reports
BY Constants DEF Unknown, Reports

LEMMA UxcResetType == ASSUME TypeInv, UxcReset PROVE TypeInv'
<1>1. ChipInv'
  BY BootSound, SetChip, UxcSound DEF UxcReset, TypeInv
<1>2. UxcType' /\ ToUxcType' /\ ToCoreType' /\ ReportedType' /\ FaultsType'
  BY UxcBootsType DEF UxcReset, TypeInv, ToCoreType, ReportedType
<1>3. CountsType'
  BY DEF UxcReset, TypeInv, CountsType
<1> QED
  BY <1>1, <1>2, <1>3
     DEF UxcReset, TypeInv, CoreType, PcType, StagedType, ConfirmType, AppType, GoalType

LEMMA CoreResetType == ASSUME TypeInv, CoreReset PROVE TypeInv'
<1>1. CoreType' /\ PcType' /\ ConfirmType'
  BY CoreBootsType DEF CoreReset
<1>2. CountsType'
  BY DEF CoreReset, TypeInv, CountsType
<1>3. UNCHANGED <<staged, app, goal>>
  BY DEF CoreReset
<1> SUFFICES ChipInv' /\ UxcType' /\ ToUxcType' /\ ToCoreType' /\ ReportedType' /\ FaultsType'
  BY <1>1, <1>2, <1>3 DEF TypeInv, StagedType, AppType, GoalType
<1>4. CASE /\ chip' = [chip EXCEPT !["Core"] = Boot(@)]
           /\ uxc' = [uxc EXCEPT !.cur = FALSE] /\ toUxc' = Retired(toUxc)
           /\ toCore' = <<>> /\ reported' = Unknown /\ Spend(0)
  <2>1. ChipInv'
    BY <1>4, BootSound, SetChip DEF TypeInv, ChipInv
  <2>2. UxcType'
    BY <1>4 DEF TypeInv, UxcType, Uxcs
  <2>4. ToUxcType'
    BY <1>4, RetiredType DEF TypeInv, ToUxcType
  <2>5. ToCoreType'
    BY <1>4, EmptyQueue DEF ToCoreType
  <2>3. ReportedType' /\ FaultsType'
    BY <1>4, UnknownType, SpendType DEF TypeInv, ReportedType
  <2> QED BY <2>1, <2>2, <2>3, <2>4, <2>5
<1>5. CASE UxcBoots(<<>>, Unknown) /\ chip' = [m \in Mcus |-> Boot(chip[m])]
  BY <1>5, EmptyQueue, UxcBootsType, UnknownType, BothBoot DEF TypeInv
<1> QED BY <1>4, <1>5 DEF CoreReset

LEMMA PowerCycleType == ASSUME TypeInv, PowerCycle PROVE TypeInv'
<1>1. CoreType' /\ PcType' /\ ConfirmType'
  BY CoreBootsType DEF PowerCycle
<1>2. UxcType' /\ ToUxcType' /\ ToCoreType' /\ ReportedType' /\ FaultsType'
  BY EmptyQueue, UxcBootsType, UnknownType DEF PowerCycle
<1>3. ChipInv'
  BY BothBoot DEF PowerCycle, TypeInv
<1> QED
  BY <1>1, <1>2, <1>3 DEF PowerCycle, TypeInv, StagedType, AppType, GoalType, CountsType

LEMMA NextType == TypeInv /\ [Next]_vars => TypeInv'
<1> SUFFICES ASSUME TypeInv, [Next]_vars PROVE TypeInv'
  OBVIOUS
<1>1. CASE CoreStep
  BY <1>1, AtomicCommitType, CoprocStartType, CoprocTransferType, CoprocFinishType,
     CommitRspType, StagedRemoveType, CoprocVersionType
     DEF CoreStep
<1>2. CASE UxcStep
  BY <1>2, UxcStartType, UxcTransferType, UxcFinishType, UxcApplyType,
     UxcCommitPatchedType, UxcCommitType
     DEF UxcStep
<1>3. CASE AppStep
  BY <1>3, AppStartType, ConfirmationResultType, TransferCmdType, FinishCmdType DEF AppStep
<1>4. CASE UNCHANGED vars
  BY <1>4
     DEF vars, TypeInv, ChipInv, CoreType, PcType, StagedType, UxcType, ToUxcType,
         ToCoreType, ReportedType, ConfirmType, AppType, GoalType, FaultsType,
         CountsType
<1> QED
  BY <1>1, <1>2, <1>3, <1>4, ConfirmationClearedType, UxcResetType, CoreResetType,
     PowerCycleType
     DEF Next

LEMMA TypeInvImplies == TypeInv => TypeOK /\ AlwaysBootable
<1> SUFFICES ASSUME TypeInv PROVE TypeOK /\ AlwaysBootable
  OBVIOUS
<1>1. chip \in [Mcus -> Chips] /\ AlwaysBootable
  BY DEF TypeInv, ChipInv, Sound, AlwaysBootable
<1> QED
  BY <1>1
     DEF TypeInv, TypeOK, Chips, CoreType, Cores, PcType, StagedType, Files, UxcType,
         Uxcs, ToUxcType, ToCoreType, ReportedType, Reports, GoalType, FaultsType,
         CountsType

LEMMA SpecTypeInv == Spec => []TypeInv
BY InitType, NextType, PTL DEF Spec

\* Every variable keeps its type, whatever is lost, repeated or cut off.
THEOREM TypeCorrect == Spec => []TypeOK
BY SpecTypeInv, TypeInvImplies, PTL

\* Both MCUs have a slot the boot loader accepts, after every step of an update
\* and after every fault and crash: fwup_target_slot is never the slot that
\* runs, and the boot loader picks a slot whose signature fits, so the slot
\* that runs is always valid.
THEOREM NeverBricked == Spec => []AlwaysBootable
BY SpecTypeInv, TypeInvImplies, PTL

-----------------------------------------------------------------------------
(***************************************************************************)
(* Core's commit.  Core's signature is written at three places:            *)
(*   - at the end of an update of Core alone, which is none that was begun *)
(*     with a deferred commit (SessionInv);                                *)
(*   - by the recovery from the file, when the UXC reports the version the *)
(*     file names (FileInv, BootInv);                                      *)
(*   - on the UXC's answer to the commit, if the UXC echoes sequence       *)
(*     numbers.  That the answer is to this commit, and that what the UXC  *)
(*     committed is the release it verified, needs the rest: which request *)
(*     is outstanding (LinkInv), what excludes what in Core's task         *)
(*     (PhaseInv), what is queued to the UXC and how far it and the app    *)
(*     are (LoadInv), where commits may be queued (CommitInv), and from    *)
(*     these what the UXC holds while Core's update is under way           *)
(*     (AliveInv) and when it has committed it (DoneInv).                  *)
(* The actions are first brought to a few forms, CoreDoes for Core's task, *)
(* UxcDoes for the UXC's, CoreRestarts, and CoreSide for what they do to   *)
(* Core's own update; the invariants are shown for these forms.            *)
(***************************************************************************)
Loads == {"body", "sig"}
Parts == {"body", "sig", "finish"}
StartKinds == {"start", "start_confirmed"}
FinishKinds == {"finish", "delta"}
IdleKinds == {"none", "cached_ok", "cached_error"}

\* What core.kind is while a request of the type is under way, and while its
\* answer is.
ReqKinds(type) ==
    CASE type = "start" -> StartKinds
      [] type \in Loads -> {"transfer"}
      [] OTHER -> {"finish"}
RspKinds(type) ==
    CASE type = "start" -> StartKinds
      [] type \in Loads -> {"transfer"}
      [] OTHER -> FinishKinds

\* A request, or an answer to it, with the sequence number that Core waits for.
Live(m) == m.cur /\ m.type # "commit"
NoLive(q) == \A i \in 1 .. Len(q) : ~Live(q[i])
PatchOK(r) == \A i \in 1 .. Len(r) : r[i].result = "patch" => r[i].type = "finish"

\* q and r: the requests and the answers that are queued; b: the UXC owes the second
\* answer of a delta update.  At most one of them is live, but for the two answers
\* of a delta update.
LinkOK(k, q, r, b) ==
    /\ \A i \in 1 .. Len(q) : Live(q[i]) => k \in ReqKinds(q[i].type)
    /\ \A i \in 1 .. Len(r) : Live(r[i]) => k \in RspKinds(r[i].type)
    /\ b => k \in FinishKinds
    /\ \A i, j \in 1 .. Len(q) : Live(q[i]) /\ Live(q[j]) => i = j
    /\ \A i \in 1 .. Len(q) : Live(q[i]) => ~b /\ NoLive(r)
    /\ \A i, j \in 1 .. Len(r) :
        i < j /\ Live(r[i]) /\ Live(r[j]) => r[i].result = "patch" /\ r[j].result # "patch"
    /\ b => \A i \in 1 .. Len(r) : Live(r[i]) => r[i].result = "patch"
    /\ PatchOK(r)
    /\ k = "delta" => \A i \in 1 .. Len(r) : Live(r[i]) => r[i].result # "patch"

-----------------------------------------------------------------------------
LEMMA MsgFields ==
    ASSUME NEW m \in Msgs
    PROVE  /\ m.type \in MsgTypes /\ m.cmd \in Cmds /\ m.cur \in BOOLEAN
           /\ m.result \in {"none", "ok", "error", "patch"}
           /\ Live(m) \in BOOLEAN
BY MsgsShape DEF Live

LEMMA KindsDiffer ==
    /\ \A t : ReqKinds(t) \subseteq RspKinds(t)
    /\ \A t : "delta" \notin ReqKinds(t)
    /\ \A t, k : k \in RspKinds(t) => k \notin IdleKinds
    /\ \A t : RspKinds(t) = FinishKinds \/ RspKinds(t) \cap FinishKinds = {}
    /\ RspKinds("finish") = FinishKinds /\ ReqKinds("finish") = {"finish"}
    /\ RspKinds("start") = StartKinds /\ ReqKinds("start") = StartKinds
    /\ \A t \in Loads : RspKinds(t) = {"transfer"} /\ ReqKinds(t) = {"transfer"}
BY DEF ReqKinds, RspKinds, Loads, StartKinds, FinishKinds, IdleKinds

\* Queues by index.
LEMMA TailAt ==
    ASSUME NEW q \in Seq(Msgs), q # << >>
    PROVE  /\ Tail(q) \in Seq(Msgs) /\ Len(Tail(q)) = Len(q) - 1 /\ Len(q) >= 1
           /\ \A i \in 1 .. Len(Tail(q)) : i + 1 \in 1 .. Len(q) /\ Tail(q)[i] = q[i + 1]
           /\ q[1] \in Msgs
OBVIOUS

LEMMA AppendAt ==
    ASSUME NEW q \in Seq(Msgs), NEW m \in Msgs
    PROVE  /\ Append(q, m) \in Seq(Msgs) /\ Len(Append(q, m)) = Len(q) + 1
           /\ \A i \in 1 .. Len(q) : Append(q, m)[i] = q[i]
           /\ Append(q, m)[Len(q) + 1] = m
           /\ \A i \in 1 .. Len(Append(q, m)) : i \in 1 .. Len(q) \/ i = Len(q) + 1
OBVIOUS

LEMMA RetiredAt ==
    ASSUME NEW q \in Seq(Msgs)
    PROVE  /\ Retired(q) \in Seq(Msgs) /\ Len(Retired(q)) = Len(q)
           /\ \A i \in 1 .. Len(q) :
                /\ Retired(q)[i].type = q[i].type /\ Retired(q)[i].cmd = q[i].cmd
                /\ Retired(q)[i].result = q[i].result /\ ~Live(Retired(q)[i])
<1>1. Retired(q) \in Seq(Msgs)
  BY RetiredType
<1>2. DOMAIN q = 1 .. Len(q) /\ DOMAIN Retired(q) = 1 .. Len(q)
  BY DEF Retired
<1>3. Len(Retired(q)) = Len(q)
  BY <1>1, <1>2
<1>4. ASSUME NEW i \in 1 .. Len(q)
      PROVE  /\ Retired(q)[i].type = q[i].type /\ Retired(q)[i].cmd = q[i].cmd
             /\ Retired(q)[i].result = q[i].result /\ ~Live(Retired(q)[i])
  <2>1. Retired(q)[i] = [q[i] EXCEPT !.cur = FALSE] /\ q[i] \in Msgs
    BY <1>2 DEF Retired
  <2> QED BY <2>1, MsgsShape DEF Live
<1> QED BY <1>1, <1>3, <1>4

LEMMA EmptyAt == << >> \in Seq(Msgs) /\ Len(<< >>) = 0 /\ NoLive(<< >>) /\ PatchOK(<< >>)
BY DEF NoLive, PatchOK

-----------------------------------------------------------------------------
(* The link, by the kind of change *)
LEMMA LinkIdle ==
    ASSUME NEW k \in IdleKinds, NEW q, NEW r, NEW b \in BOOLEAN, LinkOK(k, q, r, b)
    PROVE  NoLive(q) /\ NoLive(r) /\ b = FALSE /\ PatchOK(r)
<1>1. \A t : k \notin RspKinds(t) /\ k \notin ReqKinds(t) /\ k \notin FinishKinds
  BY KindsDiffer DEF FinishKinds, IdleKinds
<1> QED BY <1>1 DEF LinkOK, NoLive

LEMMA LinkFree ==
    ASSUME NEW k, NEW q, NEW r, NoLive(q), NoLive(r), PatchOK(r)
    PROVE  LinkOK(k, q, r, FALSE)
BY DEF LinkOK, NoLive

LEMMA LinkSend ==
    ASSUME NEW q \in Seq(Msgs), NEW r \in Seq(Msgs), NoLive(q), NoLive(r), PatchOK(r),
           NEW m \in Msgs, NEW k \in ReqKinds(m.type)
    PROVE  LinkOK(k, Append(q, m), r, FALSE)
<1>1. \A i \in 1 .. Len(Append(q, m)) : Live(Append(q, m)[i]) => i = Len(q) + 1
  BY AppendAt DEF NoLive
<1>2. Append(q, m)[Len(q) + 1] = m /\ k # "delta"
  BY AppendAt, KindsDiffer
<1> QED BY <1>1, <1>2 DEF LinkOK, NoLive

LEMMA LinkStale ==
    ASSUME NEW k, NEW q \in Seq(Msgs), NEW r \in Seq(Msgs), NEW b, LinkOK(k, q, r, b),
           NEW m \in Msgs, ~Live(m)
    PROVE  LinkOK(k, Append(q, m), r, b)
<1>1. \A i \in 1 .. Len(Append(q, m)) :
        Live(Append(q, m)[i]) => i \in 1 .. Len(q) /\ Append(q, m)[i] = q[i]
  BY AppendAt
<1> QED BY <1>1 DEF LinkOK

LEMMA LinkStaleAnswer ==
    ASSUME NEW k, NEW q \in Seq(Msgs), NEW r \in Seq(Msgs), NEW b, LinkOK(k, q, r, b),
           NEW m \in Msgs, ~Live(m), m.result = "patch" => m.type = "finish"
    PROVE  LinkOK(k, q, Append(r, m), b)
<1>1. \A i \in 1 .. Len(Append(r, m)) :
        Live(Append(r, m)[i]) => i \in 1 .. Len(r) /\ Append(r, m)[i] = r[i]
  BY AppendAt
<1>2. PatchOK(Append(r, m))
  BY AppendAt DEF LinkOK, PatchOK
<1>3. NoLive(r) => NoLive(Append(r, m))
  BY <1>1 DEF NoLive
<1> QED BY <1>1, <1>2, <1>3 DEF LinkOK

LEMMA LinkDrop ==
    ASSUME NEW k, NEW q, NEW r \in Seq(Msgs), NEW b, LinkOK(k, q, r, b), r # << >>
    PROVE  LinkOK(k, q, Tail(r), b)
<1>1. \A i \in 1 .. Len(Tail(r)) : i + 1 \in 1 .. Len(r) /\ Tail(r)[i] = r[i + 1]
  BY TailAt
<1>2. PatchOK(Tail(r)) /\ (NoLive(r) => NoLive(Tail(r)))
  BY <1>1 DEF LinkOK, PatchOK, NoLive
<1>3. \A i, j \in 1 .. Len(Tail(r)) :
        i < j /\ Live(Tail(r)[i]) /\ Live(Tail(r)[j])
          => Tail(r)[i].result = "patch" /\ Tail(r)[j].result # "patch"
  <2> SUFFICES ASSUME NEW i \in 1 .. Len(Tail(r)), NEW j \in 1 .. Len(Tail(r)), i < j,
                      Live(Tail(r)[i]), Live(Tail(r)[j])
               PROVE  Tail(r)[i].result = "patch" /\ Tail(r)[j].result # "patch"
    OBVIOUS
  <2>1. i + 1 < j + 1
    OBVIOUS
  <2> QED BY <1>1, <2>1 DEF LinkOK
<1> QED BY <1>1, <1>2, <1>3 DEF LinkOK

\* The answer that Core takes was the last one that was live.
LEMMA LinkTake ==
    ASSUME NEW k, NEW q, NEW r \in Seq(Msgs), NEW b \in BOOLEAN, LinkOK(k, q, r, b),
           r # << >>, Live(r[1]), r[1].result # "patch"
    PROVE  NoLive(q) /\ NoLive(Tail(r)) /\ b = FALSE /\ PatchOK(Tail(r))
<1>1. /\ \A i \in 1 .. Len(Tail(r)) : i + 1 \in 1 .. Len(r) /\ Tail(r)[i] = r[i + 1]
      /\ 1 \in 1 .. Len(r)
  BY TailAt
<1>2. NoLive(q)
  BY <1>1 DEF LinkOK, NoLive
<1>3. NoLive(Tail(r))
  BY <1>1 DEF LinkOK, NoLive
<1>4. b = FALSE
  BY <1>1 DEF LinkOK
<1>5. PatchOK(Tail(r))
  BY <1>1 DEF LinkOK, PatchOK
<1> QED BY <1>2, <1>3, <1>4, <1>5

\* The first answer of a delta update: the second is to come.
LEMMA LinkTakePatch ==
    ASSUME NEW k, NEW q, NEW r \in Seq(Msgs), NEW b \in BOOLEAN, LinkOK(k, q, r, b),
           r # << >>, Live(r[1]), r[1].result = "patch"
    PROVE  /\ k = "finish" /\ k # "delta"
           /\ LinkOK("delta", q, Tail(r), b)
<1>1. /\ \A i \in 1 .. Len(Tail(r)) : i + 1 \in 1 .. Len(r) /\ Tail(r)[i] = r[i + 1]
      /\ 1 \in 1 .. Len(r)
  BY TailAt
<1>2. NoLive(q)
  BY <1>1 DEF LinkOK, NoLive
<1>3. \A i \in 1 .. Len(Tail(r)) : Live(Tail(r)[i]) => Tail(r)[i].result # "patch"
  BY <1>1 DEF LinkOK
<1>4. k \in FinishKinds /\ k # "delta"
  BY <1>1, KindsDiffer DEF LinkOK, PatchOK
<1>5. \A i \in 1 .. Len(Tail(r)) : Live(Tail(r)[i]) => "delta" \in RspKinds(Tail(r)[i].type)
  <2> SUFFICES ASSUME NEW i \in 1 .. Len(Tail(r)), Live(Tail(r)[i])
               PROVE  "delta" \in RspKinds(Tail(r)[i].type)
    OBVIOUS
  <2>1. k \in RspKinds(Tail(r)[i].type)
    BY <1>1 DEF LinkOK
  <2> QED BY <1>4, <2>1, KindsDiffer DEF FinishKinds
<1>6. PatchOK(Tail(r))
  BY <1>1 DEF LinkOK, PatchOK
<1>7. \A i \in 1 .. Len(Tail(r)) : ~Live(Tail(r)[i]) \/ ~b
  BY <1>1, <1>3 DEF LinkOK
<1>8. \A i, j \in 1 .. Len(Tail(r)) : i < j => ~Live(Tail(r)[i]) \/ ~Live(Tail(r)[j])
  <2> SUFFICES ASSUME NEW i \in 1 .. Len(Tail(r)), NEW j \in 1 .. Len(Tail(r)), i < j,
                      Live(Tail(r)[i]), Live(Tail(r)[j])
               PROVE  FALSE
    OBVIOUS
  <2>1. i + 1 < j + 1 /\ i + 1 \in 1 .. Len(r) /\ j + 1 \in 1 .. Len(r)
    BY <1>1
  <2>2. r[i + 1].result = "patch"
    BY <1>1, <2>1 DEF LinkOK
  <2> QED BY <1>1, <1>3, <2>2
<1> QED BY <1>2, <1>3, <1>4, <1>5, <1>6, <1>7, <1>8 DEF LinkOK, NoLive, FinishKinds

\* The UXC takes the request q[1]; when it is live nothing else is.
LEMMA LinkHandle ==
    ASSUME NEW k, NEW q \in Seq(Msgs), NEW r \in Seq(Msgs), LinkOK(k, q, r, FALSE), q # << >>
    PROVE  /\ LinkOK(k, Tail(q), r, FALSE)
           /\ Live(q[1]) => NoLive(Tail(q)) /\ NoLive(r) /\ k \in ReqKinds(q[1].type)
<1>1. /\ \A i \in 1 .. Len(Tail(q)) : i + 1 \in 1 .. Len(q) /\ Tail(q)[i] = q[i + 1]
      /\ 1 \in 1 .. Len(q)
  BY TailAt
<1>2. ASSUME Live(q[1])
      PROVE  NoLive(Tail(q)) /\ NoLive(r) /\ k \in ReqKinds(q[1].type)
  <2>1. \A i \in 1 .. Len(Tail(q)) : i + 1 # 1
    OBVIOUS
  <2> QED BY <1>1, <1>2, <2>1 DEF LinkOK, NoLive
<1>3. \A i, j \in 1 .. Len(Tail(q)) : Live(Tail(q)[i]) /\ Live(Tail(q)[j]) => i = j
  <2> SUFFICES ASSUME NEW i \in 1 .. Len(Tail(q)), NEW j \in 1 .. Len(Tail(q)),
                      Live(Tail(q)[i]), Live(Tail(q)[j])
               PROVE  i = j
    OBVIOUS
  <2>1. i + 1 = j + 1
    BY <1>1 DEF LinkOK
  <2> QED BY <2>1
<1> QED BY <1>1, <1>2, <1>3 DEF LinkOK

\* A live answer, when no other one but a patch is live and no request is.
LEMMA LinkAnswer ==
    ASSUME NEW k, NEW q, NEW r \in Seq(Msgs), NoLive(q), PatchOK(r),
           \A i \in 1 .. Len(r) : Live(r[i]) => k \in RspKinds(r[i].type),
           \A i, j \in 1 .. Len(r) : i < j => ~Live(r[i]) \/ ~Live(r[j]),
           \A i \in 1 .. Len(r) : Live(r[i]) => r[i].result = "patch" /\ k # "delta",
           NEW m \in Msgs, k \in RspKinds(m.type), m.result # "patch"
    PROVE  LinkOK(k, q, Append(r, m), FALSE)
<1>1. /\ \A i \in 1 .. Len(Append(r, m)) : i \in 1 .. Len(r) \/ i = Len(r) + 1
      /\ \A i \in 1 .. Len(r) : Append(r, m)[i] = r[i]
      /\ Append(r, m)[Len(r) + 1] = m
  BY AppendAt
<1>2. PatchOK(Append(r, m))
  BY <1>1 DEF PatchOK
<1>3. \A i, j \in 1 .. Len(Append(r, m)) :
        i < j /\ Live(Append(r, m)[i]) /\ Live(Append(r, m)[j])
          => Append(r, m)[i].result = "patch" /\ Append(r, m)[j].result # "patch"
  <2> SUFFICES ASSUME NEW i \in 1 .. Len(Append(r, m)), NEW j \in 1 .. Len(Append(r, m)),
                      i < j, Live(Append(r, m)[i]), Live(Append(r, m)[j])
               PROVE  Append(r, m)[i].result = "patch" /\ Append(r, m)[j].result # "patch"
    OBVIOUS
  <2>1. i \in 1 .. Len(r)
    BY <1>1
  <2>2. j = Len(r) + 1
    BY <1>1, <2>1
  <2> QED BY <1>1, <2>1, <2>2
<1> QED BY <1>1, <1>2, <1>3 DEF LinkOK, NoLive

\* The same for a patch, after which the UXC owes the second answer.
LEMMA LinkAnswerPatch ==
    ASSUME NEW q, NEW r \in Seq(Msgs), NoLive(q), NoLive(r), PatchOK(r),
           NEW m \in Msgs, m.type = "finish", m.result = "patch"
    PROVE  LinkOK("finish", q, Append(r, m), TRUE)
<1>1. /\ \A i \in 1 .. Len(Append(r, m)) : i \in 1 .. Len(r) \/ i = Len(r) + 1
      /\ \A i \in 1 .. Len(r) : Append(r, m)[i] = r[i]
      /\ Append(r, m)[Len(r) + 1] = m
  BY AppendAt
<1>2. PatchOK(Append(r, m))
  BY <1>1 DEF PatchOK
<1>3. \A i \in 1 .. Len(Append(r, m)) : Live(Append(r, m)[i]) => i = Len(r) + 1
  BY <1>1 DEF NoLive
<1> QED BY <1>1, <1>2, <1>3, KindsDiffer DEF LinkOK, NoLive, FinishKinds

-----------------------------------------------------------------------------
(* What the actions do, as far as the link and the UXC are concerned *)
SameCommit == /\ core'.awaiting_commit = core.awaiting_commit
              /\ core'.uxc_verified = core.uxc_verified
              /\ core'.reset_pending = core.reset_pending
SameDelta == core'.awaiting_delta = core.awaiting_delta
SameUxc == UNCHANGED <<uxc, echo>> /\ chip'["Uxc"] = chip["Uxc"]
OffUxc(a) == a.cmd.mcu = "Core" \/ a.step \in {"idle", "next"}

\* A step that concerns Core and the app only.
LocalApp ==
    \/ app' = app /\ core'.kind = core.kind
    \/ OffUxc(app')
    \/ app'.step = "confirm" /\ core'.kind = "none"
    \/ /\ app.cmd.mcu = "Uxc" /\ app.step = "confirm" /\ core.kind \in IdleKinds \ {"none"}
       /\ app'.cmd = app.cmd /\ app'.step = "open"
LocalPc ==
    \/ pc' = pc /\ (pc = "send_commit" => app' = app)
    \/ /\ pc = "loop" /\ pc' = "send_commit"
       /\ core.uxc_verified /\ ~core.reset_pending /\ app'.step = "idle"
    \/ pc' \notin {"loop", "send_commit"}
Local ==
    /\ SameUxc /\ UNCHANGED <<toUxc, toCore>>
    /\ SameCommit /\ SameDelta
    /\ core'.kind = core.kind \/ (core.kind \in IdleKinds /\ core'.kind = "none")
    /\ LocalApp /\ LocalPc

\* What the app waits for while a request of the type is sent.
Asks(type) ==
    /\ app'.cmd.mcu = "Uxc"
    /\ \/ type = "start" /\ app'.step \in {"start", "confirm"}
       \/ type = "body" /\ app' = app /\ app.step = "open"
       \/ type = "sig" /\ app' = app /\ app.step = "body"
       \/ type = "finish" /\ app' = app /\ app.step = "sig"

\* Core sends a request to the UXC, or fails to.
Asking(type) ==
    /\ SameUxc /\ UNCHANGED <<toCore, pc>> /\ SameDelta
    /\ pc = "loop" /\ ~core.reset_pending /\ core.kind \in IdleKinds
    /\ core'.awaiting_commit = core.awaiting_commit
    /\ core'.uxc_verified = core.uxc_verified
    /\ Asks(type)
Request(type) ==
    /\ Asking(type)
    /\ toUxc' = Append(toUxc, Msg(type, app'.cmd, 0))
    /\ core'.kind \in ReqKinds(type)
    /\ core'.reset_pending = (type = "finish")
LostRequest(type) ==
    /\ Asking(type)
    /\ toUxc' \in {toUxc, Append(toUxc, [Msg(type, app'.cmd, 0) EXCEPT !.cur = FALSE])}
    /\ core'.kind = "none" /\ core'.reset_pending = core.reset_pending

ReqTypes == {"start", "body", "sig", "finish"}

LEMMA CoreFields ==
    ASSUME TypeInv
    PROVE  /\ core \in Cores /\ uxc \in Uxcs /\ app \in Apps /\ confirm \in Cmds
           /\ toUxc \in Seq(Msgs) /\ toCore \in Seq(Msgs)
           /\ core.reset_pending \in BOOLEAN /\ core.awaiting_commit \in BOOLEAN
           /\ core.uxc_verified \in BOOLEAN /\ core.awaiting_delta \in BOOLEAN
           /\ core.defer \in BOOLEAN /\ core.pending \in BOOLEAN
           /\ uxc.cur \in BOOLEAN /\ core.kind \in Kinds
BY DEF TypeInv, CoreType, UxcType, AppType, ConfirmType, ToUxcType, ToCoreType, Cores, Uxcs

LEMMA ChipUpdate ==
    ASSUME TypeInv, NEW c
    PROVE  /\ [chip EXCEPT !["Core"] = c]["Uxc"] = chip["Uxc"]
           /\ [chip EXCEPT !["Core"] = c]["Core"] = c
           /\ [chip EXCEPT !["Uxc"] = c]["Core"] = chip["Core"]
           /\ [chip EXCEPT !["Uxc"] = c]["Uxc"] = c
<1>1. DOMAIN chip = {"Core", "Uxc"}
  BY DEF TypeInv, ChipInv
<1> QED BY <1>1

LEMMA SendStartDoes ==
    ASSUME TypeInv, NEW cmd \in Cmds, cmd.mcu = "Uxc", Accepts,
           fwup_task_send_coproc_fwup_start_cmd(cmd),
           UNCHANGED <<pc, staged, uxc, echo, toCore, reported, crashes>>
    PROVE  Local \/ Request("start") \/ LostRequest("start")
<1> DEFINE c1 == [core EXCEPT !.kind = "none", !.defer = cmd.defer]
<1> DEFINE forward == [c1 EXCEPT !.confirmed = cmd.v, !.kind = "start", !.coproc = TRUE]
<1> DEFINE failed == [c1 EXCEPT !.confirmed = 0, !.defer = FALSE]
<1>1. core \in Cores
  BY CoreFields
<1>2. /\ c1.kind = "none" /\ forward.kind = "start" /\ failed.kind = "none"
      /\ \A c \in {c1, forward, failed} :
            /\ c.awaiting_commit = core.awaiting_commit
            /\ c.uxc_verified = core.uxc_verified
            /\ c.reset_pending = core.reset_pending
            /\ c.awaiting_delta = core.awaiting_delta
  BY <1>1 DEF Cores
<1> HIDE DEF c1, forward, failed
<1>3. core.kind \in IdleKinds /\ SameUxc /\ pc = "loop" /\ core.reset_pending = FALSE
  BY CoreFields DEF fwup_task_send_coproc_fwup_start_cmd, IdleKinds, SameUxc, Accepts, Loop
<1>4. CASE NeedsConfirmation(cmd.v)
  <2>1. /\ core' = c1 /\ app' = [cmd |-> cmd, step |-> "confirm"]
        /\ UNCHANGED toUxc
    BY <1>4 DEF fwup_task_send_coproc_fwup_start_cmd, c1
  <2>2. app'.step = "confirm"
    BY <2>1
  <2>3. Local
    BY <1>2, <1>3, <2>1, <2>2 DEF Local, SameCommit, SameDelta, LocalApp, LocalPc
  <2> QED BY <2>3
<1>5. CASE ~NeedsConfirmation(cmd.v)
  <2>1. app' = [cmd |-> cmd, step |-> "start"]
    BY <1>5 DEF fwup_task_send_coproc_fwup_start_cmd
  <2>2. \/ Sent(Msg("start", cmd, 0)) /\ core' = forward
        \/ NotSent(Msg("start", cmd, 0)) /\ core' = failed
    BY <1>5 DEF fwup_task_send_coproc_fwup_start_cmd, c1, forward, failed
  <2>3. app'.cmd = cmd /\ app'.step = "start"
    BY <2>1
  <2>4. Asking("start")
    BY <1>2, <1>3, <2>2, <2>3 DEF Asking, Asks, SameDelta
  <2>5. Request("start") \/ LostRequest("start")
    BY <1>2, <1>3, <2>2, <2>3, <2>4, KindsDiffer
       DEF Request, LostRequest, Sent, NotSent, StartKinds
  <2> QED BY <2>5
<1> QED BY <1>4, <1>5

\* fwup_start on Core changes neither the link nor the UXC.
LEMMA CoreStartDoes ==
    ASSUME TypeInv, NEW c1 \in Cores, NEW cmd \in Cmds, cmd.mcu = "Core", NEW b \in BOOLEAN,
           CoreStart(c1, cmd, b),
           c1.kind = core.kind, c1.awaiting_delta = core.awaiting_delta,
           c1.awaiting_commit = core.awaiting_commit, c1.uxc_verified = core.uxc_verified,
           c1.reset_pending = core.reset_pending,
           pc = "loop", UNCHANGED <<pc, uxc, echo, toUxc, toCore>>
    PROVE  Local
<1>1. PICK o \in fwup_start(chip["Core"], cmd) :
        /\ chip' = [chip EXCEPT !["Core"] = o.ch]
        /\ core' = [c1 EXCEPT !.pending = o.ok,
                              !.confirmed = IF o.ok \/ ~b THEN @ ELSE 0]
        /\ app' = [cmd |-> cmd, step |-> IF o.ok THEN "open" ELSE "idle"]
  BY DEF CoreStart
<1>2. SameUxc
  BY <1>1, ChipUpdate DEF SameUxc
<1>3. /\ core'.kind = core.kind /\ SameDelta /\ SameCommit
  BY <1>1 DEF Cores, SameDelta, SameCommit
<1>4. OffUxc(app')
  BY <1>1 DEF OffUxc
<1> QED BY <1>2, <1>3, <1>4 DEF Local, LocalApp, LocalPc

LEMMA HandleStartDoes ==
    ASSUME TypeInv, NEW cmd \in Cmds, cmd.mcu = "Core", Accepts,
           fwup_task_port_handle_start_cmd(cmd),
           UNCHANGED <<pc, staged, uxc, echo, toCore, reported, crashes>>
    PROVE  Local
<1> DEFINE c1 == [core EXCEPT !.defer = cmd.defer \/ core.uxc_verified]
<1> DEFINE c0 == [core EXCEPT !.defer = FALSE]
<1>1. core \in Cores /\ cmd.defer \in BOOLEAN /\ core.uxc_verified \in BOOLEAN
  BY CoreFields DEF Cmds
<1>2. /\ c1 \in Cores
      /\ \A c \in {c0, c1} :
            /\ c.kind = core.kind
            /\ c.awaiting_commit = core.awaiting_commit
            /\ c.uxc_verified = core.uxc_verified
            /\ c.reset_pending = core.reset_pending
            /\ c.awaiting_delta = core.awaiting_delta
  BY <1>1 DEF Cores
<1> HIDE DEF c1, c0
<1>3. pc = "loop" /\ UNCHANGED toUxc
  BY DEF Accepts, Loop, fwup_task_port_handle_start_cmd
<1>4. CASE CoreStart(c1, cmd, FALSE)
  BY <1>2, <1>3, <1>4, CoreStartDoes
<1>5. CASE core' \in {c0, c1} /\ (app' = Idle \/ app' = [cmd |-> cmd, step |-> "confirm"])
           /\ UNCHANGED chip
  <2>1. OffUxc(app')
    BY <1>5 DEF OffUxc, Idle
  <2>2. core'.kind = core.kind /\ SameDelta /\ SameCommit
    BY <1>2, <1>5 DEF SameDelta, SameCommit
  <2> QED BY <1>3, <1>5, <2>1, <2>2 DEF Local, LocalApp, LocalPc, SameUxc
<1> QED BY <1>4, <1>5 DEF fwup_task_port_handle_start_cmd, c0, c1

AnyRequest == \E type \in ReqTypes : Request(type) \/ LostRequest(type)

LEMMA AppStartDoes == ASSUME TypeInv, AppStart PROVE Local \/ AnyRequest
<1>1. PICK cmd \in [mcu : Mcus, v : Releases, mode : Modes, defer : BOOLEAN] :
        /\ Accepts
        /\ \/ cmd.mcu = "Uxc" /\ fwup_task_send_coproc_fwup_start_cmd(cmd)
           \/ cmd.mcu = "Core" /\ fwup_task_port_handle_start_cmd(cmd)
        /\ UNCHANGED <<pc, staged, uxc, echo, toCore, reported, crashes>>
  BY DEF AppStart
<1>2. cmd \in Cmds
  BY Constants DEF Cmds
<1>3. CASE cmd.mcu = "Uxc" /\ fwup_task_send_coproc_fwup_start_cmd(cmd)
  BY <1>1, <1>2, <1>3, SendStartDoes DEF AnyRequest, ReqTypes
<1>4. CASE cmd.mcu = "Core" /\ fwup_task_port_handle_start_cmd(cmd)
  BY <1>1, <1>2, <1>4, HandleStartDoes
<1> QED BY <1>1, <1>3, <1>4

LEMMA ConfirmationResultDoes ==
    ASSUME TypeInv, fwup_handle_confirmation_result PROVE Local \/ AnyRequest
<1> DEFINE c1 == [core EXCEPT !.confirmed = confirm.v]
<1> DEFINE msg == Msg("start", confirm, 0)
<1>1. core \in Cores /\ confirm \in Cmds /\ confirm.v \in 0 .. MaxVersion
  BY CoreFields DEF Cmds
<1>2. /\ c1 \in Cores
      /\ c1.kind = core.kind
      /\ c1.awaiting_commit = core.awaiting_commit
      /\ c1.uxc_verified = core.uxc_verified
      /\ c1.reset_pending = core.reset_pending
      /\ c1.awaiting_delta = core.awaiting_delta
  BY <1>1 DEF Cores
<1>3. /\ pc = "loop" /\ UNCHANGED <<pc, uxc, echo, toCore>>
      /\ app.step = "confirm" /\ app.cmd = confirm
  BY DEF fwup_handle_confirmation_result, Loop
<1>4. CASE core.reset_pending
  <2>1. app' = Idle /\ UNCHANGED <<core, chip, toUxc>>
    BY <1>4 DEF fwup_handle_confirmation_result
  <2>2. OffUxc(app')
    BY <2>1 DEF OffUxc, Idle
  <2>3. Local
    BY <1>3, <2>1, <2>2 DEF Local, LocalApp, LocalPc, SameUxc, SameCommit, SameDelta
  <2> QED BY <2>3
<1>5. CASE ~core.reset_pending /\ confirm.mcu = "Core"
  <2>1. CoreStart(c1, confirm, TRUE) /\ UNCHANGED toUxc
    BY <1>5 DEF fwup_handle_confirmation_result
  <2> HIDE DEF c1
  <2> QED BY <1>1, <1>2, <1>3, <1>5, <2>1, CoreStartDoes
<1>6. CASE ~core.reset_pending /\ confirm.mcu = "Uxc"
  <2>0. chip' = chip
    BY <1>6 DEF fwup_handle_confirmation_result
  <2>1. CASE core.kind \in {"cached_ok", "cached_error"}
    <3>1. /\ core' = [c1 EXCEPT !.kind = "none"] /\ UNCHANGED toUxc
          /\ app' = IF core.kind = "cached_ok" THEN [app EXCEPT !.step = "open"] ELSE Idle
      BY <1>6, <2>1 DEF fwup_handle_confirmation_result
    <3>2. core'.kind = "none" /\ SameCommit /\ SameDelta
      BY <1>1, <1>2, <3>1 DEF Cores, SameCommit, SameDelta
    <3>3. OffUxc(app') \/ (app'.cmd = app.cmd /\ app'.step = "open")
      <4>1. app \in Apps
        BY CoreFields
      <4> QED BY <3>1, <4>1 DEF OffUxc, Idle, Apps
    <3>4. Local
      BY <1>3, <1>6, <2>0, <2>1, <3>1, <3>2, <3>3
         DEF Local, LocalApp, LocalPc, SameUxc, IdleKinds
    <3> QED BY <3>4
  <2>2. CASE core.kind \in {"start", "start_confirmed", "transfer", "finish", "delta"}
    <3>1. core' = c1 /\ UNCHANGED <<app, toUxc>>
      BY <1>6, <2>2 DEF fwup_handle_confirmation_result
    <3>2. Local
      BY <1>2, <1>3, <2>0, <3>1 DEF Local, LocalApp, LocalPc, SameUxc, SameCommit, SameDelta
    <3> QED BY <3>2
  <2>3. CASE core.kind = "none"
    <3>1. /\ UNCHANGED app
          /\ \/ Sent(msg) /\ core' = [c1 EXCEPT !.kind = "start_confirmed", !.coproc = TRUE]
             \/ NotSent(msg) /\ core' = [c1 EXCEPT !.confirmed = 0]
      BY <1>6, <2>3 DEF fwup_handle_confirmation_result
    <3>2. /\ SameCommit /\ SameDelta
          /\ \/ Sent(msg) /\ core'.kind = "start_confirmed"
             \/ NotSent(msg) /\ core'.kind = "none"
      BY <1>1, <1>2, <2>3, <3>1 DEF Cores, SameCommit, SameDelta
    <3>3. Asking("start")
      BY <1>3, <1>6, <2>0, <2>3, <3>1, <3>2
         DEF Asking, Asks, SameUxc, IdleKinds, SameCommit
    <3>4. Request("start") \/ LostRequest("start")
      <4>1. core.reset_pending = FALSE
        BY <1>6, CoreFields
      <4> QED BY <1>3, <3>1, <3>2, <3>3, <4>1, KindsDiffer
         DEF Request, LostRequest, Sent, NotSent, SameCommit, StartKinds
    <3> QED BY <3>4 DEF AnyRequest, ReqTypes
  <2>4. core.kind \in Kinds
    BY CoreFields
  <2> QED BY <2>1, <2>2, <2>3, <2>4 DEF Kinds
<1> QED
  <2>1. confirm.mcu = "Core" \/ confirm.mcu = "Uxc"
    BY <1>1 DEF Cmds
  <2> QED BY <1>4, <1>5, <1>6, <2>1

LEMMA ForwardDoes ==
    ASSUME TypeInv, NEW type \in {"body", "sig", "finish"},
           NEW kind, kind = (IF type = "finish" THEN "finish" ELSE "transfer"),
           Accepts, ForwardToUxc(type, kind),
           app.step = (IF type = "body" THEN "open" ELSE IF type = "sig" THEN "body" ELSE "sig"),
           UNCHANGED <<uxc, echo, toCore>>
    PROVE  AnyRequest
<1> DEFINE c1 == [core EXCEPT !.kind = kind]
<1> DEFINE c2 == IF kind = "finish" THEN [c1 EXCEPT !.reset_pending = TRUE] ELSE c1
<1> DEFINE failed == [core EXCEPT !.confirmed = 0, !.coproc = FALSE]
<1>1. core \in Cores /\ core.reset_pending = FALSE /\ pc = "loop" /\ core.kind = "none"
  BY CoreFields DEF Accepts, Loop, ForwardToUxc
<1>2. /\ app.cmd.mcu = "Uxc" /\ UNCHANGED <<chip, pc, app>>
      /\ \/ Sent(Msg(type, app.cmd, 0)) /\ core' = c2
         \/ NotSent(Msg(type, app.cmd, 0)) /\ core' = failed
  BY DEF ForwardToUxc
<1>3. /\ \A c \in {c2, failed} :
            /\ c.awaiting_commit = core.awaiting_commit
            /\ c.uxc_verified = core.uxc_verified
            /\ c.awaiting_delta = core.awaiting_delta
      /\ c2.kind = kind /\ failed.kind = "none"
      /\ failed.reset_pending = core.reset_pending
      /\ c2.reset_pending = (type = "finish")
  BY <1>1, ZenonT(60) DEF Cores
<1> HIDE DEF c2, failed
<1>4. Asking(type)
  BY <1>1, <1>2, <1>3 DEF Asking, Asks, SameUxc, SameDelta, IdleKinds
<1>5. kind \in ReqKinds(type)
  BY KindsDiffer DEF Loads
<1>6. Request(type) \/ LostRequest(type)
  BY <1>2, <1>3, <1>4, <1>5 DEF Request, LostRequest, Sent, NotSent
<1> QED BY <1>6 DEF AnyRequest, ReqTypes

LEMMA TransferCmdDoes ==
    ASSUME TypeInv, fwup_task_handle_transfer_cmd PROVE Local \/ AnyRequest
<1>1. PICK part \in {"body", "sig"} :
        /\ Accepts /\ app.step = (IF part = "body" THEN "open" ELSE "body")
        /\ \/ ForwardToUxc(part, "transfer")
           \/ \E o \in fwup_transfer(chip["Core"], part, app.cmd) :
                /\ app.cmd.mcu = "Core"
                /\ chip' = [chip EXCEPT !["Core"] = o.ch]
                /\ Told(IF o.ok THEN part ELSE "idle", o.cost)
                /\ UNCHANGED <<core, toUxc, staged, pc>>
        /\ UNCHANGED <<uxc, echo, toCore>>
  BY DEF fwup_task_handle_transfer_cmd
<1>2. CASE ForwardToUxc(part, "transfer")
  BY <1>1, <1>2, ForwardDoes
<1>3. CASE \E o \in fwup_transfer(chip["Core"], part, app.cmd) :
                /\ app.cmd.mcu = "Core"
                /\ chip' = [chip EXCEPT !["Core"] = o.ch]
                /\ Told(IF o.ok THEN part ELSE "idle", o.cost)
                /\ UNCHANGED <<core, toUxc, staged, pc>>
  <2>1. PICK o \in fwup_transfer(chip["Core"], part, app.cmd) :
                /\ app.cmd.mcu = "Core"
                /\ chip' = [chip EXCEPT !["Core"] = o.ch]
                /\ Told(IF o.ok THEN part ELSE "idle", o.cost)
                /\ UNCHANGED <<core, toUxc, staged, pc>>
    BY <1>3
  <2>2. SameUxc
    BY <1>1, <2>1, ChipUpdate DEF SameUxc
  <2>3. app'.cmd = app.cmd
    BY <2>1, CoreFields DEF Told, Apps
  <2>4. OffUxc(app') /\ pc = "loop"
    BY <1>1, <2>1, <2>3 DEF OffUxc, Accepts, Loop
  <2>5. Local
    BY <1>1, <2>1, <2>2, <2>4 DEF Local, LocalApp, LocalPc, SameCommit, SameDelta
  <2> QED BY <2>5
<1> QED BY <1>1, <1>2, <1>3

LEMMA FinishCmdDoes ==
    ASSUME TypeInv, fwup_task_handle_finish_cmd PROVE Local \/ AnyRequest
<1>1. Accepts /\ app.step = "sig" /\ UNCHANGED <<uxc, echo, toCore>>
  BY DEF fwup_task_handle_finish_cmd
<1>2. CASE ForwardToUxc("finish", "finish")
  BY <1>1, <1>2, ForwardDoes
<1>3. CASE ~ForwardToUxc("finish", "finish")
  <2>1. /\ app' = Idle /\ UNCHANGED <<core, toUxc>>
        /\ \E c : chip' = [chip EXCEPT !["Core"] = c]
        /\ pc' = "reset" \/ (pc' = "send_commit" /\ core.uxc_verified)
    BY <1>3 DEF fwup_task_handle_finish_cmd, fwup_task_port_try_atomic_commit
  <2>2. SameUxc
    BY <1>1, <2>1, ChipUpdate DEF SameUxc
  <2>3. OffUxc(app') /\ app'.step = "idle" /\ pc = "loop" /\ ~core.reset_pending
    BY <1>1, <2>1 DEF OffUxc, Idle, Accepts, Loop
  <2>4. Local
    BY <1>1, <2>1, <2>2, <2>3 DEF Local, LocalApp, LocalPc, SameCommit, SameDelta
  <2> QED BY <2>4
<1> QED BY <1>2, <1>3

LEMMA OtherLocal ==
    ASSUME TypeInv, ConfirmationCleared \/ fwup_staged_sig_remove PROVE Local
<1>1. /\ UNCHANGED <<chip, core, uxc, echo, toUxc, toCore, app>>
      /\ pc' = pc \/ pc' \notin {"loop", "send_commit"}
  BY DEF ConfirmationCleared, fwup_staged_sig_remove
<1> QED BY <1>1 DEF Local, LocalApp, LocalPc, SameUxc, SameCommit, SameDelta

-----------------------------------------------------------------------------
(* The commit request, and what Core does with the messages of the UXC *)
CommitSent ==
    /\ SameUxc /\ UNCHANGED <<toCore, app>> /\ SameDelta
    /\ core'.kind = core.kind /\ core'.uxc_verified = core.uxc_verified
    /\ pc = "send_commit"
    /\ \E m \in Msgs :
        /\ m.type = "commit"
        /\ \/ /\ pc' = "loop" /\ toUxc' = Append(toUxc, m)
              /\ core'.awaiting_commit /\ core'.reset_pending
           \/ /\ pc' = "reset" /\ toUxc' \in {toUxc, Append(toUxc, m)}
              /\ core'.awaiting_commit = core.awaiting_commit
              /\ core'.reset_pending = core.reset_pending

LEMMA AtomicCommitDoes == ASSUME TypeInv, fwup_atomic_commit PROVE CommitSent
<1> DEFINE seq == core.seq_counter + 1
<1> DEFINE m == Msg("commit", NoCmd, seq)
<1>1. core \in Cores /\ seq \in Nat
  BY CoreFields DEF Cores
<1> HIDE DEF seq
<1>2. m \in Msgs /\ [m EXCEPT !.cur = FALSE] \in Msgs /\ m.type = "commit"
      /\ [m EXCEPT !.cur = FALSE].type = "commit"
  <2>1. m.type = "commit" /\ [m EXCEPT !.cur = FALSE].type = "commit"
    BY DEF Msg
  <2> QED BY <1>1, <2>1, MsgType, NoCmdType DEF MsgTypes
<1>3. SameUxc /\ UNCHANGED <<toCore, app>> /\ pc = "send_commit"
  BY DEF fwup_atomic_commit, SameUxc
<1>4. CASE Sent(m) /\ pc' = "loop" /\
           core' = [core EXCEPT !.seq_counter = seq, !.commit_seq = seq,
                                !.awaiting_commit = TRUE, !.reset_pending = TRUE]
  <2>1. /\ core'.kind = core.kind /\ core'.uxc_verified = core.uxc_verified /\ SameDelta
        /\ core'.awaiting_commit /\ core'.reset_pending
    BY <1>1, <1>4 DEF Cores, SameDelta
  <2>2. toUxc' = Append(toUxc, m)
    BY <1>4 DEF Sent
  <2> HIDE DEF m
  <2> QED BY <1>2, <1>3, <1>4, <2>1, <2>2 DEF CommitSent
<1>5. CASE NotSent(m) /\ pc' = "reset" /\ core' = [core EXCEPT !.seq_counter = seq]
  <2>1. /\ core'.kind = core.kind /\ core'.uxc_verified = core.uxc_verified /\ SameDelta
        /\ core'.awaiting_commit = core.awaiting_commit
        /\ core'.reset_pending = core.reset_pending
    BY <1>1, <1>5 DEF Cores, SameDelta
  <2>2. toUxc' \in {toUxc, Append(toUxc, [m EXCEPT !.cur = FALSE])}
    BY <1>5 DEF NotSent
  <2> HIDE DEF m
  <2> QED BY <1>2, <1>3, <1>5, <2>1, <2>2 DEF CommitSent
<1> QED BY <1>4, <1>5 DEF fwup_atomic_commit, seq

\* Core takes a message from its queue, and the UXC does nothing.
Takes(types) ==
    /\ SameUxc /\ UNCHANGED toUxc
    /\ pc = "loop" /\ toCore # << >> /\ toCore[1].type \in types /\ toCore' = Tail(toCore)

Drops == Takes(MsgTypes) /\ UNCHANGED <<core, pc, app>>

Current == core.kind # "none" /\ (echo => toCore[1].cur)

TakesStart ==
    /\ Takes({"start"}) /\ Current
    /\ UNCHANGED pc /\ SameCommit /\ SameDelta /\ core'.kind \in IdleKinds
    /\ \/ app' = app
       \/ OffUxc(app')
       \/ /\ app.cmd.mcu = "Uxc" /\ app.step \in {"start", "confirm"}
          /\ app'.cmd = app.cmd /\ app'.step = "open"

TakesTransfer ==
    /\ Takes(Loads) /\ Current
    /\ UNCHANGED pc /\ SameCommit /\ SameDelta /\ core'.kind = "none"
    /\ \/ app' = app
       \/ OffUxc(app')
       \/ /\ app.cmd.mcu = "Uxc" /\ app.step \in {"open", "body"}
          /\ app'.cmd = app.cmd /\ app'.step \in Loads

TakesFinish ==
    /\ Takes({"finish"}) /\ Current
    /\ app' = app \/ OffUxc(app')
    /\ \/ /\ toCore[1].result = "patch" /\ core'.kind = "delta" /\ core'.awaiting_delta
          /\ SameCommit /\ UNCHANGED pc
       \/ /\ toCore[1].result = "patch" => core.awaiting_delta
          /\ core'.kind = "none" /\ core'.awaiting_delta = FALSE
          /\ core'.awaiting_commit = core.awaiting_commit
          /\ pc' \in {"loop", "reset"}

TakesCommit ==
    /\ Takes({"commit"}) /\ UNCHANGED app
    /\ core.awaiting_commit /\ core'.awaiting_commit = FALSE
    /\ core'.kind = core.kind /\ SameDelta
    /\ pc' \in {"loop", "reset", "remove_staged_both"}

\* The UXC has restarted: nothing that is queued is live.
TakesVersion ==
    /\ chip'["Uxc"] = chip["Uxc"] /\ UNCHANGED <<echo, app>>
    /\ uxc'.cur = FALSE /\ uxc'.pc = uxc.pc
    /\ pc = "loop" /\ toCore # << >>
    /\ toCore' = Retired(Tail(toCore)) /\ toUxc' = Retired(toUxc)
    /\ \/ core'.kind = core.kind /\ SameDelta
       \/ core'.kind = "none" /\ core'.awaiting_delta = FALSE
    /\ \/ pc' \notin {"loop", "send_commit"} /\ SameCommit
       \/ /\ UNCHANGED pc /\ core'.awaiting_commit = FALSE /\ core'.uxc_verified = FALSE
          /\ core'.kind = "none"

LEMMA HandlesTakes ==
    ASSUME TypeInv, NEW types, Handles(types), UNCHANGED <<uxc, echo, toUxc>>,
           chip'["Uxc"] = chip["Uxc"]
    PROVE  Takes(types) /\ toCore[1] \in Msgs
BY CoreFields DEF Handles, Takes, SameUxc, Loop, Rsp

LEMMA DroppedDrops ==
    ASSUME TypeInv, NEW types, types \subseteq MsgTypes, Handles(types),
           UNCHANGED <<uxc, echo, toUxc>>, Dropped
    PROVE  Drops
<1>1. chip' = chip /\ UNCHANGED <<core, pc, app>>
  BY DEF Dropped
<1>2. Takes(types)
  BY <1>1, HandlesTakes
<1> QED BY <1>1, <1>2 DEF Drops, Takes

LEMMA CoprocStartDoes ==
    ASSUME TypeInv, fwup_task_handle_coproc_fwup_start PROVE Drops \/ TakesStart
<1> DEFINE ok == toCore[1].result = "ok"
<1> DEFINE after(c) == IF ok THEN c ELSE [c EXCEPT !.confirmed = 0, !.coproc = FALSE]
<1> DEFINE told == IF ok THEN [app EXCEPT !.step = "open"] ELSE Idle
<1> DEFINE waits == app.cmd.mcu = "Uxc" /\ app.step \in {"start", "confirm"}
<1> DEFINE c1 == [core EXCEPT !.kind = "none"]
<1> DEFINE c2 == [core EXCEPT !.kind = IF @ # "start_confirmed" THEN "none"
                                       ELSE IF ok THEN "cached_ok" ELSE "cached_error"]
<1>1. Handles({"start"}) /\ UNCHANGED <<uxc, echo, toUxc>>
  BY DEF fwup_task_handle_coproc_fwup_start
<1>2. CASE Dropped
  BY <1>1, <1>2, DroppedDrops DEF MsgTypes
<1>3. CASE ~Dropped
  <2>0. core \in Cores /\ app \in Apps
    BY CoreFields
  <2>1. /\ fwup_uxc_take_rsp_seq /\ UNCHANGED <<chip, pc>>
        /\ \/ waits /\ core' = after(c1) /\ app' = told
           \/ core' = after(c2) /\ app' = app
    BY <1>3 DEF fwup_task_handle_coproc_fwup_start, Rsp
  <2>2. \A c \in {after(c1), after(c2)} :
            /\ c.awaiting_commit = core.awaiting_commit
            /\ c.uxc_verified = core.uxc_verified
            /\ c.reset_pending = core.reset_pending
            /\ c.awaiting_delta = core.awaiting_delta
            /\ c.kind \in IdleKinds
    BY <2>0, ZenonT(60) DEF Cores, IdleKinds
  <2>3. OffUxc(told) \/ (told.cmd = app.cmd /\ told.step = "open")
    BY <2>0 DEF OffUxc, Idle, Apps
  <2>4. Takes({"start"}) /\ Current
    BY <1>1, <2>1, HandlesTakes DEF fwup_uxc_take_rsp_seq, Current, Rsp
  <2> HIDE DEF after, told, c1, c2
  <2>5. core' \in {after(c1), after(c2)}
    BY <2>1
  <2>6. SameCommit /\ SameDelta /\ core'.kind \in IdleKinds
    BY <2>2, <2>5 DEF SameCommit, SameDelta
  <2>7. TakesStart
    BY <2>1, <2>3, <2>4, <2>6 DEF TakesStart
  <2> QED BY <2>7
<1> QED BY <1>2, <1>3

LEMMA CoprocTransferDoes ==
    ASSUME TypeInv, fwup_task_handle_coproc_fwup_transfer PROVE Drops \/ TakesTransfer
<1> DEFINE ok == toCore[1].result = "ok"
<1> DEFINE c1 == IF ok THEN [core EXCEPT !.kind = "none"]
                 ELSE [core EXCEPT !.kind = "none", !.confirmed = 0, !.coproc = FALSE]
<1>1. Handles({"body", "sig"}) /\ UNCHANGED <<uxc, echo, toUxc>>
  BY DEF fwup_task_handle_coproc_fwup_transfer
<1>2. CASE Dropped
  BY <1>1, <1>2, DroppedDrops DEF MsgTypes
<1>3. CASE ~Dropped
  <2>0. core \in Cores /\ app \in Apps
    BY CoreFields
  <2>1. /\ fwup_uxc_take_rsp_seq /\ UNCHANGED <<chip, pc>> /\ core' = c1
        /\ IF app.cmd.mcu = "Uxc" /\ app.step \in {"open", "body"}
           THEN Told(IF ok THEN toCore[1].type ELSE "idle", 0) ELSE UNCHANGED <<app, faults>>
    BY <1>3 DEF fwup_task_handle_coproc_fwup_transfer, Rsp
  <2>2. SameCommit /\ SameDelta /\ core'.kind = "none"
    BY <2>0, <2>1 DEF Cores, SameCommit, SameDelta
  <2>3. Takes(Loads) /\ Current /\ toCore[1].type \in Loads
    BY <1>1, <2>1, HandlesTakes DEF fwup_uxc_take_rsp_seq, Current, Rsp, Loads, Takes
  <2>4. \/ app' = app
        \/ OffUxc(app')
        \/ /\ app.cmd.mcu = "Uxc" /\ app.step \in {"open", "body"}
           /\ app'.cmd = app.cmd /\ app'.step \in Loads
    BY <2>0, <2>1, <2>3 DEF Told, OffUxc, Apps
  <2>5. TakesTransfer
    BY <2>1, <2>2, <2>3, <2>4 DEF TakesTransfer
  <2> QED BY <2>5
<1> QED BY <1>2, <1>3

LEMMA FinishUiDoes ==
    ASSUME NEW c1 \in Cores, NEW success \in BOOLEAN, fwup_coproc_finish_ui(c1, success)
    PROVE  /\ core'.kind = c1.kind /\ core'.awaiting_delta = c1.awaiting_delta
           /\ core'.awaiting_commit = c1.awaiting_commit
           /\ pc' \in {"loop", "reset"}
           /\ core'.defer = c1.defer /\ core'.pending = c1.pending
           /\ core'.confirmed \in {0, c1.confirmed}
           /\ reported'.boot = reported.boot \/ reported' \notin Reports
<1>1. core' \in {[c1 EXCEPT !.uxc_verified = TRUE, !.reset_pending = FALSE], c1,
                 [c1 EXCEPT !.confirmed = 0, !.coproc = FALSE, !.reset_pending = FALSE]}
  BY DEF fwup_coproc_finish_ui
<1>2. pc' \in {"loop", "reset"}
  BY DEF fwup_coproc_finish_ui
<1>3. reported' = reported \/ reported' = [reported EXCEPT !.info = c1.confirmed]
  BY DEF fwup_coproc_finish_ui
<1> QED BY <1>1, <1>2, <1>3 DEF Cores, Reports

LEMMA CoprocFinishDoes ==
    ASSUME TypeInv, fwup_task_handle_coproc_fwup_finish PROVE Drops \/ TakesFinish
<1> DEFINE c1 == [core EXCEPT !.kind = "none", !.awaiting_delta = FALSE]
<1>1. Handles({"finish"}) /\ UNCHANGED <<uxc, echo, toUxc>>
  BY DEF fwup_task_handle_coproc_fwup_finish
<1>2. CASE Dropped
  BY <1>1, <1>2, DroppedDrops DEF MsgTypes
<1>3. CASE ~Dropped
  <2>0. core \in Cores /\ app \in Apps
    BY CoreFields
  <2>1. /\ fwup_uxc_take_rsp_seq /\ UNCHANGED chip
        /\ IF ~core.awaiting_delta /\ app.cmd.mcu = "Uxc" /\ app.step = "sig"
           THEN Told(IF toCore[1].result = "error" THEN "idle" ELSE "next", 0)
           ELSE UNCHANGED <<app, faults>>
        /\ IF ~core.awaiting_delta /\ toCore[1].result = "patch"
           THEN /\ core' = [core EXCEPT !.kind = "delta", !.awaiting_delta = TRUE]
                /\ UNCHANGED <<pc, reported>>
           ELSE fwup_coproc_finish_ui(c1, toCore[1].result = "ok")
    BY <1>3 DEF fwup_task_handle_coproc_fwup_finish, Rsp
  <2>2. Takes({"finish"}) /\ Current
    BY <1>1, <2>1, HandlesTakes DEF fwup_uxc_take_rsp_seq, Current, Rsp
  <2>3. app' = app \/ OffUxc(app')
    BY <2>0, <2>1 DEF Told, OffUxc, Apps
  <2>4. CASE ~core.awaiting_delta /\ toCore[1].result = "patch"
    <3>1. core'.kind = "delta" /\ core'.awaiting_delta /\ SameCommit /\ UNCHANGED pc
      BY <2>0, <2>1, <2>4 DEF Cores, SameCommit
    <3> QED BY <2>2, <2>3, <2>4, <3>1 DEF TakesFinish
  <2>5. CASE ~(~core.awaiting_delta /\ toCore[1].result = "patch")
    <3>1. c1 \in Cores /\ c1.kind = "none" /\ c1.awaiting_delta = FALSE
          /\ c1.awaiting_commit = core.awaiting_commit
      BY <2>0 DEF Cores, Kinds
    <3>2. fwup_coproc_finish_ui(c1, toCore[1].result = "ok")
      BY <2>1, <2>5
    <3>3. (toCore[1].result = "ok") \in BOOLEAN
      OBVIOUS
    <3> HIDE DEF c1
    <3>4. /\ core'.kind = "none" /\ core'.awaiting_delta = FALSE
          /\ core'.awaiting_commit = core.awaiting_commit
          /\ pc' \in {"loop", "reset"}
      BY <3>1, <3>2, <3>3, FinishUiDoes
    <3>5. toCore[1].result = "patch" => core.awaiting_delta
      BY <2>5
    <3> QED BY <2>2, <2>3, <3>4, <3>5 DEF TakesFinish
  <2> QED BY <2>4, <2>5
<1> QED BY <1>2, <1>3

LEMMA CommitRspDoes ==
    ASSUME TypeInv, fwup_task_handle_commit_sig_rsp PROVE Drops \/ TakesCommit
<1> DEFINE c1 == [core EXCEPT !.awaiting_commit = FALSE, !.commit_seq = 0]
<1>1. Handles({"commit"}) /\ UNCHANGED <<uxc, echo, toUxc>>
  BY DEF fwup_task_handle_commit_sig_rsp
<1>2. CASE Dropped
  BY <1>1, <1>2, DroppedDrops DEF MsgTypes
<1>3. CASE ~Dropped
  <2>0. core \in Cores
    BY CoreFields
  <2>1. /\ core.awaiting_commit /\ UNCHANGED app
        /\ chip' = chip \/ \E c : chip' = [chip EXCEPT !["Core"] = c]
        /\ \/ fwup_coproc_finish_ui(c1, FALSE)
           \/ core' = c1 /\ pc' = "remove_staged_both"
    BY <1>3 DEF fwup_task_handle_commit_sig_rsp
  <2>2. chip'["Uxc"] = chip["Uxc"]
    BY <2>1, ChipUpdate
  <2>3. Takes({"commit"})
    BY <1>1, <2>2, HandlesTakes
  <2>4. c1 \in Cores /\ c1.kind = core.kind /\ c1.awaiting_delta = core.awaiting_delta
        /\ c1.awaiting_commit = FALSE
    BY <2>0 DEF Cores
  <2> HIDE DEF c1
  <2>5. /\ core'.awaiting_commit = FALSE /\ core'.kind = core.kind /\ SameDelta
        /\ pc' \in {"loop", "reset", "remove_staged_both"}
    BY <2>1, <2>4, FinishUiDoes DEF SameDelta
  <2>6. TakesCommit
    BY <2>1, <2>3, <2>5 DEF TakesCommit
  <2> QED BY <2>6
<1> QED BY <1>2, <1>3

LEMMA VersionDoes ==
    ASSUME TypeInv, fwup_task_handle_coproc_version PROVE TakesVersion
<1> DEFINE success == core.confirmed \in {0, reported.boot}
<1> DEFINE c1 == [core EXCEPT !.awaiting_delta = FALSE, !.kind = "none"]
<1> DEFINE failed == core.awaiting_delta /\ ~success
<1> DEFINE c2 == IF ~core.awaiting_delta THEN core
                 ELSE IF failed THEN [c1 EXCEPT !.confirmed = 0] ELSE c1
<1>1. core \in Cores /\ uxc \in Uxcs
  BY CoreFields
<1>2. /\ pc = "loop" /\ toCore # << >> /\ toCore' = Retired(Tail(toCore))
      /\ uxc' = [uxc EXCEPT !.cur = FALSE] /\ toUxc' = Retired(toUxc)
      /\ UNCHANGED <<echo, app>>
      /\ chip' = chip \/ \E c : chip' = [chip EXCEPT !["Core"] = c]
      /\ \/ core' = c1 /\ pc' = "reset"
         \/ core' = c2 /\ pc' = "remove_staged"
         \/ core' = ClearedByVersion(c2) /\ UNCHANGED pc
  BY DEF fwup_task_handle_coproc_version, Loop
<1>3. chip'["Uxc"] = chip["Uxc"]
  <2>1. chip' = chip \/ \E c : chip' = [chip EXCEPT !["Core"] = c]
    BY <1>2
  <2> QED BY <2>1, ChipUpdate
<1>4. uxc'.cur = FALSE /\ uxc'.pc = uxc.pc
  BY <1>1, <1>2 DEF Uxcs
<1>5. /\ c1 \in Cores /\ c1.kind = "none" /\ c1.awaiting_delta = FALSE
      /\ c1.awaiting_commit = core.awaiting_commit /\ c1.uxc_verified = core.uxc_verified
      /\ c1.reset_pending = core.reset_pending
  BY <1>1 DEF Cores, Kinds
<1>6. /\ c2 \in Cores
      /\ c2.awaiting_commit = core.awaiting_commit /\ c2.uxc_verified = core.uxc_verified
      /\ c2.reset_pending = core.reset_pending
      /\ \/ c2.kind = core.kind /\ c2.awaiting_delta = core.awaiting_delta
         \/ c2.kind = "none" /\ c2.awaiting_delta = FALSE
  <2>1. c2 \in {core, c1, [c1 EXCEPT !.confirmed = 0]}
    OBVIOUS
  <2> HIDE DEF c1, c2
  <2> QED BY <1>1, <1>5, <2>1, Constants DEF Cores
<1> HIDE DEF c1, c2
<1>7. LET c == ClearedByVersion(c2)
      IN  /\ c.kind = "none" /\ c.awaiting_delta = FALSE /\ c.awaiting_commit = FALSE
          /\ c.uxc_verified = FALSE
  BY <1>6 DEF Cores, ClearedByVersion
<1>8. CASE core' = c1 /\ pc' = "reset"
  BY <1>2, <1>3, <1>4, <1>5, <1>8 DEF TakesVersion, SameCommit
<1>9. CASE core' = c2 /\ pc' = "remove_staged"
  BY <1>2, <1>3, <1>4, <1>6, <1>9 DEF TakesVersion, SameCommit, SameDelta
<1>10. CASE core' = ClearedByVersion(c2) /\ UNCHANGED pc
  BY <1>2, <1>3, <1>4, <1>7, <1>10 DEF TakesVersion
<1> QED BY <1>2, <1>8, <1>9, <1>10

-----------------------------------------------------------------------------
(* The UXC, and the resets *)
UxcFrame == UNCHANGED <<core, pc, staged, echo, reported, app, goal>>
            /\ chip'["Core"] = chip["Core"]

\* The UXC takes a request and answers it, if the answer is not lost.
Handled(types) ==
    /\ UxcFrame
    /\ uxc.pc = "loop" /\ toUxc # << >> /\ toUxc[1].type \in types /\ toUxc' = Tail(toUxc)
    /\ \E m \in Msgs :
        /\ m.type = toUxc[1].type /\ m.cur = toUxc[1].cur
        /\ m.result = "patch" <=> uxc'.pc = "apply"
        /\ toCore' \in {toCore, Append(toCore, m)}

HandledStart ==
    /\ Handled({"start"}) /\ uxc'.pc = "loop" /\ uxc'.cur = uxc.cur
    /\ \E o \in fwup_start(chip["Uxc"], toUxc[1].cmd) : chip'["Uxc"] = o.ch
HandledTransfer ==
    /\ Handled(Loads) /\ uxc'.pc = "loop" /\ uxc'.cur = uxc.cur
    /\ \E o \in fwup_transfer(chip["Uxc"], toUxc[1].type, toUxc[1].cmd) : chip'["Uxc"] = o.ch
HandledFinish ==
    /\ Handled({"finish"})
    /\ \/ /\ toUxc[1].cmd.mode = "normal"
          /\ uxc'.pc \in {"loop", "reset"} /\ uxc'.cur = uxc.cur
          /\ \E o \in fwup_finish(chip["Uxc"], "normal") :
               \E w \in fwup_commit_signature(o.ch) \cup {o} :
                  chip'["Uxc"] = w.ch /\ (w # o => o.ok)
       \/ /\ uxc'.pc = "reset" /\ uxc'.cur = uxc.cur /\ chip'["Uxc"] = chip["Uxc"]
       \/ /\ uxc'.pc = "apply" /\ uxc'.cur = toUxc[1].cur /\ chip'["Uxc"] = chip["Uxc"]
          /\ toUxc[1].cmd.mode = "delta" /\ fwup_pre_apply_check(chip["Uxc"])
HandledCommit ==
    /\ Handled({"commit"}) /\ UNCHANGED uxc
    /\ \E o \in fwup_commit_signature(chip["Uxc"]) : chip'["Uxc"] = o.ch
       /\ \A i \in 1 .. Len(toCore') :
             toCore'[i].result = "ok" => o.ok \/ (i \in 1 .. Len(toCore) /\ toCore'[i] = toCore[i])

Applied ==
    /\ UxcFrame /\ UNCHANGED toUxc
    /\ uxc.pc = "apply" /\ uxc'.cur = FALSE /\ uxc'.pc \in {"loop", "commit", "reset"}
    /\ \E m \in Msgs :
        /\ m.type = "finish" /\ m.cur = uxc.cur /\ m.result # "patch"
        /\ toCore' \in {toCore, Append(toCore, m)}
    /\ \E o \in fwup_finish(chip["Uxc"], "delta") : chip'["Uxc"] = o.ch

CommittedPatched ==
    /\ UxcFrame /\ UNCHANGED <<toUxc, toCore>>
    /\ uxc.pc = "commit" /\ uxc'.pc = "reset" /\ uxc'.cur = uxc.cur
    /\ \E o \in fwup_commit_signature(chip["Uxc"]) : chip'["Uxc"] = o.ch

\* Its queue is lost, and its boot message is received or not.
Restarted(queue) ==
    /\ uxc' = UxcBoot /\ toUxc' = << >> /\ chip'["Uxc"] = Boot(chip["Uxc"])
    /\ \E m \in Msgs :
        /\ m.type = "version" /\ m.cur = FALSE /\ m.result = "none"
        /\ toCore' \in {queue, Append(queue, m)}

UxcRestarts == Restarted(toCore) /\ UNCHANGED <<core, pc, staged, echo, app, goal>>
               /\ chip'["Core"] = chip["Core"]

CoreRestarts ==
    /\ core' = CoreBoot /\ pc' = "loop" /\ UNCHANGED <<echo, app, goal, staged>>
    /\ chip'["Core"] = Boot(chip["Core"])
    /\ \/ /\ chip'["Uxc"] = chip["Uxc"] /\ uxc'.cur = FALSE /\ uxc'.pc = uxc.pc
          /\ toUxc' = Retired(toUxc) /\ toCore' = << >>
       \/ Restarted(<< >>)

-----------------------------------------------------------------------------
LEMMA AnswerDoes ==
    ASSUME TypeInv, NEW msg \in Msgs, NEW o, NEW result \in Answers, Answer(msg, o, result)
    PROVE  /\ chip'["Uxc"] = o.ch /\ chip'["Core"] = chip["Core"]
           /\ \E m \in Msgs :
                /\ m.type = msg.type /\ m.cur = msg.cur /\ m.result = result
                /\ toCore' \in {toCore, Append(toCore, m)}
<1> DEFINE rsp == [msg EXCEPT !.result = result, !.cmd = NoCmd]
<1>1. /\ chip' = [chip EXCEPT !["Uxc"] = o.ch]
      /\ toCore' \in {toCore, Append(toCore, rsp)}
  BY DEF Answer
<1>2. rsp \in Msgs /\ rsp.type = msg.type /\ rsp.cur = msg.cur /\ rsp.result = result
  BY MsgsShape, NoCmdType DEF Answers
<1>3. chip'["Uxc"] = o.ch /\ chip'["Core"] = chip["Core"]
  BY <1>1, ChipUpdate
<1> HIDE DEF rsp
<1> QED BY <1>1, <1>2, <1>3

LEMMA ReceivesDoes ==
    ASSUME TypeInv, NEW types, Receives(types)
    PROVE  /\ uxc.pc = "loop" /\ toUxc # << >> /\ toUxc[1].type \in types
           /\ toUxc' = Tail(toUxc) /\ toUxc[1] \in Msgs
BY CoreFields, TailAt DEF Receives

LEMMA UxcStartDoes == ASSUME TypeInv, uxc_handle_fwup_start PROVE HandledStart
<1>1. PICK o \in fwup_start(chip["Uxc"], toUxc[1].cmd) : Answer(toUxc[1], o, Result(o.ok))
  BY DEF uxc_handle_fwup_start
<1>2. Receives({"start"}) /\ uxc' = [uxc EXCEPT !.defer = toUxc[1].cmd.defer] /\ UxcIdle
  BY DEF uxc_handle_fwup_start
<1>3. /\ uxc.pc = "loop" /\ toUxc # << >> /\ toUxc[1].type \in {"start"}
      /\ toUxc' = Tail(toUxc) /\ toUxc[1] \in Msgs
  BY <1>2, ReceivesDoes
<1>4. uxc'.pc = "loop" /\ uxc'.cur = uxc.cur
  BY <1>2, <1>3, CoreFields DEF Uxcs
<1>5. Result(o.ok) \in Answers /\ Result(o.ok) # "patch"
  BY DEF Result, Answers
<1>6. /\ chip'["Uxc"] = o.ch /\ chip'["Core"] = chip["Core"]
      /\ \E m \in Msgs :
           /\ m.type = toUxc[1].type /\ m.cur = toUxc[1].cur /\ m.result = Result(o.ok)
           /\ toCore' \in {toCore, Append(toCore, m)}
  BY <1>1, <1>3, <1>5, AnswerDoes
<1>7. Handled({"start"})
  BY <1>2, <1>3, <1>4, <1>5, <1>6 DEF Handled, UxcFrame, UxcIdle
<1> QED BY <1>4, <1>6, <1>7 DEF HandledStart

LEMMA UxcTransferDoes == ASSUME TypeInv, uxc_handle_fwup_transfer PROVE HandledTransfer
<1>1. PICK o \in fwup_transfer(chip["Uxc"], toUxc[1].type, toUxc[1].cmd) :
         Answer(toUxc[1], o, Result(o.ok))
  BY DEF uxc_handle_fwup_transfer
<1>2. Receives(Loads) /\ uxc' = uxc /\ UxcIdle
  BY DEF uxc_handle_fwup_transfer, Loads
<1>3. /\ uxc.pc = "loop" /\ toUxc # << >> /\ toUxc[1].type \in Loads
      /\ toUxc' = Tail(toUxc) /\ toUxc[1] \in Msgs
  BY <1>2, ReceivesDoes
<1>5. Result(o.ok) \in Answers /\ Result(o.ok) # "patch"
  BY DEF Result, Answers
<1>6. /\ chip'["Uxc"] = o.ch /\ chip'["Core"] = chip["Core"]
      /\ \E m \in Msgs :
           /\ m.type = toUxc[1].type /\ m.cur = toUxc[1].cur /\ m.result = Result(o.ok)
           /\ toCore' \in {toCore, Append(toCore, m)}
  BY <1>1, <1>3, <1>5, AnswerDoes
<1>7. Handled(Loads)
  BY <1>2, <1>3, <1>5, <1>6 DEF Handled, UxcFrame, UxcIdle
<1> QED BY <1>2, <1>3, <1>6, <1>7 DEF HandledTransfer

LEMMA UxcFinishDoes == ASSUME TypeInv, uxc_handle_fwup_finish PROVE HandledFinish
<1> DEFINE ch == chip["Uxc"]
<1> DEFINE msg == toUxc[1]
<1>2. Receives({"finish"}) /\ UxcIdle
  BY DEF uxc_handle_fwup_finish
<1>3. /\ uxc.pc = "loop" /\ toUxc # << >> /\ toUxc[1].type \in {"finish"}
      /\ toUxc' = Tail(toUxc) /\ toUxc[1] \in Msgs /\ uxc \in Uxcs
  BY <1>2, ReceivesDoes, CoreFields
<1>4. ASSUME NEW o, NEW result \in Answers, Answer(msg, o, result),
             result = "patch" <=> uxc'.pc = "apply"
      PROVE  Handled({"finish"}) /\ chip'["Uxc"] = o.ch
  BY <1>2, <1>3, <1>4, AnswerDoes DEF Handled, UxcFrame, UxcIdle
<1>5. CASE /\ msg.cmd.mode = "normal"
           /\ \E o \in fwup_finish(ch, "normal") :
                \E w \in (IF o.ok /\ ~uxc.defer THEN fwup_commit_signature(o.ch)
                                                ELSE {o}) :
                   Answer(msg, w, Result(o.ok))
           /\ uxc' = IF uxc.defer THEN uxc ELSE [uxc EXCEPT !.pc = "reset"]
  <2>1. PICK o \in fwup_finish(ch, "normal") :
                \E w \in (IF o.ok /\ ~uxc.defer THEN fwup_commit_signature(o.ch)
                                                ELSE {o}) :
                   Answer(msg, w, Result(o.ok))
    BY <1>5
  <2>2. PICK w \in (IF o.ok /\ ~uxc.defer THEN fwup_commit_signature(o.ch) ELSE {o}) :
                   Answer(msg, w, Result(o.ok))
    BY <2>1
  <2>3. uxc'.pc \in {"loop", "reset"} /\ uxc'.cur = uxc.cur
    BY <1>3, <1>5 DEF Uxcs
  <2>4. Result(o.ok) \in Answers /\ Result(o.ok) # "patch"
    BY DEF Result, Answers
  <2>5. Handled({"finish"}) /\ chip'["Uxc"] = w.ch
    <3> HIDE DEF msg
    <3> QED BY <1>4, <2>2, <2>3, <2>4
  <2>6. w \in fwup_commit_signature(o.ch) \cup {o} /\ (w # o => o.ok)
    BY <2>2
  <2> QED BY <1>5, <2>1, <2>3, <2>5, <2>6 DEF HandledFinish
<1>6. CASE /\ Answer(msg, Outcome(FALSE, ch, 0), "error")
           /\ uxc' = [uxc EXCEPT !.pc = "reset"]
  <2>1. uxc'.pc = "reset" /\ uxc'.cur = uxc.cur /\ Outcome(FALSE, ch, 0).ch = ch
    BY <1>3, <1>6 DEF Uxcs, Outcome
  <2>2. Handled({"finish"}) /\ chip'["Uxc"] = ch
    <3> HIDE DEF msg
    <3> QED BY <1>4, <1>6, <2>1 DEF Answers
  <2> QED BY <2>1, <2>2 DEF HandledFinish
<1>7. CASE /\ msg.cmd.mode = "delta" /\ fwup_pre_apply_check(ch)
           /\ Answer(msg, Outcome(TRUE, ch, 0), "patch")
           /\ uxc' = [uxc EXCEPT !.pc = "apply", !.cur = msg.cur]
  <2>1. uxc'.pc = "apply" /\ uxc'.cur = toUxc[1].cur /\ Outcome(TRUE, ch, 0).ch = ch
    BY <1>3, <1>7 DEF Uxcs, Outcome
  <2>2. Handled({"finish"}) /\ chip'["Uxc"] = ch
    <3> HIDE DEF msg
    <3> QED BY <1>4, <1>7, <2>1 DEF Answers
  <2> QED BY <1>7, <2>1, <2>2 DEF HandledFinish
<1> QED BY <1>5, <1>6, <1>7 DEF uxc_handle_fwup_finish

LEMMA UxcApplyDoes == ASSUME TypeInv, uxc_apply_patch PROVE Applied
<1> DEFINE msg == [Msg("finish", NoCmd, 0) EXCEPT !.cur = uxc.cur]
<1>1. PICK o \in fwup_finish(chip["Uxc"], "delta") :
         /\ Answer(msg, o, Result(o.ok))
         /\ uxc' = [uxc EXCEPT !.cur = FALSE, !.pc =
                      IF uxc.defer THEN "loop" ELSE IF o.ok THEN "commit" ELSE "reset"]
  BY DEF uxc_apply_patch
<1>2. uxc.pc = "apply" /\ UNCHANGED toUxc /\ UxcIdle /\ uxc \in Uxcs /\ uxc.cur \in BOOLEAN
  BY CoreFields DEF uxc_apply_patch
<1>3. uxc'.cur = FALSE /\ uxc'.pc \in {"loop", "commit", "reset"}
  BY <1>1, <1>2 DEF Uxcs
<1>4. msg \in Msgs /\ msg.type = "finish" /\ msg.cur = uxc.cur
  <2>1. msg.type = "finish" /\ msg.cur = uxc.cur
    BY DEF Msg
  <2> QED BY <1>2, <2>1, MsgType, NoCmdType DEF MsgTypes
<1>5. Result(o.ok) \in Answers /\ Result(o.ok) # "patch"
  BY DEF Result, Answers
<1> HIDE DEF msg
<1>6. /\ chip'["Uxc"] = o.ch /\ chip'["Core"] = chip["Core"]
      /\ \E m \in Msgs :
           /\ m.type = msg.type /\ m.cur = msg.cur /\ m.result = Result(o.ok)
           /\ toCore' \in {toCore, Append(toCore, m)}
  BY <1>1, <1>4, <1>5, AnswerDoes
<1> QED BY <1>2, <1>3, <1>4, <1>5, <1>6 DEF Applied, UxcFrame, UxcIdle

LEMMA UxcCommitPatchedDoes == ASSUME TypeInv, uxc_commit_patched PROVE CommittedPatched
<1>1. PICK o \in fwup_commit_signature(chip["Uxc"]) : chip' = [chip EXCEPT !["Uxc"] = o.ch]
  BY DEF uxc_commit_patched
<1>2. /\ uxc.pc = "commit" /\ uxc' = [uxc EXCEPT !.pc = "reset"]
      /\ UNCHANGED <<toUxc, toCore>> /\ UxcIdle /\ uxc \in Uxcs
  BY CoreFields DEF uxc_commit_patched
<1>3. uxc'.pc = "reset" /\ uxc'.cur = uxc.cur
  BY <1>2 DEF Uxcs
<1>4. chip'["Uxc"] = o.ch /\ chip'["Core"] = chip["Core"]
  BY <1>1, ChipUpdate
<1> QED BY <1>2, <1>3, <1>4 DEF CommittedPatched, UxcFrame, UxcIdle

LEMMA UxcCommitDoes == ASSUME TypeInv, uxc_handle_commit_sig PROVE HandledCommit
<1>1. PICK o \in fwup_commit_signature(chip["Uxc"]) : Answer(toUxc[1], o, Result(o.ok))
  BY DEF uxc_handle_commit_sig
<1>2. Receives({"commit"}) /\ uxc' = uxc /\ UxcIdle
  BY DEF uxc_handle_commit_sig
<1>3. /\ uxc.pc = "loop" /\ toUxc # << >> /\ toUxc[1].type \in {"commit"}
      /\ toUxc' = Tail(toUxc) /\ toUxc[1] \in Msgs /\ toCore \in Seq(Msgs)
  BY <1>2, ReceivesDoes, CoreFields
<1>4. Result(o.ok) \in Answers /\ Result(o.ok) # "patch" /\ (Result(o.ok) = "ok" => o.ok)
  BY DEF Result, Answers
<1>5. /\ chip'["Uxc"] = o.ch /\ chip'["Core"] = chip["Core"]
      /\ \E m \in Msgs :
           /\ m.type = toUxc[1].type /\ m.cur = toUxc[1].cur /\ m.result = Result(o.ok)
           /\ toCore' \in {toCore, Append(toCore, m)}
  BY <1>1, <1>3, <1>4, AnswerDoes
<1>6. Handled({"commit"})
  BY <1>2, <1>3, <1>4, <1>5 DEF Handled, UxcFrame, UxcIdle
<1>7. ASSUME NEW i \in 1 .. Len(toCore'), toCore'[i].result = "ok"
      PROVE  o.ok \/ (i \in 1 .. Len(toCore) /\ toCore'[i] = toCore[i])
  <2>1. PICK m \in Msgs : m.result = Result(o.ok) /\ toCore' \in {toCore, Append(toCore, m)}
    BY <1>5
  <2>2. CASE toCore' = toCore
    BY <2>2
  <2>3. CASE toCore' = Append(toCore, m)
    BY <1>3, <1>4, <1>7, <2>1, <2>3, AppendAt
  <2> QED BY <2>1, <2>2, <2>3
<1> QED BY <1>2, <1>5, <1>6, <1>7 DEF HandledCommit

LEMMA UxcBootsDoes ==
    ASSUME TypeInv, NEW queue, NEW known, UxcBoots(queue, known),
           chip'["Uxc"] = Boot(chip["Uxc"])
    PROVE  Restarted(queue)
<1> DEFINE m == [Msg("version", NoCmd, 0) EXCEPT !.cur = FALSE]
<1>1. m \in Msgs /\ m.type = "version" /\ m.cur = FALSE /\ m.result = "none"
  <2>1. m.type = "version" /\ m.cur = FALSE /\ m.result = "none"
    BY DEF Msg
  <2> QED BY <2>1, MsgType, NoCmdType DEF MsgTypes
<1>2. uxc' = UxcBoot /\ toUxc' = << >> /\ toCore' \in {queue, Append(queue, m)}
  BY DEF UxcBoots
<1> HIDE DEF m
<1> QED BY <1>1, <1>2 DEF Restarted

LEMMA ResetsDo ==
    ASSUME TypeInv
    PROVE  /\ UxcReset => UxcRestarts
           /\ CoreReset \/ PowerCycle => CoreRestarts
<1>1. ASSUME UxcReset PROVE UxcRestarts
  <2>1. chip'["Uxc"] = Boot(chip["Uxc"]) /\ chip'["Core"] = chip["Core"]
    BY <1>1, ChipUpdate DEF UxcReset, TypeInv, ChipInv
  <2> QED BY <1>1, <2>1, UxcBootsDoes DEF UxcReset, UxcRestarts
<1>2. ASSUME CoreReset \/ PowerCycle PROVE CoreRestarts
  <2>1. core' = CoreBoot /\ pc' = "loop" /\ UNCHANGED <<echo, app, goal, staged>>
    BY <1>2 DEF CoreReset, PowerCycle, CoreBoots
  <2>2. CASE /\ chip' = [chip EXCEPT !["Core"] = Boot(@)]
             /\ uxc' = [uxc EXCEPT !.cur = FALSE] /\ toUxc' = Retired(toUxc)
             /\ toCore' = << >>
    <3>1. chip'["Uxc"] = chip["Uxc"] /\ chip'["Core"] = Boot(chip["Core"])
      BY <2>2, ChipUpdate DEF TypeInv, ChipInv
    <3>2. uxc'.cur = FALSE /\ uxc'.pc = uxc.pc
      BY <2>2, CoreFields DEF Uxcs
    <3> QED BY <2>1, <2>2, <3>1, <3>2 DEF CoreRestarts
  <2>3. CASE UxcBoots(<< >>, Unknown) /\ chip' = [m \in Mcus |-> Boot(chip[m])]
    <3>1. chip'["Uxc"] = Boot(chip["Uxc"]) /\ chip'["Core"] = Boot(chip["Core"])
      BY <2>3
    <3>2. Restarted(<< >>)
      BY <2>3, <3>1, UxcBootsDoes
    <3> QED BY <2>1, <3>1, <3>2 DEF CoreRestarts
  <2> QED BY <1>2, <2>2, <2>3 DEF CoreReset, PowerCycle
<1> QED BY <1>1, <1>2

-----------------------------------------------------------------------------
CoreDoes ==
    \/ Local \/ AnyRequest \/ CommitSent \/ Drops \/ TakesStart \/ TakesTransfer
    \/ TakesFinish \/ TakesCommit \/ TakesVersion
UxcDoes ==
    \/ HandledStart \/ HandledTransfer \/ HandledFinish \/ HandledCommit \/ Applied
    \/ CommittedPatched \/ UxcRestarts


-----------------------------------------------------------------------------
(* Which request is outstanding *)
LinkInv ==
    /\ LinkOK(core.kind, toUxc, toCore, uxc.cur)
    /\ core.awaiting_delta = (core.kind = "delta")
    /\ uxc.cur => uxc.pc = "apply"

LEMMA LinkForget ==
    ASSUME NEW k, NEW q, NEW r, NEW b, LinkOK(k, q, r, b)
    PROVE  LinkOK(k, q, r, FALSE) /\ LinkOK(k, << >>, r, FALSE)
<1>1. Len(<< >>) = 0
  BY EmptyAt
<1> QED BY <1>1 DEF LinkOK

LEMMA RetiredLink ==
    ASSUME NEW q \in Seq(Msgs) PROVE NoLive(Retired(q)) /\ (PatchOK(q) => PatchOK(Retired(q)))
BY RetiredAt DEF NoLive, PatchOK

LEMMA TailPatch ==
    ASSUME NEW r \in Seq(Msgs), r # << >>, PatchOK(r) PROVE PatchOK(Tail(r))
BY TailAt DEF PatchOK

LEMMA LocalLink == ASSUME TypeInv, LinkInv, Local PROVE LinkInv'
<1>1. uxc.cur \in BOOLEAN
  BY CoreFields
<1>2. CASE core'.kind = core.kind
  BY <1>2 DEF Local, LinkInv, SameUxc, SameDelta
<1>3. CASE core.kind \in IdleKinds /\ core'.kind = "none"
  <2>1. NoLive(toUxc) /\ NoLive(toCore) /\ uxc.cur = FALSE /\ PatchOK(toCore)
    BY <1>1, <1>3, LinkIdle DEF LinkInv
  <2>2. LinkOK("none", toUxc, toCore, FALSE)
    BY <2>1, LinkFree
  <2>3. core.kind # "delta"
    BY <1>3 DEF IdleKinds
  <2> QED BY <1>3, <2>1, <2>2, <2>3 DEF Local, LinkInv, SameUxc, SameDelta
<1> QED BY <1>2, <1>3 DEF Local

LEMMA RequestLink ==
    ASSUME TypeInv, TypeInv', LinkInv, NEW type \in ReqTypes, Request(type) \/ LostRequest(type)
    PROVE  LinkInv'
<1> DEFINE m == Msg(type, app'.cmd, 0)
<1> DEFINE l == [m EXCEPT !.cur = FALSE]
<1>1. Asking(type) /\ core.kind \in IdleKinds /\ toCore' = toCore /\ uxc' = uxc
      /\ core'.awaiting_delta = core.awaiting_delta
  BY DEF Request, LostRequest, Asking, SameUxc, SameDelta
<1>2. app'.cmd \in Cmds /\ toUxc \in Seq(Msgs) /\ toCore \in Seq(Msgs) /\ uxc.cur \in BOOLEAN
  BY CoreFields DEF TypeInv, AppType, Apps
<1>3. m \in Msgs /\ m.type = type /\ l \in Msgs /\ ~Live(l)
  <2>1. m.type = type /\ l.cur = FALSE
    BY DEF Msg
  <2>2. m \in Msgs /\ l \in Msgs
    BY <1>2, MsgType DEF ReqTypes, MsgTypes
  <2> QED BY <2>1, <2>2 DEF Live
<1> HIDE DEF m, l
<1>4. NoLive(toUxc) /\ NoLive(toCore) /\ uxc.cur = FALSE /\ PatchOK(toCore)
  BY <1>1, <1>2, LinkIdle DEF LinkInv
<1>5. core.awaiting_delta = FALSE
  BY <1>1 DEF LinkInv, IdleKinds
<1>6. CASE Request(type)
  <2>1. toUxc' = Append(toUxc, m) /\ core'.kind \in ReqKinds(type)
    BY <1>6 DEF Request, m
  <2>2. LinkOK(core'.kind, Append(toUxc, m), toCore, FALSE)
    BY <1>2, <1>3, <1>4, <2>1, LinkSend
  <2>3. core'.kind # "delta"
    BY <2>1, KindsDiffer
  <2> QED BY <1>1, <1>4, <1>5, <2>1, <2>2, <2>3 DEF LinkInv
<1>7. CASE LostRequest(type)
  <2>1. toUxc' \in {toUxc, Append(toUxc, l)} /\ core'.kind = "none"
    BY <1>7 DEF LostRequest, m, l
  <2>2. LinkOK("none", toUxc, toCore, FALSE)
    BY <1>4, LinkFree
  <2>3. LinkOK("none", toUxc', toCore, FALSE)
    BY <1>2, <1>3, <2>1, <2>2, LinkStale
  <2> QED BY <1>1, <1>4, <1>5, <2>1, <2>3 DEF LinkInv
<1> QED BY <1>6, <1>7

LEMMA CommitSentLink == ASSUME TypeInv, LinkInv, CommitSent PROVE LinkInv'
<1>1. PICK m \in Msgs : m.type = "commit" /\ toUxc' \in {toUxc, Append(toUxc, m)}
  BY DEF CommitSent
<1>2. ~Live(m)
  BY <1>1 DEF Live
<1>3. toUxc \in Seq(Msgs) /\ toCore \in Seq(Msgs)
  BY CoreFields
<1>4. LinkOK(core.kind, Append(toUxc, m), toCore, uxc.cur)
  BY <1>1, <1>2, <1>3, LinkStale DEF LinkInv
<1> QED BY <1>1, <1>4 DEF CommitSent, SameUxc, SameDelta, LinkInv

LEMMA LiveAnswer ==
    ASSUME TypeInv, LinkInv, echo, Current, NEW types, Takes(types), "commit" \notin types
    PROVE  /\ Live(toCore[1]) /\ 1 \in 1 .. Len(toCore)
           /\ core.kind \in RspKinds(toCore[1].type)
           /\ toCore[1].result = "patch" => toCore[1].type = "finish"
<1>1. 1 \in 1 .. Len(toCore)
  BY TailAt, CoreFields DEF Takes
<1>2. Live(toCore[1])
  BY DEF Live, Current, Takes
<1> QED BY <1>1, <1>2 DEF LinkInv, LinkOK, PatchOK

LEMMA TakeLink ==
    ASSUME TypeInv, LinkInv, echo, Current, NEW types, Takes(types), "commit" \notin types,
           toCore[1].result # "patch", core'.kind \in IdleKinds, core'.awaiting_delta = FALSE
    PROVE  LinkInv'
<1>1. Live(toCore[1])
  BY LiveAnswer
<1>2. toCore \in Seq(Msgs) /\ uxc.cur \in BOOLEAN /\ toCore # << >>
  BY CoreFields DEF Takes
<1>3. NoLive(toUxc) /\ NoLive(Tail(toCore)) /\ uxc.cur = FALSE /\ PatchOK(Tail(toCore))
  BY <1>1, <1>2, LinkTake DEF LinkInv
<1>4. LinkOK(core'.kind, toUxc, Tail(toCore), FALSE)
  BY <1>3, LinkFree
<1>5. core'.kind # "delta"
  BY DEF IdleKinds
<1> QED BY <1>3, <1>4, <1>5 DEF Takes, SameUxc, LinkInv

LEMMA TakesLink ==
    ASSUME TypeInv, LinkInv, echo, Drops \/ TakesStart \/ TakesTransfer \/ TakesFinish \/ TakesCommit
    PROVE  LinkInv'
<1>1. CASE Drops \/ TakesCommit
  <2>1. /\ toCore # << >> /\ toCore' = Tail(toCore) /\ UNCHANGED <<toUxc, uxc>>
        /\ core'.kind = core.kind /\ core'.awaiting_delta = core.awaiting_delta
    BY <1>1 DEF Drops, TakesCommit, Takes, SameUxc, SameDelta
  <2>2. LinkOK(core.kind, toUxc, Tail(toCore), uxc.cur)
    BY <2>1, CoreFields, LinkDrop DEF LinkInv
  <2> QED BY <2>1, <2>2 DEF LinkInv
<1>2. CASE TakesStart
  <2>1. Takes({"start"}) /\ Current /\ core'.kind \in IdleKinds
        /\ core'.awaiting_delta = core.awaiting_delta /\ toCore[1].type = "start"
    BY <1>2 DEF TakesStart, SameDelta, Takes
  <2>2. toCore[1].result # "patch" /\ core.kind \in StartKinds
    BY <2>1, LiveAnswer, KindsDiffer
  <2>3. core'.awaiting_delta = FALSE
    BY <2>1, <2>2 DEF LinkInv, StartKinds
  <2> QED BY <2>1, <2>2, <2>3, TakeLink
<1>3. CASE TakesTransfer
  <2>1. Takes(Loads) /\ Current /\ core'.kind \in IdleKinds
        /\ core'.awaiting_delta = core.awaiting_delta /\ toCore[1].type \in Loads
    BY <1>3 DEF TakesTransfer, SameDelta, Takes, IdleKinds
  <2>2. toCore[1].result # "patch" /\ core.kind = "transfer" /\ "commit" \notin Loads
    BY <2>1, LiveAnswer, KindsDiffer DEF Loads
  <2>3. core'.awaiting_delta = FALSE
    BY <2>1, <2>2 DEF LinkInv
  <2> QED BY <2>1, <2>2, <2>3, TakeLink
<1>4. CASE TakesFinish
  <2>1. Takes({"finish"}) /\ Current
    BY <1>4 DEF TakesFinish
  <2>2. Live(toCore[1]) /\ 1 \in 1 .. Len(toCore)
    BY <2>1, LiveAnswer
  <2>3. CASE toCore[1].result = "patch" /\ core'.kind = "delta" /\ core'.awaiting_delta
    <3>1. LinkOK("delta", toUxc, Tail(toCore), uxc.cur)
      BY <2>1, <2>2, <2>3, LinkTakePatch, CoreFields DEF Takes, LinkInv
    <3>2. core'.awaiting_delta = TRUE
      BY <1>4, <2>3 DEF TakesFinish
    <3> QED BY <2>1, <2>3, <3>1, <3>2 DEF Takes, SameUxc, LinkInv
  <2>4. CASE (toCore[1].result = "patch" => core.awaiting_delta)
             /\ core'.kind = "none" /\ core'.awaiting_delta = FALSE
    <3>1. toCore[1].result # "patch"
      BY <2>2, <2>4 DEF LinkInv, LinkOK
    <3> QED BY <2>1, <2>4, <3>1, TakeLink DEF IdleKinds
  <2> QED BY <1>4, <2>3, <2>4 DEF TakesFinish
<1> QED BY <1>1, <1>2, <1>3, <1>4

LEMMA VersionLink == ASSUME TypeInv, LinkInv, TakesVersion PROVE LinkInv'
<1>1. toUxc \in Seq(Msgs) /\ toCore \in Seq(Msgs) /\ Tail(toCore) \in Seq(Msgs)
  BY CoreFields, TailAt DEF TakesVersion
<1>2. PatchOK(Tail(toCore))
  BY <1>1, TailPatch DEF LinkInv, LinkOK, TakesVersion
<1>3. LinkOK(core'.kind, toUxc', toCore', FALSE)
  BY <1>1, <1>2, RetiredLink, LinkFree DEF TakesVersion
<1> QED BY <1>3 DEF TakesVersion, LinkInv, SameDelta

LEMMA HandledLink ==
    ASSUME TypeInv, LinkInv, NEW types, Handled(types),
           \/ uxc'.pc # "apply" /\ uxc'.cur = uxc.cur
           \/ uxc'.pc = "apply" /\ uxc'.cur = toUxc[1].cur /\ toUxc[1].type = "finish"
    PROVE  LinkInv'
<1> DEFINE q1 == toUxc[1]
<1>1. /\ toUxc \in Seq(Msgs) /\ toCore \in Seq(Msgs) /\ toUxc # << >> /\ uxc.pc = "loop"
      /\ toUxc' = Tail(toUxc) /\ core' = core /\ uxc.cur \in BOOLEAN
  BY CoreFields DEF Handled, UxcFrame
<1>2. uxc.cur = FALSE
  BY <1>1 DEF LinkInv
<1>3. PICK m \in Msgs : /\ m.type = q1.type /\ m.cur = q1.cur
                        /\ m.result = "patch" <=> uxc'.pc = "apply"
                        /\ toCore' \in {toCore, Append(toCore, m)}
  BY DEF Handled
<1>4. q1 \in Msgs /\ q1.cur \in BOOLEAN /\ Tail(toUxc) \in Seq(Msgs)
  BY <1>1, TailAt, MsgFields
<1>5. LinkOK(core.kind, Tail(toUxc), toCore, FALSE)
  BY <1>1, <1>2, LinkHandle DEF LinkInv
<1>6. Live(m) <=> Live(q1)
  BY <1>3 DEF Live
<1>7. CASE ~Live(q1)
  <2>1. uxc'.cur = FALSE
    BY <1>2, <1>4, <1>7 DEF Live
  <2>2. m.result = "patch" => m.type = "finish"
    BY <1>3
  <2>3. LinkOK(core.kind, Tail(toUxc), Append(toCore, m), FALSE)
    <3>1. ~Live(m)
      BY <1>6, <1>7
    <3> HIDE DEF q1
    <3> QED BY <1>1, <1>4, <1>5, <2>2, <3>1, LinkStaleAnswer
  <2> QED BY <1>1, <1>3, <1>5, <2>1, <2>3 DEF LinkInv
<1>8. CASE Live(q1)
  <2>1. NoLive(Tail(toUxc)) /\ NoLive(toCore) /\ core.kind \in ReqKinds(q1.type)
    BY <1>1, <1>2, <1>8, LinkHandle DEF LinkInv
  <2>2. PatchOK(toCore) /\ core.kind \in RspKinds(q1.type)
    BY <2>1, KindsDiffer DEF LinkInv, LinkOK
  <2>3. CASE uxc'.pc # "apply"
    <3>1. m.result # "patch" /\ uxc'.cur = FALSE
      BY <1>2, <1>3, <2>3
    <3>2. LinkOK(core.kind, Tail(toUxc), Append(toCore, m), FALSE)
      BY <1>1, <1>3, <2>1, <2>2, <3>1, LinkAnswer DEF NoLive
    <3>3. LinkOK(core.kind, Tail(toUxc), toCore', FALSE)
      BY <1>3, <1>5, <3>2
    <3> QED BY <1>1, <3>1, <3>3 DEF LinkInv
  <2>4. CASE uxc'.pc = "apply"
    <3>1. /\ m.result = "patch" /\ m.type = "finish" /\ q1.type = "finish"
          /\ uxc'.cur = TRUE /\ core.kind = "finish"
      BY <1>3, <1>4, <1>8, <2>1, <2>4, KindsDiffer DEF Live
    <3>2. LinkOK("finish", Tail(toUxc), Append(toCore, m), TRUE)
      BY <1>1, <1>3, <2>1, <2>2, <3>1, LinkAnswerPatch
    <3>3. LinkOK("finish", Tail(toUxc), toCore, TRUE)
      BY <2>1, <2>2 DEF LinkOK, NoLive, FinishKinds
    <3> QED BY <1>1, <1>3, <2>4, <3>1, <3>2, <3>3 DEF LinkInv
  <2> QED BY <2>3, <2>4
<1> QED BY <1>7, <1>8

LEMMA AppliedLink == ASSUME TypeInv, LinkInv, Applied PROVE LinkInv'
<1>1. toCore \in Seq(Msgs) /\ toUxc \in Seq(Msgs) /\ toUxc' = toUxc /\ core' = core /\ uxc.cur \in BOOLEAN
      /\ uxc'.cur = FALSE
  BY CoreFields DEF Applied, UxcFrame
<1>2. PICK m \in Msgs : /\ m.type = "finish" /\ m.cur = uxc.cur /\ m.result # "patch"
                        /\ toCore' \in {toCore, Append(toCore, m)}
  BY DEF Applied
<1>3. LinkOK(core.kind, toUxc, toCore, FALSE)
  BY LinkForget DEF LinkInv
<1>4. CASE ~uxc.cur
  <2>1. ~Live(m)
    BY <1>2, <1>4 DEF Live
  <2>2. LinkOK(core.kind, toUxc, Append(toCore, m), FALSE)
    BY <1>1, <1>2, <1>3, <2>1, LinkStaleAnswer
  <2> QED BY <1>1, <1>2, <1>3, <2>2 DEF LinkInv
<1>5. CASE uxc.cur
  <2>1. NoLive(toUxc) /\ PatchOK(toCore) /\ core.kind \in RspKinds("finish")
    BY <1>5, KindsDiffer DEF LinkInv, LinkOK, NoLive
  <2>2. /\ \A i \in 1 .. Len(toCore) : Live(toCore[i]) => toCore[i].result = "patch" /\ core.kind # "delta"
        /\ \A i \in 1 .. Len(toCore) : Live(toCore[i]) => core.kind \in RspKinds(toCore[i].type)
    BY <1>5 DEF LinkInv, LinkOK
  <2>3. \A i, j \in 1 .. Len(toCore) : i < j => ~Live(toCore[i]) \/ ~Live(toCore[j])
    BY <2>2 DEF LinkInv, LinkOK
  <2>4. LinkOK(core.kind, toUxc, Append(toCore, m), FALSE)
    BY <1>1, <1>2, <2>1, <2>2, <2>3, LinkAnswer
  <2> QED BY <1>1, <1>2, <1>3, <2>4 DEF LinkInv
<1> QED BY <1>4, <1>5

LEMMA RestartLink ==
    ASSUME NEW k, NEW r \in Seq(Msgs), LinkOK(k, << >>, r, FALSE), Restarted(r)
    PROVE  LinkOK(k, toUxc', toCore', uxc'.cur)
<1>1. PICK m \in Msgs : /\ m.type = "version" /\ m.cur = FALSE /\ m.result = "none"
                        /\ toCore' \in {r, Append(r, m)}
  BY DEF Restarted
<1>2. ~Live(m)
  BY <1>1 DEF Live
<1>3. toUxc' = << >> /\ uxc'.cur = FALSE
  BY DEF Restarted, UxcBoot
<1>4. LinkOK(k, << >>, Append(r, m), FALSE)
  BY <1>1, <1>2, EmptyAt, LinkStaleAnswer
<1> QED BY <1>1, <1>3, <1>4

LEMMA RestartsLink == ASSUME TypeInv, LinkInv, UxcRestarts \/ CoreRestarts PROVE LinkInv'
<1>1. CASE UxcRestarts
  <2>1. LinkOK(core.kind, << >>, toCore, FALSE)
    BY LinkForget DEF LinkInv
  <2>2. LinkOK(core.kind, toUxc', toCore', uxc'.cur)
    BY <1>1, <2>1, RestartLink, CoreFields DEF UxcRestarts
  <2> QED BY <1>1, <2>2 DEF UxcRestarts, Restarted, UxcBoot, LinkInv
<1>2. CASE CoreRestarts
  <2>1. core'.kind = "none" /\ core'.awaiting_delta = FALSE
    BY <1>2 DEF CoreRestarts, CoreBoot
  <2>2. CASE uxc'.cur = FALSE /\ toUxc' = Retired(toUxc) /\ toCore' = << >>
    <3>1. LinkOK("none", toUxc', toCore', FALSE)
      BY <2>2, CoreFields, RetiredLink, EmptyAt, LinkFree
    <3> QED BY <2>1, <2>2, <3>1 DEF LinkInv
  <2>3. CASE Restarted(<< >>)
    <3>1. LinkOK("none", << >>, << >>, FALSE)
      BY EmptyAt, LinkFree
    <3>2. LinkOK("none", toUxc', toCore', uxc'.cur)
      BY <2>3, <3>1, EmptyAt, RestartLink
    <3> QED BY <2>1, <2>3, <3>2 DEF LinkInv, Restarted, UxcBoot
  <2> QED BY <1>2, <2>2, <2>3 DEF CoreRestarts
<1> QED BY <1>1, <1>2

LEMMA LinkInit == Init => LinkInv
<1> SUFFICES ASSUME Init PROVE LinkInv
  OBVIOUS
<1>1. LinkOK("none", << >>, << >>, FALSE)
  BY EmptyAt, LinkFree
<1> QED BY <1>1 DEF Init, LinkInv, CoreBoot, UxcBoot

LEMMA LinkStep ==
    ASSUME TypeInv, TypeInv', LinkInv, echo, CoreDoes \/ UxcDoes \/ CoreRestarts
    PROVE  LinkInv' /\ echo'
<1>1. CASE CoreDoes
  <2>1. LinkInv'
    BY <1>1, LocalLink, RequestLink, CommitSentLink, TakesLink, VersionLink
       DEF CoreDoes, AnyRequest
  <2>2. echo' = echo
    BY <1>1 DEF CoreDoes, AnyRequest, Local, Request, LostRequest, Asking, CommitSent, Drops,
       TakesStart, TakesTransfer, TakesFinish, TakesCommit, TakesVersion, Takes, SameUxc
  <2> QED BY <2>1, <2>2
<1>2. CASE UxcDoes
  <2>1. CASE HandledStart \/ HandledTransfer \/ HandledFinish \/ HandledCommit
    <3>1. CASE HandledStart \/ HandledTransfer
      BY <3>1, HandledLink DEF HandledStart, HandledTransfer, UxcFrame, Handled
    <3>2. CASE HandledFinish
      BY <3>2, HandledLink DEF HandledFinish, UxcFrame, Handled
    <3>3. CASE HandledCommit
      BY <3>3, HandledLink DEF HandledCommit, UxcFrame, Handled
    <3> QED BY <2>1, <3>1, <3>2, <3>3
  <2>2. CASE Applied
    BY <2>2, AppliedLink DEF Applied, UxcFrame
  <2>3. CASE CommittedPatched
    BY <2>3 DEF CommittedPatched, UxcFrame, LinkInv
  <2>4. CASE UxcRestarts
    BY <2>4, RestartsLink DEF UxcRestarts
  <2> QED BY <1>2, <2>1, <2>2, <2>3, <2>4 DEF UxcDoes
<1>3. CASE CoreRestarts
  BY <1>3, RestartsLink DEF CoreRestarts
<1> QED BY <1>1, <1>2, <1>3

-----------------------------------------------------------------------------
(* What the operations of fwup.c do to the target slot; they leave the     *)
(* running one alone.                                                      *)
TImg(ch) == ch.img[fwup_target_slot(ch)]
TSig(ch) == ch.sig[fwup_target_slot(ch)]
SameRun(ch, c) == c.run = ch.run /\ c.img[ch.run] = ch.img[ch.run] /\ c.sig[ch.run] = ch.sig[ch.run]
SameRam(ch, c) == /\ c.pend = ch.pend /\ c.conf = ch.conf /\ c.patch = ch.patch
                  /\ c.open = ch.open /\ c.verified = ch.verified
SameTarget(ch, c) == TImg(c) = TImg(ch) /\ TSig(c) = TSig(ch)

LEMMA RunTarget ==
    ASSUME NEW ch, NEW c, c.run = ch.run PROVE fwup_target_slot(c) = fwup_target_slot(ch)
BY DEF fwup_target_slot

LEMMA SetImage ==
    ASSUME NEW ch \in Chips, NEW x \in Images, NEW c, c = [ch EXCEPT !.img[fwup_target_slot(ch)] = x]
    PROVE  /\ c \in Chips /\ SameRun(ch, c) /\ SameRam(ch, c)
           /\ TImg(c) = x /\ TSig(c) = TSig(ch)
<1> DEFINE t == fwup_target_slot(ch)
<1>1. t \in Slots /\ t # ch.run /\ ch.run \in Slots
  BY TargetSlot DEF Chips
<1>2. c = [ch EXCEPT !.img[t] = x]
  OBVIOUS
<1> HIDE DEF t
<1>3. c \in Chips /\ c.run = ch.run /\ c.sig = ch.sig /\ SameRam(ch, c)
  BY <1>1, <1>2 DEF Chips, SameRam
<1>4. c.img[t] = x /\ c.img[ch.run] = ch.img[ch.run]
  BY <1>1, <1>2 DEF Chips
<1>5. fwup_target_slot(c) = t
  BY <1>3, RunTarget DEF t
<1> QED BY <1>3, <1>4, <1>5 DEF SameRun, TImg, TSig, t

LEMMA SetSignature ==
    ASSUME NEW ch \in Chips, NEW x \in Images, NEW c, c = [ch EXCEPT !.sig[fwup_target_slot(ch)] = x]
    PROVE  /\ c \in Chips /\ SameRun(ch, c) /\ SameRam(ch, c)
           /\ TImg(c) = TImg(ch) /\ TSig(c) = x
<1> DEFINE t == fwup_target_slot(ch)
<1>1. t \in Slots /\ t # ch.run /\ ch.run \in Slots
  BY TargetSlot DEF Chips
<1>2. c = [ch EXCEPT !.sig[t] = x]
  OBVIOUS
<1> HIDE DEF t
<1>3. c \in Chips /\ c.run = ch.run /\ c.img = ch.img /\ SameRam(ch, c)
  BY <1>1, <1>2 DEF Chips, SameRam
<1>4. c.sig[t] = x /\ c.sig[ch.run] = ch.sig[ch.run]
  BY <1>1, <1>2 DEF Chips
<1>5. fwup_target_slot(c) = t
  BY <1>3, RunTarget DEF t
<1> QED BY <1>3, <1>4, <1>5 DEF SameRun, TImg, TSig, t

\* Only fields in RAM change.
LEMMA SameFlash ==
    ASSUME NEW ch, NEW c, c.run = ch.run, c.img = ch.img, c.sig = ch.sig
    PROVE  SameRun(ch, c) /\ SameTarget(ch, c)
BY RunTarget DEF SameRun, SameTarget, TImg, TSig

LEMMA ErasedFacts ==
    ASSUME NEW ch \in Chips
    PROVE  /\ Erased(ch) \in Chips /\ SameRun(ch, Erased(ch)) /\ SameRam(ch, Erased(ch))
           /\ TImg(Erased(ch)) = 0 /\ TSig(Erased(ch)) = 0
           /\ HalfErased(ch) \in Chips /\ SameRun(ch, HalfErased(ch)) /\ SameRam(ch, HalfErased(ch))
           /\ TImg(HalfErased(ch)) = Junk /\ TSig(HalfErased(ch)) = TSig(ch)
<1> DEFINE t == fwup_target_slot(ch)
<1> DEFINE c == [ch EXCEPT !.img[t] = 0]
<1> DEFINE e == [c EXCEPT !.sig[fwup_target_slot(c)] = 0]
<1>1. c \in Chips /\ SameRun(ch, c) /\ SameRam(ch, c) /\ TImg(c) = 0 /\ TSig(c) = TSig(ch)
  BY SetImage, Constants
<1>2. e \in Chips /\ SameRun(c, e) /\ SameRam(c, e) /\ TImg(e) = 0 /\ TSig(e) = 0
  <2> HIDE DEF c
  <2> QED BY <1>1, SetSignature, Constants
<1>3. Erased(ch) = e
  <2>1. fwup_target_slot(c) = t /\ t \in Slots
    BY <1>1, RunTarget, TargetSlot DEF SameRun
  <2> QED BY <2>1 DEF Erased, Chips
<1>4. SameRun(ch, e) /\ SameRam(ch, e)
  <2> HIDE DEF c, e
  <2> QED BY <1>1, <1>2 DEF SameRun, SameRam
<1>5. /\ HalfErased(ch) \in Chips /\ SameRun(ch, HalfErased(ch)) /\ SameRam(ch, HalfErased(ch))
      /\ TImg(HalfErased(ch)) = Junk /\ TSig(HalfErased(ch)) = TSig(ch)
  BY SetImage, Constants DEF HalfErased
<1> QED BY <1>2, <1>3, <1>4, <1>5

LEMMA StartFacts ==
    ASSUME NEW ch \in Chips, NEW cmd \in Cmds, NEW o \in fwup_start(ch, cmd)
    PROVE  /\ SameRun(ch, o.ch)
           /\ o.ch.conf = cmd.v /\ o.ch.pend = 0 /\ o.ch.verified = FALSE /\ o.ch.patch = 0
           /\ cmd.mode = "normal" =>
                /\ o.ch.open = FALSE
                /\ (TImg(o.ch) = 0 /\ TSig(o.ch) = 0) \/ TImg(o.ch) = Junk
<1> DEFINE opened == [ch EXCEPT !.conf = cmd.v, !.pend = 0, !.verified = FALSE,
                                !.patch = 0, !.open = (cmd.mode = "delta")]
<1> DEFINE closed == [opened EXCEPT !.open = FALSE]
<1>1. (cmd.mode = "delta") \in BOOLEAN /\ cmd.v \in 0 .. MaxVersion /\ 0 \in 0 .. MaxVersion
  BY Constants DEF Cmds
<1>2. /\ opened \in Chips /\ opened.run = ch.run /\ opened.img = ch.img /\ opened.sig = ch.sig
      /\ opened.conf = cmd.v /\ opened.pend = 0 /\ opened.verified = FALSE /\ opened.patch = 0
      /\ opened.open = (cmd.mode = "delta")
  BY <1>1 DEF Chips
<1>3. /\ closed \in Chips /\ closed.run = ch.run /\ closed.img = ch.img /\ closed.sig = ch.sig
      /\ closed.conf = cmd.v /\ closed.pend = 0 /\ closed.verified = FALSE /\ closed.patch = 0
  BY <1>1 DEF Chips
<1>4. o.ch \in (IF cmd.mode = "delta" THEN {opened, closed}
                ELSE {Erased(opened), HalfErased(opened)})
  BY DEF fwup_start, Outcome
<1> HIDE DEF opened, closed
<1>5. CASE cmd.mode = "delta"
  BY <1>2, <1>3, <1>4, <1>5, SameFlash
<1>6. CASE cmd.mode # "delta"
  <2>1. SameRun(ch, opened)
    BY <1>2, SameFlash
  <2>2. SameRun(opened, o.ch) /\ SameRam(opened, o.ch)
        /\ ((TImg(o.ch) = 0 /\ TSig(o.ch) = 0) \/ TImg(o.ch) = Junk)
    BY <1>2, <1>4, <1>6, ErasedFacts
  <2> QED BY <1>2, <1>6, <2>1, <2>2 DEF SameRun, SameRam
<1> QED BY <1>5, <1>6

\* c: the chip after a part of the update cmd was received.
Transferred(ch, c, cmd) ==
    /\ SameRun(ch, c)
    /\ c.conf = ch.conf /\ c.open = ch.open
    /\ \/ /\ SameTarget(ch, c)
          /\ c.pend = cmd.v /\ c.verified = FALSE /\ c.patch = ch.patch
       \/ /\ c.pend = ch.pend /\ c.verified = ch.verified
          /\ SameTarget(ch, c) /\ (c.patch = ch.patch \/ ch.open = TRUE)
       \/ /\ c.pend = ch.pend /\ c.verified = ch.verified /\ c.patch = ch.patch
          /\ cmd.mode = "normal" /\ TSig(c) = TSig(ch)
          /\ TImg(c) \in {Program(TImg(ch), cmd.v), Junk}

LEMMA TransferFacts ==
    ASSUME NEW ch \in Chips, NEW cmd \in Cmds, NEW part \in Loads, NEW o \in fwup_transfer(ch, part, cmd)
    PROVE  Transferred(ch, o.ch, cmd)
<1> DEFINE t == fwup_target_slot(ch)
<1> DEFINE c1 == [ch EXCEPT !.pend = cmd.v, !.verified = FALSE]
<1> DEFINE c2 == [ch EXCEPT !.patch = cmd.v]
<1> DEFINE c3 == [ch EXCEPT !.img[t] = Program(@, cmd.v)]
<1> DEFINE c4 == [ch EXCEPT !.img[t] = Junk]
<1>1. cmd.v \in 0 .. MaxVersion /\ cmd.v \in Images /\ t \in Slots /\ cmd.mode \in {"normal", "delta"}
  BY Constants, TargetSlot DEF Cmds
<1>2. /\ part = "sig" => o.ch = c1
      /\ part = "body" /\ cmd.mode = "delta" => o.ch = ch \/ (ch.open /\ o.ch = c2)
      /\ part = "body" /\ cmd.mode # "delta" => o.ch \in {c3, c4}
  BY DEF fwup_transfer, Outcome, Loads
<1>3. CASE part = "sig"
  <2>1. o.ch = c1
    BY <1>2, <1>3
  <2>2. /\ c1.run = ch.run /\ c1.img = ch.img /\ c1.sig = ch.sig /\ c1.pend = cmd.v
        /\ c1.verified = FALSE /\ c1.patch = ch.patch /\ c1.conf = ch.conf /\ c1.open = ch.open
    BY DEF Chips
  <2> HIDE DEF c1
  <2> QED BY <2>1, <2>2, SameFlash DEF Transferred
<1>4. CASE part = "body" /\ cmd.mode = "delta"
  <2>1. o.ch = ch \/ (ch.open /\ o.ch = c2)
    BY <1>2, <1>4
  <2>2. /\ c2.run = ch.run /\ c2.img = ch.img /\ c2.sig = ch.sig /\ c2.pend = ch.pend
        /\ c2.verified = ch.verified /\ c2.conf = ch.conf /\ c2.open = ch.open
    BY DEF Chips
  <2> HIDE DEF c2
  <2>3. ch.open = TRUE \/ ch.open = FALSE
    BY DEF Chips
  <2> QED BY <2>1, <2>2, <2>3, SameFlash DEF Transferred
<1>5. CASE part = "body" /\ cmd.mode = "normal"
  <2>1. o.ch \in {c3, c4}
    BY <1>2, <1>5
  <2>2. ch.img[t] \in Images /\ Program(ch.img[t], cmd.v) \in Images
    BY <1>1, ProgramType DEF Chips
  <2>3. c3 = [ch EXCEPT !.img[t] = Program(ch.img[t], cmd.v)]
    BY <1>1 DEF Chips
  <2>4. SameRun(ch, c3) /\ SameRam(ch, c3) /\ TImg(c3) = Program(TImg(ch), cmd.v) /\ TSig(c3) = TSig(ch)
    <3>1. TImg(ch) = ch.img[t]
      BY DEF TImg
    <3> HIDE DEF c3
    <3> QED BY <2>2, <2>3, <3>1, SetImage
  <2>5. SameRun(ch, c4) /\ SameRam(ch, c4) /\ TImg(c4) = Junk /\ TSig(c4) = TSig(ch)
    BY SetImage, Constants
  <2> HIDE DEF c3, c4
  <2> QED BY <1>5, <2>1, <2>4, <2>5 DEF SameRam, Transferred
<1> QED BY <1>1, <1>3, <1>4, <1>5 DEF Loads

LEMMA CommitFacts ==
    ASSUME NEW ch \in Chips, NEW o \in fwup_commit_signature(ch)
    PROVE  \/ ch.pend = 0 /\ o.ch = ch /\ ~o.ok
           \/ /\ ch.pend # 0 /\ SameRun(ch, o.ch) /\ SameRam(ch, o.ch) /\ TImg(o.ch) = TImg(ch)
              /\ \/ TSig(o.ch) = Program(TSig(ch), ch.pend)
                 \/ TSig(o.ch) = 0 /\ ~o.ok
<1> DEFINE t == fwup_target_slot(ch)
<1> DEFINE c1 == [ch EXCEPT !.sig[t] = Program(@, ch.pend)]
<1> DEFINE c2 == [ch EXCEPT !.sig[t] = 0]
<1>1. CASE ch.pend = 0
  BY <1>1 DEF fwup_commit_signature, Outcome
<1>2. CASE ch.pend # 0
  <2>1. o = Outcome(TRUE, c1, 0) \/ o = Outcome(FALSE, c2, 1)
    BY <1>2 DEF fwup_commit_signature, fwup_commit_signature_to
  <2>2. o.ch = c1 \/ (o.ch = c2 /\ ~o.ok)
    BY <2>1 DEF Outcome
  <2>3. t \in Slots /\ ch.sig[t] \in Images /\ ch.pend \in Images
    BY TargetSlot, Constants DEF Chips
  <2>4. Program(ch.sig[t], ch.pend) \in Images
    BY <2>3, ProgramType
  <2>5. c1 = [ch EXCEPT !.sig[t] = Program(ch.sig[t], ch.pend)]
    BY <2>3 DEF Chips
  <2>6. SameRun(ch, c1) /\ SameRam(ch, c1) /\ TSig(c1) = Program(TSig(ch), ch.pend) /\ TImg(c1) = TImg(ch)
    <3>1. TSig(ch) = ch.sig[t]
      BY DEF TSig
    <3> HIDE DEF c1
    <3> QED BY <2>4, <2>5, <3>1, SetSignature
  <2>7. SameRun(ch, c2) /\ SameRam(ch, c2) /\ TSig(c2) = 0 /\ TImg(c2) = TImg(ch)
    BY SetSignature, Constants
  <2> HIDE DEF c1, c2
  <2> QED BY <1>2, <2>2, <2>6, <2>7
<1> QED BY <1>1, <1>2

LEMMA FinishFacts ==
    ASSUME NEW ch \in Chips, NEW o \in fwup_finish(ch, "normal")
    PROVE  /\ SameRun(ch, o.ch) /\ SameTarget(ch, o.ch) /\ o.ch \in Chips
           /\ o.ch.pend = ch.pend /\ o.ch.conf = ch.conf /\ o.ch.patch = ch.patch
           /\ o.ch.open = ch.open /\ o.ch.verified = o.ok
           /\ o.ok => ch.pend # 0 /\ TImg(ch) = ch.pend /\ ch.conf = TImg(ch)
<1> DEFINE c == [ch EXCEPT !.verified = Verifies(ch)]
<1>1. o = Outcome(Verifies(ch), c, 0)
  BY DEF fwup_finish
<1>2. o.ok = Verifies(ch) /\ o.ch = c
  BY <1>1 DEF Outcome
<1>3. Verifies(ch) \in BOOLEAN
  BY DEF Verifies
<1>4. /\ c \in Chips /\ c.run = ch.run /\ c.img = ch.img /\ c.sig = ch.sig /\ c.pend = ch.pend
      /\ c.conf = ch.conf /\ c.patch = ch.patch /\ c.open = ch.open /\ c.verified = Verifies(ch)
  BY <1>3 DEF Chips
<1> HIDE DEF c
<1>5. Verifies(ch) => ch.pend # 0 /\ TImg(ch) = ch.pend /\ ch.conf = TImg(ch)
  BY DEF Verifies, TImg
<1> QED BY <1>2, <1>4, <1>5, SameFlash

LEMMA ApplyFacts ==
    ASSUME NEW ch \in Chips, NEW o \in fwup_finish(ch, "delta")
    PROVE  \/ o.ch = ch
           \/ /\ SameRun(ch, o.ch)
              /\ o.ch.pend = ch.pend /\ o.ch.conf = ch.conf /\ o.ch.patch = 0
              /\ \/ o.ch.verified = ch.verified
                 \/ /\ TSig(o.ch) = 0
                    /\ o.ch.verified => /\ ch.pend # 0 /\ TImg(o.ch) = ch.pend
                                        /\ ch.conf = TImg(o.ch)
<1> DEFINE t == fwup_target_slot(ch)
<1> DEFINE e == Erased(ch)
<1> DEFINE c1 == [e EXCEPT !.img[t] = ch.patch]
<1> DEFINE applied == [e EXCEPT !.img[t] = ch.patch, !.patch = 0]
<1> DEFINE done == [applied EXCEPT !.verified = Verifies(applied)]
<1> DEFINE h == HalfErased(ch)
<1> DEFINE half == [h EXCEPT !.patch = 0]
<1>1. \/ o.ch = ch
      \/ o = Outcome(Verifies(applied), done, 0)
      \/ o = Outcome(FALSE, half, 1)
  BY DEF fwup_finish, Outcome
<1>2. o.ch = ch \/ o.ch = done \/ o.ch = half
  <2> HIDE DEF done, half
  <2> QED BY <1>1 DEF Outcome
<1>3. /\ e \in Chips /\ SameRun(ch, e) /\ SameRam(ch, e) /\ TSig(e) = 0
      /\ h \in Chips /\ SameRun(ch, h) /\ SameRam(ch, h)
  BY ErasedFacts
<1>4. ch.patch \in Images /\ t = fwup_target_slot(e) /\ t \in Slots
  BY <1>3, Constants, RunTarget, TargetSlot DEF SameRun, Chips
<1> HIDE DEF e, h, t
<1>5. /\ c1 \in Chips /\ SameRun(e, c1) /\ SameRam(e, c1) /\ TImg(c1) = ch.patch /\ TSig(c1) = 0
  BY <1>3, <1>4, SetImage
<1>6. applied = [c1 EXCEPT !.patch = 0]
  BY <1>3, <1>4 DEF Chips
<1> HIDE DEF c1
<1>7. /\ applied \in Chips /\ applied.run = c1.run /\ applied.img = c1.img /\ applied.sig = c1.sig
      /\ applied.pend = c1.pend /\ applied.conf = c1.conf /\ applied.patch = 0
  BY <1>5, <1>6, Constants DEF Chips
<1> HIDE DEF applied
<1>8. Verifies(applied) \in BOOLEAN /\
      (Verifies(applied) => /\ applied.pend # 0 /\ TImg(applied) = applied.pend
                            /\ applied.conf = TImg(applied))
  BY DEF Verifies, TImg
<1>9. /\ done.run = applied.run /\ done.img = applied.img /\ done.sig = applied.sig
      /\ done.pend = applied.pend /\ done.conf = applied.conf /\ done.patch = applied.patch
      /\ done.verified = Verifies(applied)
  BY <1>7, <1>8 DEF Chips
<1>10. /\ half.run = h.run /\ half.img = h.img /\ half.sig = h.sig /\ half.patch = 0
       /\ half.pend = h.pend /\ half.conf = h.conf /\ half.verified = h.verified
  BY <1>3 DEF Chips
<1> HIDE DEF done, half
<1>11. CASE o.ch = done
  <2>1. SameRun(c1, applied) /\ SameTarget(c1, applied)
    BY <1>7, SameFlash
  <2>2. SameRun(applied, done) /\ SameTarget(applied, done)
    BY <1>9, SameFlash
  <2>3. SameRun(ch, done)
    BY <1>3, <1>5, <2>1, <2>2 DEF SameRun
  <2>4. done.pend = ch.pend /\ done.conf = ch.conf /\ done.patch = 0 /\ TSig(done) = 0
    BY <1>3, <1>5, <1>7, <1>9, <2>1, <2>2 DEF SameRam, SameTarget
  <2>5. done.verified => ch.pend # 0 /\ TImg(done) = ch.pend /\ ch.conf = TImg(done)
    BY <1>3, <1>5, <1>7, <1>8, <1>9, <2>2 DEF SameRam, SameTarget
  <2> QED BY <1>11, <2>3, <2>4, <2>5
<1>12. CASE o.ch = half
  <2>1. SameRun(h, half)
    BY <1>10, SameFlash
  <2>2. SameRun(ch, half)
    BY <1>3, <2>1 DEF SameRun
  <2> QED BY <1>3, <1>10, <1>12, <2>2 DEF SameRam
<1> QED BY <1>2, <1>11, <1>12

-----------------------------------------------------------------------------
(* When Core waits for the end of an update of the UXC it does not commit, *)
(* and when it is about to commit the app is not updating.                 *)
PhaseInv ==
    /\ core.kind \in FinishKinds =>
         core.reset_pending /\ pc # "send_commit" /\ ~core.awaiting_commit
    /\ core.awaiting_commit => core.reset_pending
    /\ pc = "send_commit" => app.step = "idle"

LEMMA PhaseInit == Init => PhaseInv
BY DEF Init, PhaseInv, CoreBoot, FinishKinds

LEMMA PhaseStep ==
    ASSUME TypeInv, LinkInv, echo, PhaseInv, CoreDoes \/ UxcDoes \/ CoreRestarts
    PROVE  PhaseInv'
<1>1. CASE Local
  BY <1>1 DEF Local, LocalPc, SameCommit, PhaseInv, FinishKinds
<1>2. CASE AnyRequest
  <2>1. PICK type \in ReqTypes : Request(type) \/ LostRequest(type)
    BY <1>2 DEF AnyRequest
  <2>2. pc' = pc /\ pc = "loop" /\ core'.awaiting_commit = core.awaiting_commit /\ ~core.reset_pending
    BY <2>1 DEF Request, LostRequest, Asking
  <2>3. ~core'.awaiting_commit
    BY <2>2 DEF PhaseInv
  <2>4. core'.kind \in FinishKinds => core'.reset_pending
    <3>1. CASE Request(type)
      <4>1. core'.kind \in ReqKinds(type) /\ core'.reset_pending = (type = "finish")
        BY <3>1 DEF Request
      <4>2. type # "finish" => ReqKinds(type) \cap FinishKinds = {}
        BY DEF ReqTypes, ReqKinds, Loads, StartKinds, FinishKinds
      <4> QED BY <4>1, <4>2
    <3>2. CASE LostRequest(type)
      BY <3>2 DEF LostRequest, FinishKinds
    <3> QED BY <2>1, <3>1, <3>2
  <2> QED BY <2>2, <2>3, <2>4 DEF PhaseInv
<1>3. CASE CommitSent
  BY <1>3 DEF CommitSent, PhaseInv, FinishKinds
<1>4. CASE Drops
  BY <1>4 DEF Drops, Takes, PhaseInv
<1>5. CASE TakesStart \/ TakesTransfer
  <2>1. core'.kind \in IdleKinds /\ SameCommit /\ pc' = pc /\ pc = "loop"
    BY <1>5 DEF TakesStart, TakesTransfer, IdleKinds, Takes
  <2> QED BY <2>1 DEF PhaseInv, SameCommit, IdleKinds, FinishKinds
<1>6. CASE TakesFinish
  <2>1. core.kind \in FinishKinds
    <3>1. Takes({"finish"}) /\ Current /\ toCore[1].type = "finish"
      BY <1>6 DEF TakesFinish, Takes
    <3> QED BY <3>1, LiveAnswer, KindsDiffer
  <2>2. core.reset_pending /\ ~core.awaiting_commit /\ pc = "loop"
    BY <1>6, <2>1 DEF PhaseInv, TakesFinish, Takes
  <2> QED BY <1>6, <2>2 DEF TakesFinish, PhaseInv, SameCommit, FinishKinds
<1>7. CASE TakesCommit
  BY <1>7 DEF TakesCommit, PhaseInv, FinishKinds
<1>8. CASE TakesVersion
  BY <1>8 DEF TakesVersion, PhaseInv, FinishKinds, SameCommit
<1>9. CASE UxcDoes
  <2>1. UNCHANGED <<core, pc, app>>
    BY <1>9 DEF UxcDoes, HandledStart, HandledTransfer, HandledFinish, HandledCommit, Handled,
       Applied, CommittedPatched, UxcRestarts, UxcFrame
  <2> QED BY <2>1 DEF PhaseInv
<1>10. CASE CoreRestarts
  BY <1>10 DEF CoreRestarts, CoreBoot, PhaseInv, FinishKinds
<1> QED BY <1>1, <1>2, <1>3, <1>4, <1>5, <1>6, <1>7, <1>8, <1>9, <1>10 DEF CoreDoes

-----------------------------------------------------------------------------
(* The update of the UXC *)
U == chip["Uxc"]

\* The image of the target slot is the confirmed one, as far as it has come.
Fresh(ch) == /\ ch.patch = 0 /\ TImg(ch) \in {0, ch.conf, Junk}
             /\ TImg(ch) # Junk => TSig(ch) \in {0, ch.conf}

\* The update c was begun, unless the chip has restarted since then.
Begun(ch, c) ==
    /\ ch.conf \in {0, c.v}
    /\ c.mode = "normal" /\ ch.conf # 0 => Fresh(ch) /\ ~ch.open

\* What was verified is the confirmed image.
HeldOK(ch, p) ==
    /\ ch.conf # 0 => ch.pend \in {0, ch.conf}
    /\ p = "apply" => ~ch.verified /\ ch.patch # 0
    /\ ch.verified => /\ ch.conf # 0 /\ ch.pend = ch.conf /\ ch.patch = 0
                      /\ TImg(ch) \in {ch.conf, Junk}
                      /\ TImg(ch) = ch.conf => TSig(ch) \in {0, ch.conf}

Types(q, types) == \A i \in 1 .. Len(q) : q[i].type \in types

\* The parts of an update are queued in their order, behind what began it.
QueueOK(q, ch, p) ==
    \A j \in 1 .. Len(q) : q[j].type \in Parts =>
        /\ \A i \in 1 .. Len(q) :
             i < j => q[i].type \in (IF q[j].type \in Loads THEN Loads ELSE Parts)
        /\ q[j].type \in Loads => ~ch.verified /\ p = "loop"
        /\ Begun(ch, q[j].cmd)

Quiet(c) == /\ Begun(U, c) /\ Types(toUxc, Loads)
            /\ ~U.verified /\ uxc.pc = "loop"
OnUxc(steps) == app.cmd.mcu = "Uxc" /\ app.step \in steps

AppInv ==
    /\ OnUxc({"open", "body"}) => Quiet(app.cmd)
    /\ OnUxc({"sig"}) => Begun(U, app.cmd) /\ Types(toUxc, Parts)
    /\ OnUxc({"start", "confirm"}) /\ core.kind \in StartKinds =>
         /\ \A i \in 1 .. Len(toCore) :
              Live(toCore[i]) /\ toCore[i].type = "start" => Quiet(app.cmd)
         /\ \A i \in 1 .. Len(toUxc) :
              Live(toUxc[i]) /\ toUxc[i].type = "start"
                => i = Len(toUxc) /\ toUxc[i].cmd = app.cmd
    /\ OnUxc({"confirm"}) /\ core.kind \in {"cached_ok", "cached_error"} => Quiet(app.cmd)

QueueInv == QueueOK(toUxc, U, uxc.pc)
HeldInv == HeldOK(U, uxc.pc)
LoadInv == QueueInv /\ AppInv /\ HeldInv

-----------------------------------------------------------------------------
(* The operations of fwup.c keep what was begun *)
LEMMA ChipNumbers ==
    ASSUME NEW ch \in Chips
    PROVE  /\ ch.conf \in 0 .. MaxVersion /\ ch.pend \in 0 .. MaxVersion
           /\ ch.patch \in 0 .. MaxVersion /\ ch.conf # Junk /\ ch.pend # Junk
           /\ ch.verified \in BOOLEAN /\ ch.open \in BOOLEAN
BY DEF Chips, Junk

LEMMA StartBegins ==
    ASSUME NEW ch \in Chips, NEW cmd \in Cmds, NEW o \in fwup_start(ch, cmd)
    PROVE  Begun(o.ch, cmd) /\ HeldOK(o.ch, "loop") /\ ~o.ch.verified
BY StartFacts DEF Begun, HeldOK, Fresh

LEMMA TransferKeeps ==
    ASSUME NEW ch \in Chips, NEW cmd \in Cmds, NEW part \in Loads,
           NEW o \in fwup_transfer(ch, part, cmd),
           Begun(ch, cmd), ~ch.verified, HeldOK(ch, "loop")
    PROVE  /\ ~o.ch.verified /\ HeldOK(o.ch, "loop")
           /\ \A c \in Cmds : Begun(ch, c) => Begun(o.ch, c)
<1>1. Transferred(ch, o.ch, cmd)
  BY TransferFacts
<1>2. ~o.ch.verified
  BY <1>1 DEF Transferred
<1>3. HeldOK(o.ch, "loop")
  BY <1>1, <1>2 DEF HeldOK, Begun, Transferred
<1>4. ASSUME NEW c \in Cmds, Begun(ch, c), c.mode = "normal", ch.conf # 0
      PROVE  Fresh(o.ch) /\ ~o.ch.open
  <2>1. Fresh(ch) /\ ~ch.open
    BY <1>4 DEF Begun
  <2>2. CASE SameTarget(ch, o.ch) /\ o.ch.patch = ch.patch
    BY <1>1, <2>1, <2>2 DEF Fresh, SameTarget, Transferred
  <2>3. CASE /\ o.ch.patch = ch.patch
             /\ cmd.mode = "normal" /\ TSig(o.ch) = TSig(ch)
             /\ TImg(o.ch) \in {Program(TImg(ch), cmd.v), Junk}
    <3>1. cmd.v = ch.conf
      BY <1>4 DEF Begun
    <3>2. ch.conf # Junk /\ Junk # 0
      BY ChipNumbers, Constants DEF Junk
    <3>3. Program(TImg(ch), cmd.v) \in {ch.conf, Junk}
          /\ (Program(TImg(ch), cmd.v) # Junk => TImg(ch) # Junk)
      BY <3>1, <3>2 DEF Program
    <3> QED BY <1>1, <2>1, <2>3, <3>3 DEF Fresh, Transferred
  <2> QED BY <1>1, <2>1, <2>2, <2>3 DEF Transferred
<1>5. \A c \in Cmds : Begun(ch, c) => Begun(o.ch, c)
  BY <1>1, <1>4 DEF Begun, Transferred
<1> QED BY <1>2, <1>3, <1>5

LEMMA CommitKeeps ==
    ASSUME NEW ch \in Chips, NEW o \in fwup_commit_signature(ch), NEW p, HeldOK(ch, p)
    PROVE  HeldOK(o.ch, p) /\ \A c \in Cmds : Begun(ch, c) => Begun(o.ch, c)
<1>1. CASE o.ch = ch
  BY <1>1
<1>2. CASE /\ ch.pend # 0 /\ SameRam(ch, o.ch) /\ TImg(o.ch) = TImg(ch)
           /\ TSig(o.ch) \in {Program(TSig(ch), ch.pend), 0}
  <2>1. /\ o.ch.pend = ch.pend /\ o.ch.conf = ch.conf /\ o.ch.patch = ch.patch
        /\ o.ch.open = ch.open /\ o.ch.verified = ch.verified
    BY <1>2 DEF SameRam
  <2>2. ch.conf # 0 => ch.pend = ch.conf
    BY <1>2 DEF HeldOK
  <2>3. ch.conf # 0 /\ TSig(ch) \in {0, ch.conf} => TSig(o.ch) \in {0, ch.conf}
    BY <1>2, <2>2 DEF Program
  <2>4. HeldOK(o.ch, p)
    BY <1>2, <2>1, <2>3 DEF HeldOK
  <2>5. ch.conf # 0 /\ Fresh(ch) => Fresh(o.ch)
    BY <1>2, <2>1, <2>3 DEF Fresh
  <2> QED BY <2>1, <2>4, <2>5 DEF Begun
<1> QED BY <1>1, <1>2, CommitFacts

LEMMA FinishKeeps ==
    ASSUME NEW ch \in Chips, NEW cmd \in Cmds, cmd.mode = "normal", Begun(ch, cmd),
           NEW o \in fwup_finish(ch, "normal"), HeldOK(ch, "loop")
    PROVE  o.ch \in Chips /\ HeldOK(o.ch, "loop") /\ \A c \in Cmds : Begun(ch, c) => Begun(o.ch, c)
<1>1. /\ SameTarget(ch, o.ch) /\ o.ch \in Chips
      /\ o.ch.pend = ch.pend /\ o.ch.conf = ch.conf /\ o.ch.patch = ch.patch
      /\ o.ch.open = ch.open /\ o.ch.verified = o.ok
      /\ o.ok => ch.pend # 0 /\ TImg(ch) = ch.pend /\ ch.conf = TImg(ch)
  BY FinishFacts
<1>2. Fresh(ch) => Fresh(o.ch)
  BY <1>1 DEF Fresh, SameTarget
<1>3. \A c \in Cmds : Begun(ch, c) => Begun(o.ch, c)
  BY <1>1, <1>2 DEF Begun
<1>4. ch.conf # Junk
  BY ChipNumbers
<1>5. HeldOK(o.ch, "loop")
  BY <1>1, <1>4 DEF HeldOK, Begun, Fresh, SameTarget
<1> QED BY <1>1, <1>3, <1>5

LEMMA ApplyKeeps ==
    ASSUME NEW ch \in Chips, NEW o \in fwup_finish(ch, "delta"), HeldOK(ch, "apply")
    PROVE  HeldOK(o.ch, "loop") /\ \A c \in Cmds : Begun(ch, c) => Begun(o.ch, c)
<1>1. ~ch.verified /\ ch.patch # 0
  BY DEF HeldOK
<1>2. \/ o.ch = ch
      \/ /\ o.ch.pend = ch.pend /\ o.ch.conf = ch.conf /\ o.ch.patch = 0
         /\ \/ o.ch.verified = ch.verified
            \/ /\ TSig(o.ch) = 0
               /\ o.ch.verified => /\ ch.pend # 0 /\ TImg(o.ch) = ch.pend
                                   /\ ch.conf = TImg(o.ch)
  BY ApplyFacts
<1>3. \A c \in Cmds : Begun(ch, c) => Begun(o.ch, c)
  BY <1>1, <1>2 DEF Begun, Fresh
<1>4. HeldOK(o.ch, "loop")
  BY <1>1, <1>2 DEF HeldOK
<1> QED BY <1>3, <1>4

LEMMA BootBegins ==
    ASSUME NEW ch \in Chips
    PROVE  HeldOK(Boot(ch), "loop") /\ ~Boot(ch).verified /\ \A c : Begun(Boot(ch), c)
<1>1. Boot(ch).conf = 0 /\ Boot(ch).pend = 0 /\ Boot(ch).verified = FALSE
  BY DEF Boot, Chips
<1> QED BY <1>1 DEF HeldOK, Begun

LEMMA HeldElsewhere ==
    ASSUME NEW ch, NEW p, NEW p1, HeldOK(ch, p), p1 # "apply" PROVE HeldOK(ch, p1)
BY DEF HeldOK

-----------------------------------------------------------------------------
(* LoadInv is inductive *)
LEMMA UxcChip ==
    ASSUME TypeInv
    PROVE  /\ U \in Chips /\ Sound(U) /\ toUxc \in Seq(Msgs) /\ toCore \in Seq(Msgs)
           /\ app.cmd \in Cmds /\ uxc.pc \in {"loop", "apply", "commit", "reset"}
           /\ \A i \in 1 .. Len(toUxc) : toUxc[i].cmd \in Cmds
<1>1. U \in Chips /\ Sound(U)
  BY DEF TypeInv, ChipInv, U, Sound
<1>2. app.cmd \in Cmds /\ uxc.pc \in {"loop", "apply", "commit", "reset"}
  BY CoreFields DEF Apps, Uxcs
<1>3. toUxc \in Seq(Msgs) /\ toCore \in Seq(Msgs)
  BY CoreFields
<1>4. \A i \in 1 .. Len(toUxc) : toUxc[i].cmd \in Cmds
  BY <1>3, MsgFields
<1> QED BY <1>1, <1>2, <1>3, <1>4

LEMMA LoadInit == Init => LoadInv
<1> SUFFICES ASSUME Init PROVE LoadInv
  OBVIOUS
<1>1. toUxc = << >> /\ Len(toUxc) = 0 /\ app.step = "idle"
  BY EmptyAt DEF Init, Idle
<1>2. U.conf = 0 /\ U.verified = FALSE /\ uxc.pc = "loop"
  BY DEF Init, U, UxcBoot
<1> QED BY <1>1, <1>2 DEF LoadInv, QueueInv, QueueOK, AppInv, OnUxc, HeldInv, HeldOK

LEMMA LocalLoad == ASSUME TypeInv, LoadInv, Local PROVE LoadInv'
<1>1. U' = U /\ UNCHANGED <<uxc, toUxc, toCore>>
  BY DEF Local, SameUxc, U
<1>2. QueueInv' /\ HeldInv'
  BY <1>1 DEF LoadInv, QueueInv, HeldInv
<1> SUFFICES AppInv'
  BY <1>2 DEF LoadInv
<1>4. CASE app' = app /\ core'.kind = core.kind
  BY <1>1, <1>4 DEF LoadInv, AppInv, OnUxc, Quiet
<1>5. CASE OffUxc(app')
  BY <1>5 DEF OffUxc, AppInv, OnUxc
<1>6. CASE app'.step = "confirm" /\ core'.kind = "none"
  BY <1>6 DEF AppInv, OnUxc, StartKinds
<1>7. CASE /\ app.cmd.mcu = "Uxc" /\ app.step = "confirm" /\ core.kind \in IdleKinds \ {"none"}
           /\ app'.cmd = app.cmd /\ app'.step = "open"
  <2>1. Quiet(app.cmd)
    BY <1>7 DEF LoadInv, AppInv, OnUxc, IdleKinds
  <2>2. Quiet(app.cmd)'
    BY <1>1, <1>7, <2>1 DEF Quiet
  <2> QED BY <1>7, <2>2 DEF AppInv, OnUxc
<1> QED BY <1>4, <1>5, <1>6, <1>7 DEF Local, LocalApp

\* A message at the end of the queue.
LEMMA QueueAppend ==
    ASSUME NEW q \in Seq(Msgs), NEW m \in Msgs, NEW ch, NEW p, QueueOK(q, ch, p),
           m.type \in Parts => /\ Types(q, IF m.type \in Loads THEN Loads ELSE Parts)
                               /\ m.type \in Loads => ~ch.verified /\ p = "loop"
                               /\ Begun(ch, m.cmd)
    PROVE  QueueOK(Append(q, m), ch, p)
<1> DEFINE a == Append(q, m)
<1>1. /\ \A i \in 1 .. Len(a) : i \in 1 .. Len(q) \/ i = Len(q) + 1
      /\ \A i \in 1 .. Len(q) : a[i] = q[i]
      /\ a[Len(q) + 1] = m
  BY AppendAt
<1> HIDE DEF a
<1> SUFFICES ASSUME NEW j \in 1 .. Len(a), a[j].type \in Parts
             PROVE  /\ \A i \in 1 .. Len(a) :
                         i < j => a[i].type \in (IF a[j].type \in Loads THEN Loads ELSE Parts)
                    /\ a[j].type \in Loads => ~ch.verified /\ p = "loop"
                    /\ Begun(ch, a[j].cmd)
  BY DEF QueueOK, a
<1>2. CASE j \in 1 .. Len(q)
  <2>1. \A i \in 1 .. Len(a) : i < j => i \in 1 .. Len(q)
    BY <1>1, <1>2
  <2> QED BY <1>1, <1>2, <2>1 DEF QueueOK
<1>3. CASE j = Len(q) + 1
  <2>1. \A i \in 1 .. Len(a) : i < j => i \in 1 .. Len(q)
    BY <1>1, <1>3
  <2> QED BY <1>1, <1>3, <2>1 DEF Types
<1> QED BY <1>1, <1>2, <1>3

LEMMA TypesAppend ==
    ASSUME NEW q \in Seq(Msgs), NEW m \in Msgs, NEW types, Types(q, types), m.type \in types
    PROVE  Types(Append(q, m), types)
BY AppendAt DEF Types

LEMMA RequestLoad ==
    ASSUME TypeInv, TypeInv', LinkInv, LoadInv, NEW type \in ReqTypes,
           Request(type) \/ LostRequest(type)
    PROVE  LoadInv'
<1>1. PICK m \in Msgs :
        /\ m.type = type /\ m.cmd = app'.cmd /\ toUxc' \in {toUxc, Append(toUxc, m)}
        /\ \/ core'.kind = "none"
           \/ core'.kind \in ReqKinds(type) /\ toUxc' = Append(toUxc, m)
  <2> DEFINE m1 == Msg(type, app'.cmd, 0)
  <2> DEFINE l == [m1 EXCEPT !.cur = FALSE]
  <2>1. app'.cmd \in Cmds
    BY DEF TypeInv, AppType, Apps
  <2>2. m1 \in Msgs /\ l \in Msgs
    BY <2>1, MsgType DEF ReqTypes, MsgTypes
  <2>3. m1.type = type /\ m1.cmd = app'.cmd /\ l.type = type /\ l.cmd = app'.cmd
    BY DEF Msg
  <2>4. \/ toUxc' = Append(toUxc, m1) /\ core'.kind \in ReqKinds(type)
        \/ toUxc' \in {toUxc, Append(toUxc, l)} /\ core'.kind = "none"
    BY DEF Request, LostRequest
  <2> HIDE DEF m1, l
  <2> QED BY <2>2, <2>3, <2>4
<1>2. /\ core.kind \in IdleKinds /\ UNCHANGED <<toCore, uxc>> /\ U' = U /\ Asks(type)
  BY DEF Request, LostRequest, Asking, SameUxc, U
<1>3. NoLive(toUxc) /\ NoLive(toCore)
  BY <1>2, LinkIdle, CoreFields DEF LinkInv
<1>4. toUxc \in Seq(Msgs)
  BY CoreFields
<1>5. HeldInv'
  BY <1>2 DEF LoadInv, HeldInv
<1>6. type # "start" => app' = app
  BY <1>2 DEF Asks
<1>7. /\ type \in Loads => Quiet(app.cmd)
      /\ type = "finish" => OnUxc({"sig"}) /\ Begun(U, app.cmd) /\ Types(toUxc, Parts)
      /\ type \in Loads => OnUxc({"open", "body"})
      /\ type = "start" => app'.step \in {"start", "confirm"}
  BY <1>2 DEF Asks, LoadInv, AppInv, OnUxc, Loads
<1>8. QueueInv'
  <2>1. /\ m.type \in Loads => Types(toUxc, Loads) /\ ~U.verified /\ uxc.pc = "loop"
        /\ m.type \in Parts \ Loads => Types(toUxc, Parts)
        /\ m.type \in Parts => Begun(U, m.cmd)
    BY <1>1, <1>6, <1>7 DEF Quiet, Parts, Loads
  <2>2. QueueOK(toUxc, U, uxc.pc)
    BY DEF LoadInv, QueueInv
  <2>3. QueueOK(Append(toUxc, m), U, uxc.pc)
    BY <1>4, <2>1, <2>2, QueueAppend
  <2> QED BY <1>1, <1>2, <2>2, <2>3 DEF QueueInv
<1>9. AppInv'
  <2>1. CASE type = "start"
    <3>1. ASSUME core'.kind \in StartKinds
          PROVE  \A i \in 1 .. Len(toUxc') :
                    Live(toUxc'[i]) => i = Len(toUxc') /\ toUxc'[i].cmd = app'.cmd
      <4>1. toUxc' = Append(toUxc, m)
        BY <1>1, <3>1 DEF StartKinds
      <4> QED BY <1>1, <1>3, <1>4, <4>1, AppendAt DEF NoLive
    <3>2. core'.kind \in {"none"} \cup StartKinds
      BY <1>1, <2>1, KindsDiffer
    <3>3. \A i \in 1 .. Len(toCore') : ~Live(toCore'[i])
      BY <1>2, <1>3 DEF NoLive
    <3> QED BY <1>7, <2>1, <3>1, <3>2, <3>3 DEF AppInv, OnUxc, StartKinds
  <2>2. CASE type \in Loads
    <3>1. Types(toUxc', Loads)
      BY <1>1, <1>4, <1>7, <2>2, TypesAppend DEF Quiet
    <3>2. Quiet(app.cmd)'
      BY <1>2, <1>6, <1>7, <2>2, <3>1 DEF Quiet, Loads
    <3>3. app'.step \in {"open", "body"}
      BY <1>6, <1>7, <2>2 DEF OnUxc, Loads
    <3> QED BY <3>2, <3>3 DEF AppInv, OnUxc
  <2>3. CASE type = "finish"
    <3>1. Types(toUxc', Parts)
      BY <1>1, <1>4, <1>7, <2>3, TypesAppend DEF Parts
    <3>2. Begun(U, app.cmd)' /\ app'.step = "sig"
      BY <1>2, <1>6, <1>7, <2>3 DEF OnUxc
    <3> QED BY <3>1, <3>2 DEF AppInv, OnUxc
  <2> QED BY <2>1, <2>2, <2>3 DEF ReqTypes, Loads
<1> QED BY <1>5, <1>8, <1>9 DEF LoadInv

LEMMA CommitSentLoad == ASSUME TypeInv, PhaseInv, LoadInv, CommitSent PROVE LoadInv'
<1>1. PICK m \in Msgs : m.type = "commit" /\ toUxc' \in {toUxc, Append(toUxc, m)}
  BY DEF CommitSent
<1>2. /\ app' = app /\ app.step = "idle" /\ U' = U /\ uxc' = uxc
  BY DEF CommitSent, PhaseInv, SameUxc, U
<1>3. AppInv'
  BY <1>2 DEF AppInv, OnUxc
<1>4. QueueOK(Append(toUxc, m), U, uxc.pc)
  BY <1>1, CoreFields, QueueAppend DEF LoadInv, QueueInv, Parts
<1> QED BY <1>1, <1>2, <1>3, <1>4 DEF LoadInv, QueueInv, HeldInv

LEMMA TakesLoad ==
    ASSUME TypeInv, LinkInv, echo, LoadInv,
           Drops \/ TakesStart \/ TakesTransfer \/ TakesFinish \/ TakesCommit
    PROVE  LoadInv'
<1>1. /\ UNCHANGED <<uxc, toUxc>> /\ U' = U /\ toCore # << >> /\ toCore' = Tail(toCore)
      /\ toCore \in Seq(Msgs)
  BY CoreFields DEF Drops, TakesStart, TakesTransfer, TakesFinish, TakesCommit, Takes, SameUxc, U
<1>2. QueueInv' /\ HeldInv'
  BY <1>1 DEF LoadInv, QueueInv, HeldInv
<1> SUFFICES AppInv'
  BY <1>2 DEF LoadInv
<1>3. ASSUME app' = app, core'.kind = core.kind PROVE AppInv'
  <2>1. \A i \in 1 .. Len(toCore') : i + 1 \in 1 .. Len(toCore) /\ toCore'[i] = toCore[i + 1]
    BY <1>1, TailAt
  <2>2. Quiet(app.cmd)' <=> Quiet(app.cmd)
    BY <1>1, <1>3 DEF Quiet
  <2>3. ASSUME OnUxc({"start", "confirm"})', core'.kind \in StartKinds
        PROVE  \A i \in 1 .. Len(toCore') :
                 Live(toCore'[i]) /\ toCore'[i].type = "start" => Quiet(app.cmd)'
    BY <1>3, <2>1, <2>2, <2>3 DEF LoadInv, AppInv, OnUxc
  <2> QED BY <1>1, <1>3, <2>2, <2>3 DEF LoadInv, AppInv, OnUxc
<1>4. ASSUME app' = app, core'.kind \in {"none", "delta"} PROVE AppInv'
  BY <1>1, <1>4 DEF LoadInv, AppInv, OnUxc, StartKinds, Quiet
<1>5. ASSUME OffUxc(app') PROVE AppInv'
  BY <1>5 DEF OffUxc, AppInv, OnUxc
<1>6. CASE Drops \/ TakesCommit
  BY <1>3, <1>6 DEF Drops, TakesCommit
<1>7. CASE TakesStart
  <2>1. /\ 1 \in 1 .. Len(toCore) /\ Live(toCore[1]) /\ toCore[1].type = "start"
        /\ core.kind \in StartKinds /\ core'.kind \in IdleKinds
    <3>1. Takes({"start"}) /\ Current /\ toCore[1].type = "start" /\ core'.kind \in IdleKinds
      BY <1>7 DEF TakesStart, Takes
    <3> QED BY <3>1, LiveAnswer, KindsDiffer
  <2>2. OnUxc({"start", "confirm"}) => Quiet(app.cmd)
    BY <2>1 DEF LoadInv, AppInv
  <2>3. CASE app' = app
    BY <1>1, <2>1, <2>2, <2>3 DEF LoadInv, AppInv, OnUxc, StartKinds, Quiet, IdleKinds
  <2>4. CASE /\ app.cmd.mcu = "Uxc" /\ app.step \in {"start", "confirm"}
             /\ app'.cmd = app.cmd /\ app'.step = "open"
    <3>1. Quiet(app.cmd)'
      BY <1>1, <2>2, <2>4 DEF OnUxc, Quiet
    <3> QED BY <2>4, <3>1 DEF AppInv, OnUxc
  <2> QED BY <1>5, <1>7, <2>3, <2>4 DEF TakesStart
<1>8. CASE TakesTransfer
  <2>1. core'.kind = "none"
    BY <1>8 DEF TakesTransfer
  <2>2. CASE /\ app.cmd.mcu = "Uxc" /\ app.step \in {"open", "body"}
             /\ app'.cmd = app.cmd /\ app'.step \in Loads
    <3>1. Quiet(app.cmd)
      BY <2>2 DEF LoadInv, AppInv, OnUxc
    <3>2. Quiet(app.cmd)'
      BY <1>1, <2>2, <3>1 DEF Quiet
    <3>3. Begun(U, app.cmd)' /\ Types(toUxc', Parts)
      BY <3>2 DEF Quiet, Types, Loads, Parts
    <3> QED BY <2>2, <3>2, <3>3 DEF AppInv, OnUxc, Loads
  <2> QED BY <1>4, <1>5, <1>8, <2>1, <2>2 DEF TakesTransfer
<1>9. CASE TakesFinish
  BY <1>4, <1>5, <1>9 DEF TakesFinish
<1> QED BY <1>6, <1>7, <1>8, <1>9

LEMMA RetiredLoad ==
    ASSUME TypeInv, LoadInv, toUxc' = Retired(toUxc), NoLive(toCore'), UNCHANGED app,
           U' = U, uxc'.pc = uxc.pc, core'.kind \in {core.kind, "none"}
    PROVE  LoadInv'
<1>1. /\ Len(toUxc') = Len(toUxc)
      /\ \A i \in 1 .. Len(toUxc) : /\ toUxc'[i].type = toUxc[i].type
                                    /\ toUxc'[i].cmd = toUxc[i].cmd
                                    /\ ~Live(toUxc'[i])
  BY CoreFields, RetiredAt
<1>2. QueueInv'
  BY <1>1 DEF LoadInv, QueueInv, QueueOK
<1>3. HeldInv'
  BY DEF LoadInv, HeldInv
<1>4. \A types : Types(toUxc', types) <=> Types(toUxc, types)
  BY <1>1 DEF Types
<1>5. Quiet(app.cmd)' <=> Quiet(app.cmd)
  BY <1>4 DEF Quiet
<1>6. AppInv'
  BY <1>1, <1>4, <1>5 DEF LoadInv, AppInv, OnUxc, NoLive
<1> QED BY <1>2, <1>3, <1>6 DEF LoadInv

LEMMA VersionLoad == ASSUME TypeInv, LinkInv, LoadInv, TakesVersion PROVE LoadInv'
<1>1. NoLive(toCore')
  BY CoreFields, TailAt, RetiredLink DEF TakesVersion
<1>2. /\ U' = U /\ uxc'.pc = uxc.pc /\ app' = app /\ core'.kind \in {core.kind, "none"}
      /\ toUxc' = Retired(toUxc)
  BY DEF TakesVersion, U
<1> QED BY <1>1, <1>2, RetiredLoad

\* After a restart of the UXC nothing is queued and nothing was begun.
LEMMA RestartedLoad ==
    ASSUME TypeInv, NEW queue, Restarted(queue), UNCHANGED app PROVE LoadInv'
<1>1. U' = Boot(U) /\ toUxc' = << >> /\ uxc'.pc = "loop" /\ Len(toUxc') = 0
  BY EmptyAt DEF Restarted, U, UxcBoot
<1>2. HeldOK(U', "loop") /\ ~U'.verified /\ \A c : Begun(U', c)
  BY <1>1, UxcChip, BootBegins
<1>3. QueueInv' /\ HeldInv'
  BY <1>1, <1>2 DEF QueueInv, QueueOK, HeldInv
<1>4. \A types : Types(toUxc', types)
  BY <1>1 DEF Types
<1>5. Quiet(app.cmd)' /\ Begun(U, app.cmd)'
  BY <1>1, <1>2, <1>4 DEF Quiet
<1>6. AppInv'
  BY <1>1, <1>4, <1>5 DEF AppInv
<1> QED BY <1>3, <1>6 DEF LoadInv

LEMMA RestartsLoad == ASSUME TypeInv, LoadInv, UxcRestarts \/ CoreRestarts PROVE LoadInv'
<1>1. CASE UxcRestarts
  BY <1>1, RestartedLoad DEF UxcRestarts
<1>2. CASE CoreRestarts /\ Restarted(<< >>)
  BY <1>2, RestartedLoad DEF CoreRestarts
<1>3. CASE CoreRestarts /\ ~Restarted(<< >>)
  <2>1. /\ U' = U /\ uxc'.pc = uxc.pc /\ app' = app /\ core'.kind = "none"
        /\ toUxc' = Retired(toUxc) /\ toCore' = << >>
    BY <1>3 DEF CoreRestarts, U, CoreBoot
  <2> QED BY <2>1, EmptyAt, RetiredLoad
<1> QED BY <1>1, <1>2, <1>3

-----------------------------------------------------------------------------
\* The head of the queue is taken; ch is what the chip becomes.
LEMMA QueueTail ==
    ASSUME NEW q \in Seq(Msgs), q # << >>, NEW ch, NEW p, QueueOK(q, ch, p)
    PROVE  /\ \A j \in 1 .. Len(Tail(q)) :
                /\ Tail(q)[j].type \in Loads => q[1].type \in Loads
                /\ Tail(q)[j].type \in Parts => q[1].type \in Parts /\ Begun(ch, Tail(q)[j].cmd)
           /\ QueueOK(Tail(q), ch, p)
<1>1. /\ \A i \in 1 .. Len(Tail(q)) : i + 1 \in 1 .. Len(q) /\ Tail(q)[i] = q[i + 1] /\ 1 < i + 1
      /\ 1 \in 1 .. Len(q)
  BY TailAt
<1>2. ASSUME NEW j \in 1 .. Len(Tail(q)), Tail(q)[j].type \in Parts
      PROVE  /\ q[1].type \in (IF Tail(q)[j].type \in Loads THEN Loads ELSE Parts)
             /\ \A i \in 1 .. Len(Tail(q)) :
                  i < j => Tail(q)[i].type \in (IF Tail(q)[j].type \in Loads THEN Loads ELSE Parts)
             /\ Tail(q)[j].type \in Loads => ~ch.verified /\ p = "loop"
             /\ Begun(ch, Tail(q)[j].cmd)
  <2>1. \A i \in 1 .. Len(Tail(q)) : i < j => i + 1 < j + 1
    OBVIOUS
  <2> QED BY <1>1, <1>2, <2>1 DEF QueueOK
<1>3. Loads \subseteq Parts
  BY DEF Loads, Parts
<1> QED BY <1>1, <1>2, <1>3 DEF QueueOK

LEMMA TypesTail ==
    ASSUME NEW q \in Seq(Msgs), q # << >>, NEW types, Types(q, types)
    PROVE  Types(Tail(q), types) /\ q[1].type \in types
BY TailAt DEF Types

\* What is queued for the UXC when a step of it changes only its chip.
LEMMA QueueKeeps ==
    ASSUME NEW q \in Seq(Msgs), NEW ch, NEW p, QueueOK(q, ch, p), NEW ch1, NEW p1,
           \A c \in Cmds : Begun(ch, c) => Begun(ch1, c),
           \A j \in 1 .. Len(q) : q[j].type \in Loads => ~ch1.verified /\ p1 = "loop"
    PROVE  QueueOK(q, ch1, p1)
<1>1. \A j \in 1 .. Len(q) : q[j].cmd \in Cmds
  BY MsgFields
<1> QED BY <1>1 DEF QueueOK

\* The answers and the live start, when the UXC handles a message.
LEMMA HandledApp ==
    ASSUME TypeInv, LinkInv, LoadInv, NEW types, Handled(types), toUxc[1].type # "start",
           \A c \in Cmds : Begun(U, c) => Begun(U', c),
           toUxc[1].type \in Loads => ~U'.verified /\ uxc'.pc = "loop"
    PROVE  AppInv'
<1>1. /\ toUxc \in Seq(Msgs) /\ toCore \in Seq(Msgs) /\ toUxc # << >>
      /\ toUxc' = Tail(toUxc) /\ app' = app /\ core' = core /\ app.cmd \in Cmds
  BY UxcChip DEF Handled, UxcFrame
<1>2. Quiet(app.cmd) => Quiet(app.cmd)'
  <2> SUFFICES ASSUME Quiet(app.cmd) PROVE Quiet(app.cmd)'
    OBVIOUS
  <2>1. Types(Tail(toUxc), Loads) /\ toUxc[1].type \in Loads
    BY <1>1, TypesTail DEF Quiet
  <2> QED BY <1>1, <2>1 DEF Quiet
<1>3. Begun(U, app.cmd) /\ Types(toUxc, Parts) => Begun(U, app.cmd)' /\ Types(toUxc', Parts)
  BY <1>1, TypesTail
<1>4. PICK m \in Msgs : m.type = toUxc[1].type /\ toCore' \in {toCore, Append(toCore, m)}
  BY DEF Handled
<1>5. \A i \in 1 .. Len(toCore') : toCore'[i].type = "start" => i \in 1 .. Len(toCore) /\ toCore'[i] = toCore[i]
  BY <1>1, <1>4, AppendAt
<1>6. /\ Len(toUxc') = Len(toUxc) - 1
      /\ \A i \in 1 .. Len(toUxc') : i + 1 \in 1 .. Len(toUxc) /\ toUxc'[i] = toUxc[i + 1]
  BY <1>1, TailAt
<1>7. ASSUME OnUxc({"start", "confirm"})', core'.kind \in StartKinds
      PROVE  /\ \A i \in 1 .. Len(toCore') :
                  Live(toCore'[i]) /\ toCore'[i].type = "start" => Quiet(app.cmd)'
             /\ \A i \in 1 .. Len(toUxc') :
                  Live(toUxc'[i]) /\ toUxc'[i].type = "start"
                    => i = Len(toUxc') /\ toUxc'[i].cmd = app'.cmd
  <2>1. OnUxc({"start", "confirm"}) /\ core.kind \in StartKinds
    BY <1>1, <1>7 DEF OnUxc
  <2>2. /\ \A i \in 1 .. Len(toCore) :
             Live(toCore[i]) /\ toCore[i].type = "start" => Quiet(app.cmd)
        /\ \A i \in 1 .. Len(toUxc) :
             Live(toUxc[i]) /\ toUxc[i].type = "start"
               => i = Len(toUxc) /\ toUxc[i].cmd = app.cmd
    BY <2>1 DEF LoadInv, AppInv
  <2>3. \A i \in 1 .. Len(toCore') :
          Live(toCore'[i]) /\ toCore'[i].type = "start" => Quiet(app.cmd)'
    BY <1>2, <1>5, <2>2
  <2>4. ASSUME NEW i \in 1 .. Len(toUxc'), Live(toUxc'[i]), toUxc'[i].type = "start"
        PROVE  i = Len(toUxc') /\ toUxc'[i].cmd = app'.cmd
    <3>1. i + 1 = Len(toUxc) /\ toUxc[i + 1].cmd = app.cmd
      BY <1>6, <2>2, <2>4
    <3>2. Len(toUxc) \in Nat
      BY <1>1
    <3>3. i \in 1 .. (Len(toUxc) - 1) /\ toUxc'[i] = toUxc[i + 1]
      BY <1>6
    <3>4. i = Len(toUxc) - 1
      BY <3>1, <3>2, <3>3
    <3>5. toUxc'[i].cmd = app'.cmd
      BY <1>1, <3>1, <3>3
    <3> QED BY <1>6, <3>4, <3>5
  <2> QED BY <2>3, <2>4
<1> QED BY <1>1, <1>2, <1>3, <1>7 DEF LoadInv, AppInv, OnUxc

LEMMA HandledStartLoad == ASSUME TypeInv, LinkInv, LoadInv, HandledStart PROVE LoadInv'
<1>1. /\ toUxc \in Seq(Msgs) /\ toCore \in Seq(Msgs) /\ toUxc # << >> /\ uxc.pc = "loop"
      /\ toUxc[1].type = "start"
      /\ toUxc' = Tail(toUxc) /\ app' = app /\ core' = core /\ U \in Chips /\ uxc'.pc = "loop"
  BY UxcChip DEF HandledStart, Handled, UxcFrame
<1>2. toUxc[1] \in Msgs /\ toUxc[1].cmd \in Cmds
  BY <1>1, TailAt, MsgFields
<1>3. Begun(U', toUxc[1].cmd) /\ HeldOK(U', "loop") /\ ~U'.verified
  BY <1>1, <1>2, StartBegins DEF HandledStart, U
<1>4. HeldInv'
  BY <1>1, <1>3 DEF HeldInv
<1>5. QueueInv'
  <2>1. \A j \in 1 .. Len(toUxc') : toUxc'[j].type \notin Parts
    BY <1>1, QueueTail DEF LoadInv, QueueInv, Parts
  <2> QED BY <2>1 DEF QueueInv, QueueOK
<1>6. ~Types(toUxc, Loads) /\ ~Types(toUxc, Parts)
  BY <1>1, TypesTail DEF Loads, Parts
<1>7. ~Quiet(app.cmd)
  BY <1>6 DEF Quiet
<1>8. /\ ~OnUxc({"open", "body", "sig"})
      /\ ~(OnUxc({"confirm"}) /\ core.kind \in {"cached_ok", "cached_error"})
  BY <1>6, <1>7 DEF LoadInv, AppInv, OnUxc
<1>9. ASSUME OnUxc({"start", "confirm"}), core.kind \in StartKinds
      PROVE  /\ \A i \in 1 .. Len(toCore') :
                  Live(toCore'[i]) /\ toCore'[i].type = "start" => Quiet(app.cmd)'
             /\ \A i \in 1 .. Len(toUxc') :
                  Live(toUxc'[i]) /\ toUxc'[i].type = "start"
                    => i = Len(toUxc') /\ toUxc'[i].cmd = app'.cmd
  <2>1. /\ \A i \in 1 .. Len(toCore) : ~(Live(toCore[i]) /\ toCore[i].type = "start")
        /\ \A i \in 1 .. Len(toUxc) :
             Live(toUxc[i]) /\ toUxc[i].type = "start"
               => i = Len(toUxc) /\ toUxc[i].cmd = app.cmd
    BY <1>7, <1>9 DEF LoadInv, AppInv
  <2>2. PICK m \in Msgs : /\ m.type = toUxc[1].type /\ m.cur = toUxc[1].cur
                          /\ toCore' \in {toCore, Append(toCore, m)}
    BY DEF HandledStart, Handled
  <2>3. /\ Len(toUxc') = Len(toUxc) - 1 /\ 1 \in 1 .. Len(toUxc) /\ Len(toUxc) \in Nat
        /\ \A i \in 1 .. Len(toUxc') : i + 1 \in 1 .. Len(toUxc) /\ toUxc'[i] = toUxc[i + 1]
    BY <1>1, TailAt
  <2>4. ASSUME NEW i \in 1 .. Len(toCore'), Live(toCore'[i]), toCore'[i].type = "start"
        PROVE  Quiet(app.cmd)'
    <3>1. Live(m)
      <4>1. CASE toCore' = toCore
        BY <2>1, <2>4, <4>1
      <4>2. CASE toCore' = Append(toCore, m)
        <5>1. i \in 1 .. Len(toCore) \/ i = Len(toCore) + 1
          BY <1>1, <4>2, AppendAt
        <5>2. CASE i \in 1 .. Len(toCore)
          BY <1>1, <2>1, <2>4, <4>2, <5>2, AppendAt
        <5>3. CASE i = Len(toCore) + 1
          BY <1>1, <2>4, <4>2, <5>3, AppendAt
        <5> QED BY <5>1, <5>2, <5>3
      <4> QED BY <2>2, <4>1, <4>2
    <3>2. Live(toUxc[1])
      BY <2>2, <3>1 DEF Live
    <3>3. 1 = Len(toUxc) /\ toUxc[1].cmd = app.cmd
      BY <1>1, <2>1, <2>3, <3>2
    <3>4. Len(toUxc') = 0
      <4>1. Len(toUxc') = Len(toUxc) - 1 /\ Len(toUxc) = 1
        BY <2>3, <3>3
      <4> QED BY <4>1
    <3>5. Types(toUxc', Loads)
      BY <3>4 DEF Types
    <3> QED BY <1>1, <1>3, <3>3, <3>5 DEF Quiet
  <2>5. ASSUME NEW i \in 1 .. Len(toUxc'), Live(toUxc'[i]), toUxc'[i].type = "start"
        PROVE  i = Len(toUxc') /\ toUxc'[i].cmd = app'.cmd
    <3>1. i + 1 = Len(toUxc) /\ toUxc[i + 1].cmd = app.cmd
      BY <2>1, <2>3, <2>5
    <3>2. i \in 1 .. (Len(toUxc) - 1) /\ toUxc'[i] = toUxc[i + 1] /\ Len(toUxc) \in Nat
      BY <2>3
    <3>3. i = Len(toUxc) - 1
      BY <3>1, <3>2
    <3>4. toUxc'[i].cmd = app'.cmd
      BY <1>1, <3>1, <3>2
    <3> QED BY <2>3, <3>3, <3>4
  <2> QED BY <2>4, <2>5
<1>10. AppInv'
  BY <1>1, <1>8, <1>9 DEF AppInv, OnUxc
<1> QED BY <1>4, <1>5, <1>10 DEF LoadInv

LEMMA HandledTransferLoad == ASSUME TypeInv, LinkInv, LoadInv, HandledTransfer PROVE LoadInv'
<1>1. /\ toUxc \in Seq(Msgs) /\ toUxc # << >> /\ uxc.pc = "loop" /\ toUxc[1].type \in Loads
      /\ toUxc' = Tail(toUxc) /\ U \in Chips /\ uxc'.pc = "loop" /\ Handled(Loads)
  BY UxcChip DEF HandledTransfer, Handled, UxcFrame
<1>2. toUxc[1] \in Msgs /\ toUxc[1].cmd \in Cmds /\ 1 \in 1 .. Len(toUxc) /\ Tail(toUxc) \in Seq(Msgs)
  BY <1>1, TailAt, MsgFields
<1>3. Begun(U, toUxc[1].cmd) /\ ~U.verified /\ HeldOK(U, "loop")
  BY <1>1, <1>2 DEF LoadInv, QueueInv, QueueOK, HeldInv, Loads, Parts
<1>4. /\ ~U'.verified /\ HeldOK(U', "loop")
      /\ \A c \in Cmds : Begun(U, c) => Begun(U', c)
  BY <1>1, <1>2, <1>3, TransferKeeps DEF HandledTransfer, U
<1>5. QueueInv'
  <2>1. QueueOK(Tail(toUxc), U, uxc.pc)
    BY <1>1, QueueTail DEF LoadInv, QueueInv
  <2> QED BY <1>1, <1>2, <1>4, <2>1, QueueKeeps DEF QueueInv
<1>6. toUxc[1].type # "start"
  BY <1>1 DEF Loads
<1>7. AppInv'
  BY <1>1, <1>4, <1>6, HandledApp
<1> QED BY <1>1, <1>4, <1>5, <1>7 DEF LoadInv, HeldInv

\* A message after which no image can be queued.
LEMMA HandledOtherLoad ==
    ASSUME TypeInv, LinkInv, LoadInv, Handled({"finish", "commit"}),
           HeldOK(U', uxc'.pc), \A c \in Cmds : Begun(U, c) => Begun(U', c)
    PROVE  LoadInv'
<1>1. /\ toUxc \in Seq(Msgs) /\ toUxc # << >> /\ toUxc' = Tail(toUxc)
      /\ toUxc[1].type \in {"finish", "commit"} /\ Tail(toUxc) \in Seq(Msgs)
  BY UxcChip, TailAt DEF Handled
<1>2. toUxc[1].type \notin Loads /\ toUxc[1].type # "start"
  BY <1>1 DEF Loads
<1>3. QueueInv'
  <2>1. /\ QueueOK(Tail(toUxc), U, uxc.pc)
        /\ \A j \in 1 .. Len(Tail(toUxc)) : Tail(toUxc)[j].type \notin Loads
    BY <1>1, <1>2, QueueTail DEF LoadInv, QueueInv
  <2> QED BY <1>1, <2>1, QueueKeeps DEF QueueInv
<1>4. AppInv'
  BY <1>2, HandledApp
<1> QED BY <1>3, <1>4 DEF LoadInv, HeldInv

LEMMA HandledFinishLoad == ASSUME TypeInv, LinkInv, LoadInv, HandledFinish PROVE LoadInv'
<1>1. /\ toUxc \in Seq(Msgs) /\ toUxc # << >> /\ uxc.pc = "loop" /\ toUxc[1].type = "finish"
      /\ U \in Chips /\ Handled({"finish"})
  BY UxcChip DEF HandledFinish, Handled
<1>2. toUxc[1] \in Msgs /\ toUxc[1].cmd \in Cmds /\ 1 \in 1 .. Len(toUxc)
  BY <1>1, TailAt, MsgFields
<1>3. Begun(U, toUxc[1].cmd) /\ HeldOK(U, "loop")
  BY <1>1, <1>2 DEF LoadInv, QueueInv, QueueOK, HeldInv, Parts
<1>4. Handled({"finish", "commit"})
  BY <1>1 DEF Handled
<1>5. CASE /\ toUxc[1].cmd.mode = "normal" /\ uxc'.pc \in {"loop", "reset"}
           /\ \E o \in fwup_finish(chip["Uxc"], "normal") :
                \E w \in fwup_commit_signature(o.ch) \cup {o} :
                   chip'["Uxc"] = w.ch /\ (w # o => o.ok)
  <2>1. PICK o \in fwup_finish(U, "normal") :
            \E w \in fwup_commit_signature(o.ch) \cup {o} : U' = w.ch
    BY <1>5 DEF U
  <2>2. PICK w \in fwup_commit_signature(o.ch) \cup {o} : U' = w.ch
    BY <2>1
  <2>3. o.ch \in Chips /\ HeldOK(o.ch, "loop") /\ \A c \in Cmds : Begun(U, c) => Begun(o.ch, c)
    BY <1>1, <1>2, <1>3, <1>5, FinishKeeps
  <2>4. HeldOK(w.ch, "loop") /\ \A c \in Cmds : Begun(o.ch, c) => Begun(w.ch, c)
    BY <2>2, <2>3, CommitKeeps
  <2>5. HeldOK(U', uxc'.pc)
    BY <1>5, <2>2, <2>4, HeldElsewhere
  <2> QED BY <1>4, <2>2, <2>3, <2>4, <2>5, HandledOtherLoad
<1>6. CASE uxc'.pc = "reset" /\ chip'["Uxc"] = chip["Uxc"]
  <2>1. U' = U
    BY <1>6 DEF U
  <2>2. HeldOK(U', uxc'.pc)
    BY <1>3, <1>6, <2>1, HeldElsewhere
  <2> QED BY <1>4, <2>1, <2>2, HandledOtherLoad
<1>7. CASE /\ uxc'.pc = "apply" /\ chip'["Uxc"] = chip["Uxc"]
           /\ fwup_pre_apply_check(chip["Uxc"])
  <2>1. U' = U /\ fwup_pre_apply_check(U)
    BY <1>7 DEF U
  <2>2. HeldOK(U', uxc'.pc)
    BY <1>3, <1>7, <2>1 DEF fwup_pre_apply_check, HeldOK
  <2> QED BY <1>4, <2>1, <2>2, HandledOtherLoad
<1> QED BY <1>5, <1>6, <1>7 DEF HandledFinish

LEMMA HandledCommitLoad == ASSUME TypeInv, LinkInv, LoadInv, HandledCommit PROVE LoadInv'
<1>1. U \in Chips /\ Handled({"finish", "commit"}) /\ uxc' = uxc
  BY UxcChip DEF HandledCommit, Handled
<1>2. PICK o \in fwup_commit_signature(U) : U' = o.ch
  BY DEF HandledCommit, U
<1>3. HeldOK(o.ch, uxc.pc) /\ \A c \in Cmds : Begun(U, c) => Begun(o.ch, c)
  BY <1>1, CommitKeeps DEF LoadInv, HeldInv
<1> QED BY <1>1, <1>2, <1>3, HandledOtherLoad

\* A step of the UXC that takes no message and does not begin in its loop.
LEMMA AloneLoad ==
    ASSUME TypeInv, LinkInv, LoadInv, UxcFrame, UNCHANGED toUxc, uxc.pc # "loop",
           \A i \in 1 .. Len(toCore') :
              toCore'[i].type = "start" => i \in 1 .. Len(toCore) /\ toCore'[i] = toCore[i],
           HeldOK(U', uxc'.pc), \A c \in Cmds : Begun(U, c) => Begun(U', c)
    PROVE  LoadInv'
<1>1. toUxc \in Seq(Msgs) /\ app.cmd \in Cmds /\ app' = app /\ core' = core
  BY UxcChip DEF UxcFrame
<1>2. QueueInv'
  <2>1. \A j \in 1 .. Len(toUxc) : toUxc[j].type \notin Loads
    BY DEF LoadInv, QueueInv, QueueOK, Loads, Parts
  <2> QED BY <1>1, <2>1, QueueKeeps DEF LoadInv, QueueInv
<1>3. ~Quiet(app.cmd)
  BY DEF Quiet
<1>4. Begun(U, app.cmd) => Begun(U, app.cmd)'
  BY <1>1
<1>5. AppInv'
  BY <1>1, <1>3, <1>4 DEF LoadInv, AppInv, OnUxc
<1> QED BY <1>2, <1>5 DEF LoadInv, HeldInv

LEMMA AppliedLoad == ASSUME TypeInv, LinkInv, LoadInv, Applied PROVE LoadInv'
<1>1. PICK o \in fwup_finish(U, "delta") : U' = o.ch
  BY DEF Applied, U
<1>2. U \in Chips /\ toCore \in Seq(Msgs) /\ HeldOK(U, "apply")
  BY UxcChip DEF Applied, LoadInv, HeldInv
<1>3. HeldOK(U', "loop") /\ \A c \in Cmds : Begun(U, c) => Begun(U', c)
  BY <1>1, <1>2, ApplyKeeps
<1>4. HeldOK(U', uxc'.pc)
  BY <1>3, HeldElsewhere DEF Applied
<1>5. PICK m \in Msgs : m.type = "finish" /\ toCore' \in {toCore, Append(toCore, m)}
  BY DEF Applied
<1>6. \A i \in 1 .. Len(toCore') :
         toCore'[i].type = "start" => i \in 1 .. Len(toCore) /\ toCore'[i] = toCore[i]
  BY <1>2, <1>5, AppendAt
<1> QED BY <1>3, <1>4, <1>6, AloneLoad DEF Applied

LEMMA CommittedPatchedLoad == ASSUME TypeInv, LinkInv, LoadInv, CommittedPatched PROVE LoadInv'
<1>1. PICK o \in fwup_commit_signature(U) : U' = o.ch
  BY DEF CommittedPatched, U
<1>2. U \in Chips /\ HeldOK(U, "commit")
  BY UxcChip DEF CommittedPatched, LoadInv, HeldInv
<1>3. HeldOK(U', "commit") /\ \A c \in Cmds : Begun(U, c) => Begun(U', c)
  BY <1>1, <1>2, CommitKeeps
<1>4. HeldOK(U', uxc'.pc)
  BY <1>3, HeldElsewhere DEF CommittedPatched
<1> QED BY <1>3, <1>4, AloneLoad DEF CommittedPatched

LEMMA LoadStep ==
    ASSUME TypeInv, TypeInv', LinkInv, PhaseInv, echo, LoadInv, CoreDoes \/ UxcDoes \/ CoreRestarts
    PROVE  LoadInv'
<1>1. CASE CoreDoes
  BY <1>1, LocalLoad, RequestLoad, CommitSentLoad, TakesLoad, VersionLoad
     DEF CoreDoes, AnyRequest
<1>2. CASE UxcDoes
  BY <1>2, HandledStartLoad, HandledTransferLoad, HandledFinishLoad, HandledCommitLoad,
     AppliedLoad, CommittedPatchedLoad, RestartsLoad DEF UxcDoes
<1>3. CASE CoreRestarts
  BY <1>3, RestartsLoad
<1> QED BY <1>1, <1>2, <1>3

-----------------------------------------------------------------------------
(* Where a commit, or the answer to one, may be queued *)
NoCommit(q) == \A i \in 1 .. Len(q) : q[i].type # "commit"

\* The commit is the last request, and there is one answer to it at most.
OneCommit(q, r) ==
    /\ \A i \in 1 .. Len(q) : q[i].type = "commit" => i = Len(q) /\ NoCommit(r)
    /\ \A i, j \in 1 .. Len(r) : r[i].type = "commit" /\ r[j].type = "commit" => i = j

LiveFinish(m) == Live(m) /\ m.type = "finish"

\* No commit follows a finish that is not yet answered.
NoneAfterFinish(q, r, b) ==
    /\ \A i, j \in 1 .. Len(q) : i < j /\ LiveFinish(q[i]) => q[j].type # "commit"
    /\ b => NoCommit(q)
    /\ \A i \in 1 .. Len(r) : LiveFinish(r[i]) =>
         NoCommit(q) /\ \A j \in 1 .. Len(r) : i < j => r[j].type # "commit"

CommitInv ==
    /\ core.awaiting_commit => core.uxc_verified
    /\ pc = "send_commit" => core.uxc_verified /\ ~core.awaiting_commit
    /\ pc \in {"loop", "send_commit"} /\ core.uxc_verified /\ ~core.awaiting_commit =>
         NoCommit(toUxc) /\ NoCommit(toCore)
    /\ pc = "loop" /\ core.awaiting_commit => OneCommit(toUxc, toCore)
    /\ NoneAfterFinish(toUxc, toCore, uxc.cur)

LEMMA NoCommitAppend ==
    ASSUME NEW q \in Seq(Msgs), NEW m \in Msgs, NoCommit(q), m.type # "commit"
    PROVE  NoCommit(Append(q, m))
BY AppendAt DEF NoCommit

LEMMA NoCommitTail ==
    ASSUME NEW q \in Seq(Msgs), q # << >>, NoCommit(q)
    PROVE  NoCommit(Tail(q)) /\ q[1].type # "commit"
BY TailAt DEF NoCommit

LEMMA NoCommitRetired ==
    ASSUME NEW q \in Seq(Msgs) PROVE NoneAfterFinish(Retired(q), << >>, FALSE)
<1>1. \A i \in 1 .. Len(Retired(q)) : ~Live(Retired(q)[i])
  BY RetiredAt
<1>2. Len(<< >>) = 0
  BY EmptyAt
<1> QED BY <1>1, <1>2 DEF NoneAfterFinish, LiveFinish

LEMMA NoneAfterNone ==
    ASSUME NEW q, NEW r, NoCommit(q), NoCommit(r), NEW b PROVE NoneAfterFinish(q, r, b)
BY DEF NoneAfterFinish, NoCommit

LEMMA NoneAfterNoLive ==
    ASSUME NEW q, NEW r, \A i \in 1 .. Len(q) : ~LiveFinish(q[i]),
           \A i \in 1 .. Len(r) : ~LiveFinish(r[i])
    PROVE  NoneAfterFinish(q, r, FALSE)
BY DEF NoneAfterFinish

LEMMA NoneAfterDrop ==
    ASSUME NEW q, NEW r \in Seq(Msgs), r # << >>, NEW b, NoneAfterFinish(q, r, b)
    PROVE  NoneAfterFinish(q, Tail(r), b)
<1>1. \A i \in 1 .. Len(Tail(r)) : i + 1 \in 1 .. Len(r) /\ Tail(r)[i] = r[i + 1]
  BY TailAt
<1>2. ASSUME NEW i \in 1 .. Len(Tail(r)), LiveFinish(Tail(r)[i])
      PROVE  NoCommit(q) /\ \A j \in 1 .. Len(Tail(r)) : i < j => Tail(r)[j].type # "commit"
  <2>1. \A j \in 1 .. Len(Tail(r)) : i < j => i + 1 < j + 1
    OBVIOUS
  <2> QED BY <1>1, <1>2, <2>1 DEF NoneAfterFinish
<1> QED BY <1>2 DEF NoneAfterFinish

\* An answer is queued.
LEMMA NoneAfterAnswer ==
    ASSUME NEW q, NEW r \in Seq(Msgs), NEW m \in Msgs, NEW b, NoneAfterFinish(q, r, b),
           m.type # "commit", LiveFinish(m) => NoCommit(q)
    PROVE  NoneAfterFinish(q, Append(r, m), b)
<1> DEFINE a == Append(r, m)
<1>1. /\ \A i \in 1 .. Len(a) : i \in 1 .. Len(r) \/ i = Len(r) + 1
      /\ \A i \in 1 .. Len(r) : a[i] = r[i]
      /\ a[Len(r) + 1] = m /\ Len(r) \in Nat /\ Len(a) = Len(r) + 1
  BY AppendAt
<1> HIDE DEF a
<1>2. ASSUME NEW i \in 1 .. Len(a), LiveFinish(a[i])
      PROVE  NoCommit(q) /\ \A j \in 1 .. Len(a) : i < j => a[j].type # "commit"
  <2>1. CASE i \in 1 .. Len(r)
    BY <1>1, <1>2, <2>1 DEF NoneAfterFinish
  <2>2. CASE i = Len(r) + 1
    <3>1. \A j \in 1 .. Len(a) : ~(i < j)
      BY <1>1, <2>2
    <3> QED BY <1>1, <1>2, <2>2, <3>1
  <2> QED BY <1>1, <2>1, <2>2
<1> QED BY <1>2 DEF NoneAfterFinish, a

\* A request is taken from the queue; b: it leaves a second answer due.
LEMMA NoneAfterHandle ==
    ASSUME NEW q \in Seq(Msgs), q # << >>, NEW r, NoneAfterFinish(q, r, FALSE), NEW b,
           b => LiveFinish(q[1])
    PROVE  /\ NoneAfterFinish(Tail(q), r, b)
           /\ LiveFinish(q[1]) => NoCommit(Tail(q))
<1>1. /\ \A i \in 1 .. Len(Tail(q)) : i + 1 \in 1 .. Len(q) /\ Tail(q)[i] = q[i + 1] /\ 1 < i + 1
      /\ 1 \in 1 .. Len(q)
  BY TailAt
<1>2. LiveFinish(q[1]) => NoCommit(Tail(q))
  BY <1>1 DEF NoneAfterFinish, NoCommit
<1>3. \A i, j \in 1 .. Len(Tail(q)) : i < j /\ LiveFinish(Tail(q)[i]) => Tail(q)[j].type # "commit"
  <2> SUFFICES ASSUME NEW i \in 1 .. Len(Tail(q)), NEW j \in 1 .. Len(Tail(q)), i < j,
                      LiveFinish(Tail(q)[i])
               PROVE  Tail(q)[j].type # "commit"
    OBVIOUS
  <2>1. i + 1 < j + 1
    OBVIOUS
  <2> QED BY <1>1, <2>1 DEF NoneAfterFinish
<1>4. NoCommit(q) => NoCommit(Tail(q))
  BY NoCommitTail
<1> QED BY <1>2, <1>3, <1>4 DEF NoneAfterFinish

LEMMA NoneAfterSend ==
    ASSUME NEW q \in Seq(Msgs), NEW m \in Msgs, NEW r, NoneAfterFinish(q, r, FALSE),
           m.type # "commit"
    PROVE  NoneAfterFinish(Append(q, m), r, FALSE)
<1> DEFINE a == Append(q, m)
<1>1. /\ \A i \in 1 .. Len(a) : i \in 1 .. Len(q) \/ i = Len(q) + 1
      /\ \A i \in 1 .. Len(q) : a[i] = q[i]
      /\ a[Len(q) + 1] = m /\ Len(q) \in Nat
  BY AppendAt
<1>2. NoCommit(q) => NoCommit(a)
  BY NoCommitAppend
<1> HIDE DEF a
<1>3. \A i, j \in 1 .. Len(a) : i < j /\ LiveFinish(a[i]) => a[j].type # "commit"
  <2> SUFFICES ASSUME NEW i \in 1 .. Len(a), NEW j \in 1 .. Len(a), i < j, LiveFinish(a[i])
               PROVE  a[j].type # "commit"
    OBVIOUS
  <2>1. CASE j = Len(q) + 1
    BY <1>1, <2>1
  <2>2. CASE j \in 1 .. Len(q)
    <3>1. i \in 1 .. Len(q)
      BY <1>1, <2>2
    <3> QED BY <1>1, <2>2, <3>1 DEF NoneAfterFinish
  <2> QED BY <1>1, <2>1, <2>2
<1> QED BY <1>2, <1>3 DEF NoneAfterFinish, a

LEMMA OneCommitHandle ==
    ASSUME NEW q \in Seq(Msgs), q # << >>, NEW r \in Seq(Msgs), OneCommit(q, r), NEW m \in Msgs,
           m.type = q[1].type
    PROVE  OneCommit(Tail(q), r) /\ OneCommit(Tail(q), Append(r, m))
           /\ (q[1].type = "commit" => Tail(q) = << >> /\ NoCommit(r))
<1> DEFINE a == Append(r, m)
<1>1. /\ \A i \in 1 .. Len(Tail(q)) : i + 1 \in 1 .. Len(q) /\ Tail(q)[i] = q[i + 1]
      /\ 1 \in 1 .. Len(q) /\ Len(Tail(q)) = Len(q) - 1 /\ Len(q) \in Nat
      /\ Tail(q) \in Seq(Msgs)
  BY TailAt
<1>2. /\ \A i \in 1 .. Len(a) : i \in 1 .. Len(r) \/ i = Len(r) + 1
      /\ \A i \in 1 .. Len(r) : a[i] = r[i]
      /\ a[Len(r) + 1] = m
  BY AppendAt
<1>3. NoCommit(r) /\ m.type # "commit" => NoCommit(a)
  BY NoCommitAppend
<1> HIDE DEF a
<1>4. CASE q[1].type = "commit"
  <2>1. Len(q) = 1 /\ NoCommit(r)
    BY <1>1, <1>4 DEF OneCommit
  <2>2. Len(Tail(q)) = 0
    BY <1>1, <2>1
  <2>3. Tail(q) = << >>
    BY <1>1, <2>2, EmptySeq
  <2>4. \A i \in 1 .. Len(a) : a[i].type = "commit" => i = Len(r) + 1
    BY <1>2, <2>1 DEF NoCommit
  <2>5. \A i \in 1 .. Len(Tail(q)) : FALSE
    <3> DEFINE n == Len(Tail(q))
    <3>1. n = 0
      BY <2>2
    <3> HIDE DEF n
    <3>2. \A i \in 1 .. n : FALSE
      BY <3>1
    <3> QED BY <3>2 DEF n
  <2>6. OneCommit(Tail(q), r)
    BY <2>1, <2>5 DEF OneCommit, NoCommit
  <2>7. OneCommit(Tail(q), a)
    BY <2>4, <2>5 DEF OneCommit
  <2> QED BY <2>1, <2>3, <2>6, <2>7 DEF a
<1>5. CASE q[1].type # "commit"
  <2>1. ASSUME NEW i \in 1 .. Len(Tail(q)), Tail(q)[i].type = "commit"
        PROVE  i = Len(Tail(q)) /\ NoCommit(r)
    <3>1. i + 1 = Len(q) /\ NoCommit(r)
      BY <1>1, <2>1 DEF OneCommit
    <3>2. i \in 1 .. (Len(q) - 1) /\ Len(q) \in Nat
      BY <1>1
    <3>3. i = Len(q) - 1
      BY <3>1, <3>2
    <3> QED BY <1>1, <3>1, <3>3
  <2>2. \A i, j \in 1 .. Len(a) : a[i].type = "commit" /\ a[j].type = "commit" => i = j
    BY <1>2, <1>5 DEF OneCommit
  <2> QED BY <1>3, <1>5, <2>1, <2>2 DEF OneCommit, a
<1> QED BY <1>4, <1>5

LEMMA OneCommitDrop ==
    ASSUME NEW q, NEW r \in Seq(Msgs), r # << >>, OneCommit(q, r)
    PROVE  /\ OneCommit(q, Tail(r))
           /\ r[1].type = "commit" => NoCommit(q) /\ NoCommit(Tail(r))
<1>1. /\ \A i \in 1 .. Len(Tail(r)) : i + 1 \in 1 .. Len(r) /\ Tail(r)[i] = r[i + 1] /\ i + 1 # 1
      /\ 1 \in 1 .. Len(r)
  BY TailAt
<1>2. NoCommit(r) => NoCommit(Tail(r)) /\ r[1].type # "commit"
  BY <1>1 DEF NoCommit
<1>3. \A i, j \in 1 .. Len(Tail(r)) :
         Tail(r)[i].type = "commit" /\ Tail(r)[j].type = "commit" => i = j
  <2> SUFFICES ASSUME NEW i \in 1 .. Len(Tail(r)), NEW j \in 1 .. Len(Tail(r)),
                      Tail(r)[i].type = "commit", Tail(r)[j].type = "commit"
               PROVE  i = j
    OBVIOUS
  <2>1. i + 1 = j + 1
    BY <1>1 DEF OneCommit
  <2> QED BY <2>1
<1>4. r[1].type = "commit" => NoCommit(Tail(r))
  BY <1>1 DEF OneCommit, NoCommit
<1>5. r[1].type = "commit" => NoCommit(q)
  BY <1>2 DEF OneCommit, NoCommit
<1> QED BY <1>2, <1>3, <1>4, <1>5 DEF OneCommit

LEMMA OneCommitAnswer ==
    ASSUME NEW q, NEW r \in Seq(Msgs), OneCommit(q, r), NEW m \in Msgs, m.type # "commit"
    PROVE  OneCommit(q, Append(r, m))
<1>1. NoCommit(r) => NoCommit(Append(r, m))
  BY NoCommitAppend
<1>2. \A i, j \in 1 .. Len(Append(r, m)) :
        Append(r, m)[i].type = "commit" /\ Append(r, m)[j].type = "commit" => i = j
  BY AppendAt DEF OneCommit
<1> QED BY <1>1, <1>2 DEF OneCommit

LEMMA CommitInit == Init => CommitInv
<1> SUFFICES ASSUME Init PROVE CommitInv
  OBVIOUS
<1>1. NoCommit(<< >>)
  BY EmptyAt DEF NoCommit
<1> QED BY <1>1, NoneAfterNone DEF Init, CommitInv, CoreBoot

LEMMA LocalCommit == ASSUME TypeInv, PhaseInv, CommitInv, Local PROVE CommitInv'
<1>1. UNCHANGED <<uxc, toUxc, toCore>> /\ SameCommit
  BY DEF Local, SameUxc
<1>2. ~core.reset_pending => ~core.awaiting_commit
  BY DEF PhaseInv
<1> QED BY <1>1, <1>2 DEF Local, LocalPc, SameCommit, CommitInv

LEMMA RequestCommit ==
    ASSUME TypeInv, TypeInv', LinkInv, PhaseInv, CommitInv, NEW type \in ReqTypes,
           Request(type) \/ LostRequest(type)
    PROVE  CommitInv'
<1>1. PICK m \in Msgs : m.type = type /\ toUxc' \in {toUxc, Append(toUxc, m)}
  <2> DEFINE m1 == Msg(type, app'.cmd, 0)
  <2> DEFINE l == [m1 EXCEPT !.cur = FALSE]
  <2>1. app'.cmd \in Cmds
    BY DEF TypeInv, AppType, Apps
  <2>2. m1 \in Msgs /\ l \in Msgs
    BY <2>1, MsgType DEF ReqTypes, MsgTypes
  <2>3. m1.type = type /\ l.type = type
    BY DEF Msg
  <2>4. toUxc' \in {toUxc, Append(toUxc, m1), Append(toUxc, l)}
    BY DEF Request, LostRequest
  <2> HIDE DEF m1, l
  <2> QED BY <2>2, <2>3, <2>4
<1>2. /\ core.kind \in IdleKinds /\ UNCHANGED <<toCore, uxc, pc>> /\ pc = "loop"
      /\ ~core.reset_pending /\ core'.awaiting_commit = core.awaiting_commit
      /\ core'.uxc_verified = core.uxc_verified
  BY DEF Request, LostRequest, Asking, SameUxc
<1>3. toUxc \in Seq(Msgs) /\ m.type # "commit"
  BY <1>1, CoreFields DEF ReqTypes
<1>4. uxc.cur = FALSE /\ ~core.awaiting_commit
  BY <1>2, LinkIdle, CoreFields DEF LinkInv, PhaseInv
<1>5. NoneAfterFinish(toUxc, toCore, FALSE)
  BY <1>4 DEF CommitInv
<1>6. NoneAfterFinish(toUxc', toCore, FALSE)
  BY <1>1, <1>3, <1>5, NoneAfterSend
<1>7. NoCommit(toUxc) => NoCommit(toUxc')
  BY <1>1, <1>3, NoCommitAppend
<1> QED BY <1>2, <1>4, <1>6, <1>7 DEF CommitInv

LEMMA CommitSentCommit ==
    ASSUME TypeInv, LinkInv, PhaseInv, CommitInv, CommitSent PROVE CommitInv'
<1>1. /\ pc = "send_commit" /\ UNCHANGED <<toCore, uxc>> /\ core'.uxc_verified = core.uxc_verified
      /\ core.uxc_verified /\ ~core.awaiting_commit /\ NoCommit(toUxc) /\ NoCommit(toCore)
      /\ core.kind \notin FinishKinds
  BY DEF CommitSent, SameUxc, CommitInv, PhaseInv
<1>2. PICK m \in Msgs :
        /\ m.type = "commit" /\ toUxc' \in {toUxc, Append(toUxc, m)}
        /\ \/ pc' = "loop" /\ core'.awaiting_commit /\ toUxc' = Append(toUxc, m)
           \/ pc' = "reset" /\ core'.awaiting_commit = core.awaiting_commit
  BY DEF CommitSent
<1>3. /\ \A i \in 1 .. Len(toUxc) : ~LiveFinish(toUxc[i])
      /\ \A i \in 1 .. Len(toCore) : ~LiveFinish(toCore[i])
      /\ uxc.cur = FALSE /\ toUxc \in Seq(Msgs)
  BY <1>1, CoreFields, KindsDiffer DEF LinkInv, LinkOK, LiveFinish, FinishKinds
<1>4. \A i \in 1 .. Len(toUxc') : ~LiveFinish(toUxc'[i])
  BY <1>2, <1>3, AppendAt DEF LiveFinish
<1>5. NoneAfterFinish(toUxc', toCore, FALSE)
  BY <1>3, <1>4, NoneAfterNoLive
<1>6. OneCommit(Append(toUxc, m), toCore)
  BY <1>1, <1>3, AppendAt DEF OneCommit, NoCommit
<1> QED BY <1>1, <1>2, <1>3, <1>5, <1>6 DEF CommitInv

LEMMA TakesCommitInv ==
    ASSUME TypeInv, LinkInv, echo, PhaseInv, CommitInv,
           Drops \/ TakesStart \/ TakesTransfer \/ TakesFinish \/ TakesCommit
    PROVE  CommitInv'
<1>1. /\ UNCHANGED <<uxc, toUxc>> /\ toCore # << >> /\ toCore' = Tail(toCore) /\ pc = "loop"
      /\ toCore \in Seq(Msgs) /\ toUxc \in Seq(Msgs)
  BY CoreFields DEF Drops, TakesStart, TakesTransfer, TakesFinish, TakesCommit, Takes, SameUxc
<1>2. NoneAfterFinish(toUxc', toCore', uxc'.cur)
  BY <1>1, NoneAfterDrop DEF CommitInv
<1>3. ASSUME ~core'.awaiting_commit, pc' # "send_commit", NoCommit(toUxc), NoCommit(Tail(toCore))
      PROVE  CommitInv'
  BY <1>1, <1>2, <1>3 DEF CommitInv
<1>4. CASE Drops \/ TakesStart \/ TakesTransfer
  <2>1. pc' = pc /\ SameCommit
    BY <1>4 DEF Drops, TakesStart, TakesTransfer, SameCommit
  <2>2. NoCommit(toCore) => NoCommit(toCore')
    BY <1>1, NoCommitTail
  <2>3. OneCommit(toUxc, toCore) => OneCommit(toUxc, toCore')
    BY <1>1, OneCommitDrop
  <2> QED BY <1>1, <1>2, <2>1, <2>2, <2>3 DEF CommitInv, SameCommit
<1>5. CASE TakesFinish
  <2>1. Takes({"finish"}) /\ Current /\ toCore[1].type = "finish"
    BY <1>5 DEF TakesFinish, Takes
  <2>2. LiveFinish(toCore[1]) /\ 1 \in 1 .. Len(toCore) /\ core.kind \in FinishKinds
    BY <2>1, LiveAnswer, KindsDiffer DEF LiveFinish
  <2>3. NoCommit(toUxc) /\ \A j \in 1 .. Len(toCore) : 1 < j => toCore[j].type # "commit"
    BY <2>2 DEF CommitInv, NoneAfterFinish
  <2>4. NoCommit(Tail(toCore))
    <3>1. \A i \in 1 .. Len(Tail(toCore)) :
             i + 1 \in 1 .. Len(toCore) /\ Tail(toCore)[i] = toCore[i + 1] /\ 1 < i + 1
      BY <1>1, TailAt
    <3> QED BY <2>3, <3>1 DEF NoCommit
  <2>5. ~core'.awaiting_commit /\ pc' # "send_commit"
    BY <1>1, <1>5, <2>2 DEF TakesFinish, PhaseInv, SameCommit
  <2> QED BY <1>3, <2>3, <2>4, <2>5
<1>6. CASE TakesCommit
  <2>1. /\ core.awaiting_commit /\ ~core'.awaiting_commit /\ pc' # "send_commit"
        /\ toCore[1].type = "commit"
    BY <1>6 DEF TakesCommit, Takes
  <2>2. OneCommit(toUxc, toCore)
    BY <1>1, <2>1 DEF CommitInv
  <2>3. NoCommit(toUxc) /\ NoCommit(Tail(toCore))
    BY <1>1, <2>1, <2>2, OneCommitDrop
  <2> QED BY <1>3, <2>1, <2>3
<1> QED BY <1>4, <1>5, <1>6

LEMMA VersionCommit == ASSUME TypeInv, CommitInv, TakesVersion PROVE CommitInv'
<1>1. /\ toUxc \in Seq(Msgs) /\ Tail(toCore) \in Seq(Msgs) /\ uxc'.cur = FALSE /\ pc = "loop"
      /\ toCore' = Retired(Tail(toCore)) /\ toUxc' = Retired(toUxc)
  BY CoreFields, TailAt DEF TakesVersion
<1>2. /\ \A i \in 1 .. Len(toUxc') : ~LiveFinish(toUxc'[i])
      /\ \A i \in 1 .. Len(toCore') : ~LiveFinish(toCore'[i])
  BY <1>1, RetiredAt DEF LiveFinish
<1>3. NoneAfterFinish(toUxc', toCore', FALSE)
  BY <1>2, NoneAfterNoLive
<1> QED BY <1>1, <1>3 DEF TakesVersion, SameCommit, CommitInv

LEMMA HandledCommitInv ==
    ASSUME TypeInv, LinkInv, CommitInv, NEW types, Handled(types),
           \/ uxc'.pc # "apply" /\ uxc'.cur = uxc.cur
           \/ uxc'.pc = "apply" /\ uxc'.cur = toUxc[1].cur /\ toUxc[1].type = "finish"
    PROVE  CommitInv'
<1>1. /\ toUxc \in Seq(Msgs) /\ toCore \in Seq(Msgs) /\ toUxc # << >> /\ uxc.pc = "loop"
      /\ toUxc' = Tail(toUxc) /\ UNCHANGED <<core, pc>> /\ uxc.cur = FALSE
  BY CoreFields DEF Handled, UxcFrame, LinkInv
<1>2. PICK m \in Msgs : /\ m.type = toUxc[1].type /\ m.cur = toUxc[1].cur
                        /\ toCore' \in {toCore, Append(toCore, m)}
  BY DEF Handled
<1>3. (LiveFinish(m) <=> LiveFinish(toUxc[1])) /\ (uxc'.cur => LiveFinish(toUxc[1]))
  BY <1>1, <1>2 DEF LiveFinish, Live
<1>4. /\ NoneAfterFinish(Tail(toUxc), toCore, uxc'.cur)
      /\ LiveFinish(toUxc[1]) => NoCommit(Tail(toUxc))
  BY <1>1, <1>3, NoneAfterHandle DEF CommitInv
<1>5. NoCommit(toUxc) => NoCommit(Tail(toUxc)) /\ m.type # "commit"
  BY <1>1, <1>2, NoCommitTail
<1>6. NoneAfterFinish(toUxc', toCore', uxc'.cur)
  <2>1. CASE m.type # "commit"
    <3>1. LiveFinish(m) => NoCommit(Tail(toUxc))
      BY <1>3, <1>4
    <3>2. NoneAfterFinish(Tail(toUxc), Append(toCore, m), uxc'.cur)
      BY <1>1, <1>4, <2>1, <3>1, NoneAfterAnswer
    <3> QED BY <1>1, <1>2, <1>4, <3>2
  <2>2. CASE m.type = "commit"
    <3>1. /\ \A i \in 1 .. Len(toCore) : ~LiveFinish(toCore[i])
          /\ ~uxc'.cur
      <4>1. ~NoCommit(toUxc)
        BY <1>5, <2>2
      <4>2. \A i \in 1 .. Len(toCore) : ~LiveFinish(toCore[i])
        BY <4>1 DEF CommitInv, NoneAfterFinish
      <4>3. ~uxc'.cur
        BY <1>2, <1>3, <2>2 DEF LiveFinish
      <4> QED BY <4>2, <4>3
    <3>2. \A i \in 1 .. Len(toCore') : ~LiveFinish(toCore'[i])
      <4>1. ~LiveFinish(m)
        BY <2>2 DEF LiveFinish
      <4>2. CASE toCore' = toCore
        BY <3>1, <4>2
      <4>3. CASE toCore' = Append(toCore, m)
        <5>1. SUFFICES ASSUME NEW i \in 1 .. Len(Append(toCore, m))
                       PROVE  ~LiveFinish(Append(toCore, m)[i])
          BY <4>3
        <5>2. CASE i \in 1 .. Len(toCore)
          BY <1>1, <3>1, <5>2, AppendAt
        <5>3. CASE i = Len(toCore) + 1
          BY <1>1, <4>1, <5>3, AppendAt
        <5> QED BY <1>1, <5>2, <5>3, AppendAt
      <4> QED BY <1>2, <4>2, <4>3
    <3> QED BY <1>1, <1>4, <3>1, <3>2 DEF NoneAfterFinish
  <2> QED BY <2>1, <2>2
<1>7. NoCommit(toUxc) /\ NoCommit(toCore) => NoCommit(toUxc') /\ NoCommit(toCore')
  BY <1>1, <1>2, <1>5, NoCommitAppend
<1>8. OneCommit(toUxc, toCore) => OneCommit(toUxc', toCore')
  BY <1>1, <1>2, OneCommitHandle
<1> QED BY <1>1, <1>6, <1>7, <1>8 DEF CommitInv

LEMMA AppliedCommit == ASSUME TypeInv, CommitInv, Applied PROVE CommitInv'
<1>1. toCore \in Seq(Msgs) /\ UNCHANGED <<toUxc, core, pc>> /\ uxc'.cur = FALSE
  BY CoreFields DEF Applied, UxcFrame
<1>2. PICK m \in Msgs : /\ m.type = "finish" /\ m.cur = uxc.cur
                        /\ toCore' \in {toCore, Append(toCore, m)}
  BY DEF Applied
<1>3. LiveFinish(m) => NoCommit(toUxc)
  BY <1>2 DEF LiveFinish, Live, CommitInv, NoneAfterFinish
<1>4. NoneAfterFinish(toUxc, toCore, FALSE)
  BY DEF CommitInv, NoneAfterFinish
<1>5. NoneAfterFinish(toUxc, Append(toCore, m), FALSE)
  BY <1>1, <1>2, <1>3, <1>4, NoneAfterAnswer
<1>6. NoCommit(toCore) => NoCommit(toCore')
  BY <1>1, <1>2, NoCommitAppend
<1>7. OneCommit(toUxc, toCore) => OneCommit(toUxc, toCore')
  BY <1>1, <1>2, OneCommitAnswer
<1> QED BY <1>1, <1>2, <1>4, <1>5, <1>6, <1>7 DEF CommitInv

LEMMA RestartsCommit == ASSUME TypeInv, CommitInv, UxcRestarts \/ CoreRestarts PROVE CommitInv'
<1>1. CASE UxcRestarts
  <2>1. PICK m \in Msgs : /\ m.type = "version" /\ m.cur = FALSE
                          /\ toCore' \in {toCore, Append(toCore, m)}
    BY <1>1 DEF UxcRestarts, Restarted
  <2>2. toUxc' = << >> /\ uxc'.cur = FALSE /\ UNCHANGED <<core, pc>> /\ toCore \in Seq(Msgs)
    BY <1>1, CoreFields DEF UxcRestarts, Restarted, UxcBoot
  <2>3. Len(<< >>) = 0 /\ NoCommit(<< >>)
    BY EmptyAt DEF NoCommit
  <2>4. NoneAfterFinish(<< >>, toCore, FALSE)
    BY <2>3 DEF CommitInv, NoneAfterFinish
  <2>5. NoneAfterFinish(<< >>, Append(toCore, m), FALSE)
    BY <2>1, <2>2, <2>3, <2>4, NoneAfterAnswer
  <2>6. NoCommit(toCore) => NoCommit(toCore')
    BY <2>1, <2>2, NoCommitAppend
  <2>7. OneCommit(toUxc, toCore) => OneCommit(<< >>, toCore)
    BY <2>3 DEF OneCommit
  <2>8. OneCommit(<< >>, toCore) => OneCommit(<< >>, toCore')
    BY <2>1, <2>2, OneCommitAnswer
  <2> QED BY <2>1, <2>2, <2>3, <2>4, <2>5, <2>6, <2>7, <2>8 DEF CommitInv
<1>2. CASE CoreRestarts
  <2>1. pc' = "loop" /\ core'.awaiting_commit = FALSE /\ core'.uxc_verified = FALSE
    BY <1>2 DEF CoreRestarts, CoreBoot
  <2>2. CASE uxc'.cur = FALSE /\ toUxc' = Retired(toUxc) /\ toCore' = << >>
    BY <2>1, <2>2, NoCommitRetired, CoreFields DEF CommitInv
  <2>3. CASE Restarted(<< >>)
    <3>1. PICK m \in Msgs : m.cur = FALSE /\ m.type = "version" /\ toCore' \in {<< >>, Append(<< >>, m)}
      BY <2>3 DEF Restarted
    <3>2. toUxc' = << >> /\ uxc'.cur = FALSE
      BY <2>3 DEF Restarted, UxcBoot
    <3>3. NoCommit(<< >>)
      BY EmptyAt DEF NoCommit
    <3>4. NoCommit(toCore')
      BY <3>1, <3>3, EmptyAt, NoCommitAppend
    <3>5. NoneAfterFinish(toUxc', toCore', uxc'.cur)
      BY <3>2, <3>3, <3>4, NoneAfterNone
    <3> QED BY <2>1, <3>5 DEF CommitInv
  <2> QED BY <1>2, <2>2, <2>3 DEF CoreRestarts
<1> QED BY <1>1, <1>2

LEMMA CommitStep ==
    ASSUME TypeInv, TypeInv', LinkInv, PhaseInv, echo, CommitInv,
           CoreDoes \/ UxcDoes \/ CoreRestarts
    PROVE  CommitInv'
<1>1. CASE CoreDoes
  BY <1>1, LocalCommit, RequestCommit, CommitSentCommit, TakesCommitInv, VersionCommit
     DEF CoreDoes, AnyRequest
<1>2. CASE HandledStart \/ HandledTransfer
  BY <1>2, HandledCommitInv DEF HandledStart, HandledTransfer
<1>3. CASE HandledFinish
  BY <1>3, HandledCommitInv DEF HandledFinish, Handled
<1>4. CASE HandledCommit
  <2>1. Handled({"commit"}) /\ uxc' = uxc /\ uxc.pc = "loop"
    BY <1>4 DEF HandledCommit, Handled
  <2> QED BY <2>1, HandledCommitInv
<1>5. CASE CommittedPatched
  BY <1>5 DEF CommittedPatched, UxcFrame, CommitInv
<1>6. CASE Applied \/ UxcRestarts \/ CoreRestarts
  BY <1>6, AppliedCommit, RestartsCommit
<1> QED BY <1>1, <1>2, <1>3, <1>4, <1>5, <1>6 DEF UxcDoes

-----------------------------------------------------------------------------
(* Core's own update *)
C == chip["Core"]
OnCore == app.cmd.mcu = "Core" /\ app.step \in {"open", "body", "sig"}

\* Core's update is under way, and Core has not restarted since it was begun.
Under == OnCore /\ C.conf # 0

\* Core is about to ask the UXC to commit, or waits for the answer.
Waits == pc = "send_commit" \/ (pc = "loop" /\ core.awaiting_commit)

GoesOn ==
    /\ Under /\ chip'["Core"].conf = C.conf /\ goal' = goal
    /\ core'.confirmed \in {0, core.confirmed}
    /\ core.defer /\ core.pending => core'.defer /\ core'.pending
Begins ==
    /\ pc = "loop" /\ ~core.reset_pending /\ SameUxc /\ UNCHANGED toUxc
    /\ core'.confirmed = chip'["Core"].conf
    /\ goal' # 0 => /\ core'.defer /\ core'.pending
                    /\ goal' = chip'["Core"].conf /\ Holds(U, goal')

\* How the slot s of Core may become bootable.
Written(s) ==
    \/ Under /\ ~core.defer
    \/ /\ echo /\ pc = "loop" /\ core.awaiting_commit /\ toCore # << >>
       /\ toCore[1].type = "commit" /\ toCore[1].result = "ok"
    \/ staged # NoFile /\ staged.uxc = reported.boot /\ chip'["Core"].img[s] = staged.sig

StagedNow ==
    \/ staged' \in {staged, NoFile}
    \/ Under /\ core.confirmed # 0 /\ staged'.uxc = core.confirmed /\ staged'.sig = C.conf

\* What any step but a restart of Core may do to it.
CoreSide ==
    /\ Under' => GoesOn \/ Begins
    /\ Waits' => \/ goal' = goal /\ (Waits \/ (Under /\ pc' = "send_commit"))
                 \/ ~core.reset_pending /\ core.awaiting_commit
    /\ StagedNow
    /\ reported'.boot = reported.boot
    /\ \A s \in Slots : chip'["Core"].sig[s] # C.sig[s] /\ Valid(chip'["Core"], s) => Written(s)

\* A step that goes on with what is under way, and writes nothing to Core's flash.
LEMMA KeepsSide ==
    ASSUME chip'["Core"] = chip["Core"], UNCHANGED goal, staged' \in {staged, NoFile},
           reported'.boot = reported.boot,
           OnCore' => /\ OnCore /\ core'.confirmed \in {0, core.confirmed}
                      /\ core.defer /\ core.pending => core'.defer /\ core'.pending,
           Waits' => Waits
    PROVE  CoreSide
BY DEF CoreSide, Under, GoesOn, StagedNow, C

LEMMA TwoSlots ==
    ASSUME NEW ch \in Chips, NEW s \in Slots
    PROVE  s = ch.run \/ s = fwup_target_slot(ch)
BY DEF Slots, fwup_target_slot, Chips

\* Signatures are erased at most.
SigsKept(ch, c) == \A s \in Slots : c.sig[s] \in {ch.sig[s], 0}

LEMMA KeptInvalid ==
    ASSUME NEW ch, NEW c, SigsKept(ch, c), NEW s \in Slots, c.sig[s] # ch.sig[s]
    PROVE  ~Valid(c, s)
<1>1. c.sig[s] = 0 /\ 0 \notin 1 .. MaxVersion
  BY DEF SigsKept
<1> QED BY <1>1 DEF Valid

LEMMA TargetKept ==
    ASSUME NEW ch \in Chips, NEW c, SameRun(ch, c), TSig(c) \in {TSig(ch), 0} PROVE SigsKept(ch, c)
<1>1. fwup_target_slot(c) = fwup_target_slot(ch)
  BY RunTarget DEF SameRun
<1> QED BY <1>1, TwoSlots DEF SigsKept, SameRun, TSig

LEMMA StartKept ==
    ASSUME NEW ch \in Chips, NEW cmd \in Cmds, NEW o \in fwup_start(ch, cmd) PROVE SigsKept(ch, o.ch)
<1> DEFINE opened == [ch EXCEPT !.conf = cmd.v, !.pend = 0, !.verified = FALSE,
                                !.patch = 0, !.open = (cmd.mode = "delta")]
<1> DEFINE closed == [opened EXCEPT !.open = FALSE]
<1>1. (cmd.mode = "delta") \in BOOLEAN /\ cmd.v \in 0 .. MaxVersion /\ 0 \in 0 .. MaxVersion
  BY Constants DEF Cmds
<1>2. /\ opened \in Chips /\ opened.run = ch.run /\ opened.sig = ch.sig /\ opened.img = ch.img
      /\ closed.sig = ch.sig
  BY <1>1 DEF Chips
<1>3. o.ch \in {opened, closed, Erased(opened), HalfErased(opened)}
  BY DEF fwup_start, Outcome
<1> HIDE DEF opened, closed
<1>4. SigsKept(opened, Erased(opened)) /\ SigsKept(opened, HalfErased(opened))
  BY <1>2, ErasedFacts, TargetKept
<1> QED BY <1>2, <1>3, <1>4 DEF SigsKept

LEMMA TransferKept ==
    ASSUME NEW ch \in Chips, NEW cmd, NEW part, NEW o \in fwup_transfer(ch, part, cmd)
    PROVE  o.ch.sig = ch.sig /\ o.ch.conf = ch.conf
<1> DEFINE t == fwup_target_slot(ch)
<1>1. o.ch \in {ch, [ch EXCEPT !.pend = cmd.v, !.verified = FALSE], [ch EXCEPT !.patch = cmd.v],
                [ch EXCEPT !.img[t] = Program(@, cmd.v)], [ch EXCEPT !.img[t] = Junk]}
  BY DEF fwup_transfer, Outcome
<1> QED BY <1>1 DEF Chips

LEMMA FinishKept ==
    ASSUME NEW ch \in Chips, NEW mode, NEW o \in fwup_finish(ch, mode)
    PROVE  /\ SigsKept(ch, o.ch) /\ o.ch.conf = ch.conf
           /\ o.ok => ch.conf # 0 /\ o.ch.pend = ch.conf
<1> DEFINE t == fwup_target_slot(ch)
<1> DEFINE applied == [Erased(ch) EXCEPT !.img[t] = ch.patch, !.patch = 0]
<1> DEFINE half == [HalfErased(ch) EXCEPT !.patch = 0]
<1> DEFINE checked(c) == [c EXCEPT !.verified = Verifies(c)]
<1>1. /\ Erased(ch) \in Chips /\ HalfErased(ch) \in Chips
      /\ Erased(ch).conf = ch.conf /\ HalfErased(ch).conf = ch.conf
      /\ SigsKept(ch, Erased(ch)) /\ SigsKept(ch, HalfErased(ch)) /\ SigsKept(ch, ch)
  BY ErasedFacts, TargetKept DEF SameRam, SigsKept
<1>2. /\ applied.sig = Erased(ch).sig /\ applied.conf = ch.conf
      /\ half.sig = HalfErased(ch).sig /\ half.conf = ch.conf
      /\ DOMAIN applied = DOMAIN ch
  BY <1>1 DEF Chips
<1>3. \A c \in {ch, applied} : /\ checked(c).sig = c.sig /\ checked(c).conf = ch.conf
                               /\ checked(c).pend = c.pend
  <2>1. ch \in Chips /\ \A c : checked(c) = [c EXCEPT !.verified = Verifies(c)]
    OBVIOUS
  <2> QED BY <1>1, <1>2 DEF Chips
<1>4. \/ \E c \in {ch, applied} : o.ok = Verifies(c) /\ o.ch = checked(c)
      \/ ~o.ok /\ o.ch \in {ch, half}
  BY DEF fwup_finish, Outcome
<1>5. \A c \in {ch, applied} : SigsKept(ch, c) /\ c.conf = ch.conf
  BY <1>1, <1>2 DEF SigsKept
<1> HIDE DEF applied, half, checked
<1>6. \A c \in {ch, applied} : Verifies(c) => c.pend = c.conf /\ c.conf # 0
  BY DEF Verifies
<1> QED BY <1>1, <1>2, <1>3, <1>4, <1>5, <1>6 DEF SigsKept

LEMMA CommitKept ==
    ASSUME NEW ch \in Chips, NEW o \in fwup_commit_signature(ch) PROVE o.ch.conf = ch.conf
BY CommitFacts DEF SameRam

LEMMA StagedKept ==
    ASSUME NEW ch \in Chips, NEW file, NEW o \in fwup_staged_sig_commit_to_flash(ch, file)
    PROVE  /\ o.ch.conf = ch.conf
           /\ \A s \in Slots : o.ch.sig[s] # ch.sig[s] /\ Valid(o.ch, s) => o.ch.img[s] = file.sig
<1> DEFINE p == file.slot
<1> DEFINE c1 == [ch EXCEPT !.sig[p] = Program(@, file.sig)]
<1> DEFINE c2 == [ch EXCEPT !.sig[p] = 0]
<1>1. o.ch \in {ch, c1, c2}
  BY DEF fwup_staged_sig_commit_to_flash, fwup_commit_signature_to, Outcome
<1>2. /\ c1.conf = ch.conf /\ c2.conf = ch.conf
      /\ c1.sig = [ch.sig EXCEPT ![p] = Program(@, file.sig)]
      /\ c2.sig = [ch.sig EXCEPT ![p] = 0]
  BY DEF Chips
<1>3. ch.sig \in [Slots -> Images]
  BY DEF Chips
<1>4. ASSUME NEW s \in Slots, o.ch.sig[s] # ch.sig[s], Valid(o.ch, s)
      PROVE  o.ch.img[s] = file.sig
  <2>1. o.ch.sig[s] = Program(ch.sig[s], file.sig) \/ o.ch.sig[s] = 0
    <3> HIDE DEF c1, c2, p
    <3> QED BY <1>1, <1>2, <1>3, <1>4
  <2>2. o.ch.sig[s] \in 1 .. MaxVersion /\ o.ch.img[s] = o.ch.sig[s]
    BY <1>4 DEF Valid
  <2>3. o.ch.sig[s] # 0 /\ o.ch.sig[s] # Junk
    BY <2>2 DEF Junk
  <2> QED BY <2>1, <2>2, <2>3 DEF Program
<1> HIDE DEF c1, c2
<1> QED BY <1>1, <1>2, <1>4

-----------------------------------------------------------------------------
(* What each action does to Core *)
LEMMA CoreChip ==
    ASSUME TypeInv PROVE chip["Core"] \in Chips /\ chip["Uxc"] \in Chips /\ reported \in Reports
BY DEF TypeInv, ChipInv, Sound, ReportedType

LEMMA SendStartSide ==
    ASSUME TypeInv, NEW cmd \in Cmds, cmd.mcu = "Uxc", Accepts,
           fwup_task_send_coproc_fwup_start_cmd(cmd),
           UNCHANGED <<pc, staged, uxc, echo, toCore, reported, crashes>>
    PROVE  CoreSide
<1>1. UNCHANGED <<chip, goal, staged, reported>>
  BY DEF fwup_task_send_coproc_fwup_start_cmd
<1>2. app'.cmd.mcu = "Uxc"
  <2>1. app' \in {[cmd |-> cmd, step |-> "confirm"], [cmd |-> cmd, step |-> "start"]}
    BY DEF fwup_task_send_coproc_fwup_start_cmd
  <2> QED BY <2>1
<1>3. core'.awaiting_commit = core.awaiting_commit
  BY SendStartDoes DEF Local, SameCommit, Request, LostRequest, Asking
<1> QED BY <1>1, <1>2, <1>3, KeepsSide DEF OnCore, Waits

LEMMA CoreStartSide ==
    ASSUME TypeInv, NEW c1 \in Cores, NEW cmd \in Cmds, NEW b \in BOOLEAN,
           CoreStart(c1, cmd, b), c1.confirmed = cmd.v,
           c1.awaiting_commit = core.awaiting_commit,
           pc = "loop", ~core.reset_pending, UNCHANGED <<pc, staged, uxc, echo, toUxc, reported>>
    PROVE  CoreSide
<1>1. PICK o \in fwup_start(chip["Core"], cmd) :
        /\ chip' = [chip EXCEPT !["Core"] = o.ch]
        /\ core' = [c1 EXCEPT !.pending = o.ok,
                              !.confirmed = IF o.ok \/ ~b THEN @ ELSE 0]
        /\ goal' = IF c1.defer /\ Holds(chip["Uxc"], cmd.v) THEN cmd.v ELSE 0
        /\ app' = [cmd |-> cmd, step |-> IF o.ok THEN "open" ELSE "idle"]
  BY DEF CoreStart
<1>2. SameUxc /\ chip'["Core"] = o.ch
  BY <1>1, ChipUpdate DEF SameUxc
<1>3. o.ch.conf = cmd.v /\ SigsKept(C, o.ch)
  BY StartFacts, StartKept, CoreChip DEF C
<1>4. /\ core'.defer = c1.defer /\ core'.pending = o.ok /\ core'.awaiting_commit = core.awaiting_commit
      /\ o.ok => core'.confirmed = cmd.v
  BY <1>1 DEF Cores
<1>5. OnCore' => o.ok
  BY <1>1 DEF OnCore
<1>6. Under' => Begins
  <2>1. goal' # 0 => c1.defer /\ goal' = cmd.v /\ Holds(U, goal')
    BY <1>1 DEF U
  <2> QED BY <1>2, <1>3, <1>4, <1>5, <2>1 DEF Under, Begins
<1>7. Waits' => core.awaiting_commit
  BY <1>4 DEF Waits
<1>8. \A s \in Slots : chip'["Core"].sig[s] # C.sig[s] => ~Valid(chip'["Core"], s)
  BY <1>2, <1>3, KeptInvalid
<1> QED BY <1>6, <1>7, <1>8 DEF CoreSide, StagedNow

LEMMA HandleStartSide ==
    ASSUME TypeInv, NEW cmd \in Cmds, cmd.mcu = "Core", Accepts,
           fwup_task_port_handle_start_cmd(cmd),
           UNCHANGED <<pc, staged, uxc, echo, toCore, reported, crashes>>
    PROVE  CoreSide
<1> DEFINE c1 == [core EXCEPT !.defer = cmd.defer \/ core.uxc_verified]
<1> DEFINE c0 == [core EXCEPT !.defer = FALSE]
<1>1. core \in Cores /\ cmd.defer \in BOOLEAN /\ core.uxc_verified \in BOOLEAN
  BY CoreFields DEF Cmds
<1>2. /\ c1 \in Cores /\ c1.confirmed = core.confirmed
      /\ c1.awaiting_commit = core.awaiting_commit /\ c0.awaiting_commit = core.awaiting_commit
  BY <1>1 DEF Cores
<1>3. \/ CoreStart(c1, cmd, FALSE) /\ core.confirmed = cmd.v
      \/ core' \in {c0, c1} /\ (app' = Idle \/ app' = [cmd |-> cmd, step |-> "confirm"])
         /\ UNCHANGED <<chip, goal>>
  BY DEF fwup_task_port_handle_start_cmd, NeedsConfirmation
<1> HIDE DEF c1, c0
<1>4. pc = "loop" /\ UNCHANGED toUxc /\ ~core.reset_pending
  BY DEF Accepts, Loop, fwup_task_port_handle_start_cmd
<1>5. CASE CoreStart(c1, cmd, FALSE) /\ core.confirmed = cmd.v
  BY <1>2, <1>4, <1>5, CoreStartSide
<1>6. CASE /\ core' \in {c0, c1} /\ (app' = Idle \/ app' = [cmd |-> cmd, step |-> "confirm"])
           /\ UNCHANGED <<chip, goal>>
  <2>1. ~OnCore'
    BY <1>6 DEF OnCore, Idle
  <2>2. core'.awaiting_commit = core.awaiting_commit
    BY <1>2, <1>6
  <2> QED BY <1>6, <2>1, <2>2, KeepsSide DEF Waits
<1> QED BY <1>3, <1>5, <1>6

LEMMA AppStartSide == ASSUME TypeInv, AppStart PROVE CoreSide
<1>1. PICK cmd \in [mcu : Mcus, v : Releases, mode : Modes, defer : BOOLEAN] :
        /\ Accepts
        /\ \/ cmd.mcu = "Uxc" /\ fwup_task_send_coproc_fwup_start_cmd(cmd)
           \/ cmd.mcu = "Core" /\ fwup_task_port_handle_start_cmd(cmd)
        /\ UNCHANGED <<pc, staged, uxc, echo, toCore, reported, crashes>>
  BY DEF AppStart
<1>2. cmd \in Cmds
  BY Constants DEF Cmds
<1> QED BY <1>1, <1>2, SendStartSide, HandleStartSide

LEMMA ConfirmationResultSide ==
    ASSUME TypeInv, fwup_handle_confirmation_result PROVE CoreSide
<1> DEFINE c1 == [core EXCEPT !.confirmed = confirm.v]
<1>1. core \in Cores /\ confirm \in Cmds /\ confirm.v \in 0 .. MaxVersion /\ app \in Apps
  BY CoreFields DEF Cmds
<1>2. /\ c1 \in Cores /\ c1.confirmed = confirm.v
      /\ c1.awaiting_commit = core.awaiting_commit
  BY <1>1 DEF Cores
<1>3. /\ pc = "loop" /\ UNCHANGED <<pc, staged, uxc, echo, toCore, reported>>
      /\ app.step = "confirm" /\ app.cmd = confirm
  BY DEF fwup_handle_confirmation_result, Loop
<1>4. CASE ~core.reset_pending /\ confirm.mcu = "Core"
  <2>1. CoreStart(c1, confirm, TRUE) /\ UNCHANGED toUxc
    BY <1>4 DEF fwup_handle_confirmation_result
  <2> HIDE DEF c1
  <2> QED BY <1>1, <1>2, <1>3, <1>4, <2>1, CoreStartSide
<1>5. CASE ~(~core.reset_pending /\ confirm.mcu = "Core")
  <2>1. /\ UNCHANGED <<chip, goal>>
        /\ \/ app' = Idle \/ app' = app
           \/ app' = [app EXCEPT !.step = "open"] /\ confirm.mcu = "Uxc"
        /\ core' \in {core, c1, [c1 EXCEPT !.kind = "none"],
                      [c1 EXCEPT !.kind = "start_confirmed", !.coproc = TRUE],
                      [c1 EXCEPT !.confirmed = 0]}
    BY <1>5 DEF fwup_handle_confirmation_result
  <2>2. core'.awaiting_commit = core.awaiting_commit
    BY <1>1, <1>2, <2>1 DEF Cores
  <2>3. ~OnCore'
    BY <1>1, <1>3, <2>1 DEF OnCore, Idle, Apps
  <2> QED BY <1>3, <2>1, <2>2, <2>3, KeepsSide DEF Waits
<1> QED BY <1>4, <1>5

LEMMA ForwardSide ==
    ASSUME TypeInv, NEW type \in {"body", "sig", "finish"}, NEW kind,
           Accepts, ForwardToUxc(type, kind), UNCHANGED <<goal, reported>>
    PROVE  CoreSide
<1>1. /\ app.cmd.mcu = "Uxc" /\ UNCHANGED <<chip, staged, pc, app>>
      /\ core' \in {[core EXCEPT !.kind = kind],
                    [[core EXCEPT !.kind = kind] EXCEPT !.reset_pending = TRUE],
                    [core EXCEPT !.confirmed = 0, !.coproc = FALSE]}
  BY DEF ForwardToUxc
<1>2. core'.awaiting_commit = core.awaiting_commit
  BY <1>1, CoreFields DEF Cores
<1> QED BY <1>1, <1>2, KeepsSide DEF OnCore, Waits

LEMMA TransferCmdSide == ASSUME TypeInv, fwup_task_handle_transfer_cmd PROVE CoreSide
<1>1. PICK part \in {"body", "sig"} :
        /\ Accepts /\ app.step = (IF part = "body" THEN "open" ELSE "body")
        /\ \/ ForwardToUxc(part, "transfer")
           \/ \E o \in fwup_transfer(chip["Core"], part, app.cmd) :
                /\ app.cmd.mcu = "Core"
                /\ chip' = [chip EXCEPT !["Core"] = o.ch]
                /\ Told(IF o.ok THEN part ELSE "idle", o.cost)
                /\ UNCHANGED <<core, toUxc, staged, pc>>
        /\ UNCHANGED <<goal, reported>>
  BY DEF fwup_task_handle_transfer_cmd
<1>2. CASE ForwardToUxc(part, "transfer")
  BY <1>1, <1>2, ForwardSide
<1>3. CASE ~ForwardToUxc(part, "transfer")
  <2>1. PICK o \in fwup_transfer(chip["Core"], part, app.cmd) :
                /\ app.cmd.mcu = "Core"
                /\ chip' = [chip EXCEPT !["Core"] = o.ch]
                /\ UNCHANGED <<core, toUxc, staged, pc>>
    BY <1>1, <1>3
  <2>2. chip'["Core"] = o.ch /\ o.ch.sig = C.sig /\ o.ch.conf = C.conf
    BY <2>1, ChipUpdate, CoreChip, TransferKept DEF C
  <2>3. OnCore
    BY <1>1, <2>1 DEF OnCore
  <2> QED BY <1>1, <2>1, <2>2, <2>3 DEF CoreSide, Under, GoesOn, StagedNow, Waits, C
<1> QED BY <1>2, <1>3

LEMMA FinishCmdSide == ASSUME TypeInv, fwup_task_handle_finish_cmd PROVE CoreSide
<1>1. Accepts /\ app.step = "sig" /\ UNCHANGED <<goal, reported>> /\ pc = "loop"
  BY DEF fwup_task_handle_finish_cmd, Accepts, Loop
<1>2. CASE ForwardToUxc("finish", "finish")
  BY <1>1, <1>2, ForwardSide
<1>3. CASE ~ForwardToUxc("finish", "finish")
  <2>1. PICK o \in (IF app.cmd.mode = "delta" /\ ~fwup_pre_apply_check(chip["Core"])
                    THEN {Outcome(FALSE, chip["Core"], 0)}
                    ELSE fwup_finish(chip["Core"], app.cmd.mode)) :
            /\ app.cmd.mcu = "Core" /\ app' = Idle /\ UNCHANGED core
            /\ \/ /\ o.ok /\ fwup_task_port_try_atomic_commit
                  /\ chip' = [chip EXCEPT !["Core"] = o.ch]
                  /\ \/ /\ staged' = [sig |-> o.ch.pend, uxc |-> core.confirmed,
                                      slot |-> fwup_target_slot(o.ch)]
                        /\ pc' = "send_commit"
                     \/ UNCHANGED staged /\ pc' = "reset"
               \/ /\ chip' = [chip EXCEPT !["Core"] = o.ch]
                  /\ pc' = "reset" /\ UNCHANGED staged
               \/ /\ o.ok /\ ~core.defer
                  /\ \E w \in fwup_commit_signature(o.ch) : chip' = [chip EXCEPT !["Core"] = w.ch]
                  /\ pc' = "reset" /\ UNCHANGED staged
    BY <1>3 DEF fwup_task_handle_finish_cmd
  <2>2. OnCore /\ ~OnCore'
    BY <1>1, <2>1 DEF OnCore, Idle
  <2>3. /\ SigsKept(C, o.ch) /\ o.ch.conf = C.conf
        /\ o.ok => C.conf # 0 /\ o.ch.pend = C.conf
    <3>1. CASE o = Outcome(FALSE, chip["Core"], 0)
      BY <3>1 DEF Outcome, SigsKept, C
    <3>2. CASE o \in fwup_finish(chip["Core"], app.cmd.mode)
      BY <3>2, CoreChip, FinishKept DEF C
    <3> QED BY <3>1, <3>2
  <2>4. CASE chip' = [chip EXCEPT !["Core"] = o.ch] /\ (pc' = "reset" /\ UNCHANGED staged)
    <3>1. \A s \in Slots : chip'["Core"].sig[s] # C.sig[s] => ~Valid(chip'["Core"], s)
      BY <2>3, <2>4, ChipUpdate, KeptInvalid
    <3> QED BY <1>1, <2>2, <2>4, <3>1 DEF CoreSide, Under, StagedNow, Waits
  <2>5. CASE /\ o.ok /\ fwup_task_port_try_atomic_commit
             /\ chip' = [chip EXCEPT !["Core"] = o.ch]
             /\ staged' = [sig |-> o.ch.pend, uxc |-> core.confirmed,
                           slot |-> fwup_target_slot(o.ch)]
             /\ pc' = "send_commit"
    <3>1. \A s \in Slots : chip'["Core"].sig[s] # C.sig[s] => ~Valid(chip'["Core"], s)
      BY <2>3, <2>5, ChipUpdate, KeptInvalid
    <3>2. Under /\ core.confirmed # 0
      BY <2>2, <2>3, <2>5 DEF Under, fwup_task_port_try_atomic_commit
    <3>3. staged'.uxc = core.confirmed /\ staged'.sig = C.conf
      BY <2>3, <2>5
    <3> QED BY <1>1, <2>2, <2>5, <3>1, <3>2, <3>3 DEF CoreSide, Under, StagedNow, Waits
  <2>6. CASE /\ o.ok /\ ~core.defer /\ pc' = "reset" /\ UNCHANGED staged
    <3>1. Under /\ ~core.defer
      BY <2>2, <2>3, <2>6 DEF Under
    <3> QED BY <1>1, <2>2, <2>6, <3>1 DEF CoreSide, Under, StagedNow, Waits, Written
  <2> QED BY <2>1, <2>4, <2>5, <2>6
<1> QED BY <1>2, <1>3

LEMMA AtomicCommitSide == ASSUME TypeInv, fwup_atomic_commit PROVE CoreSide
<1> DEFINE seq == core.seq_counter + 1
<1>1. /\ UNCHANGED <<chip, goal, staged, reported, app>> /\ pc = "send_commit"
      /\ core' \in {[core EXCEPT !.seq_counter = seq, !.commit_seq = seq,
                                 !.awaiting_commit = TRUE, !.reset_pending = TRUE],
                    [core EXCEPT !.seq_counter = seq]}
  BY DEF fwup_atomic_commit
<1> HIDE DEF seq
<1>2. core'.confirmed = core.confirmed /\ core'.defer = core.defer /\ core'.pending = core.pending
  BY <1>1, CoreFields DEF Cores
<1> QED BY <1>1, <1>2, KeepsSide DEF OnCore, Waits

LEMMA DroppedSide ==
    ASSUME Dropped, UNCHANGED goal PROVE CoreSide
BY KeepsSide DEF Dropped, OnCore, Waits

LEMMA CoprocStartSide == ASSUME TypeInv, fwup_task_handle_coproc_fwup_start PROVE CoreSide
<1> DEFINE ok == toCore[1].result = "ok"
<1> DEFINE after(c) == IF ok THEN c ELSE [c EXCEPT !.confirmed = 0, !.coproc = FALSE]
<1> DEFINE told == IF ok THEN [app EXCEPT !.step = "open"] ELSE Idle
<1> DEFINE c1 == [core EXCEPT !.kind = "none"]
<1> DEFINE c2 == [core EXCEPT !.kind = IF @ # "start_confirmed" THEN "none"
                                       ELSE IF ok THEN "cached_ok" ELSE "cached_error"]
<1>1. CASE Dropped
  BY <1>1, DroppedSide DEF fwup_task_handle_coproc_fwup_start
<1>2. CASE ~Dropped
  <2>1. core \in Cores /\ app \in Apps
    BY CoreFields
  <2>2. /\ UNCHANGED <<chip, pc, staged, reported, goal>>
        /\ \/ app.cmd.mcu = "Uxc" /\ core' = after(c1) /\ app' = told
           \/ core' = after(c2) /\ app' = app
    BY <1>2 DEF fwup_task_handle_coproc_fwup_start, Rsp
  <2>3. \A c \in {after(c1), after(c2)} :
            /\ c.awaiting_commit = core.awaiting_commit
            /\ c.confirmed \in {0, core.confirmed}
            /\ c.defer = core.defer /\ c.pending = core.pending
    BY <2>1, ZenonT(60) DEF Cores
  <2>4. app.cmd.mcu = "Uxc" => ~(told.cmd.mcu = "Core" /\ told.step \in {"open", "body", "sig"})
    BY <2>1 DEF Idle, Apps
  <2> HIDE DEF after, told, c1, c2
  <2>5. core' \in {after(c1), after(c2)}
    BY <2>2
  <2>6. OnCore' => OnCore
    BY <2>2, <2>4 DEF OnCore
  <2> QED BY <2>2, <2>3, <2>5, <2>6, KeepsSide DEF Waits
<1> QED BY <1>1, <1>2

LEMMA CoprocTransferSide == ASSUME TypeInv, fwup_task_handle_coproc_fwup_transfer PROVE CoreSide
<1>1. CASE Dropped
  BY <1>1, DroppedSide DEF fwup_task_handle_coproc_fwup_transfer
<1>2. CASE ~Dropped
  <2>1. core \in Cores /\ app \in Apps
    BY CoreFields
  <2>2. /\ UNCHANGED <<chip, pc, staged, reported, goal>>
        /\ core' \in {[core EXCEPT !.kind = "none"],
                      [core EXCEPT !.kind = "none", !.confirmed = 0, !.coproc = FALSE]}
        /\ \/ UNCHANGED app
           \/ app.cmd.mcu = "Uxc" /\ \E x : app' = [app EXCEPT !.step = x]
    BY <1>2 DEF fwup_task_handle_coproc_fwup_transfer, Told
  <2>3. /\ core'.awaiting_commit = core.awaiting_commit
        /\ core'.confirmed \in {0, core.confirmed}
        /\ core'.defer = core.defer /\ core'.pending = core.pending
    BY <2>1, <2>2 DEF Cores
  <2>4. OnCore' => OnCore
    BY <2>1, <2>2 DEF OnCore, Apps
  <2> QED BY <2>2, <2>3, <2>4, KeepsSide DEF Waits
<1> QED BY <1>1, <1>2

LEMMA FinishUiSide ==
    ASSUME TypeInv, NEW c1 \in Cores, NEW success \in BOOLEAN, fwup_coproc_finish_ui(c1, success),
           c1.confirmed = core.confirmed, c1.defer = core.defer, c1.pending = core.pending
    PROVE  /\ core'.confirmed \in {0, core.confirmed}
           /\ core'.defer = core.defer /\ core'.pending = core.pending
           /\ core'.awaiting_commit = c1.awaiting_commit
           /\ pc' \in {"loop", "reset"} /\ reported'.boot = reported.boot
<1>1. reported'.boot = reported.boot
  <2>1. reported' = reported \/ reported' = [reported EXCEPT !.info = c1.confirmed]
    BY DEF fwup_coproc_finish_ui
  <2> QED BY <2>1, CoreChip DEF Reports
<1> QED BY <1>1, FinishUiDoes

LEMMA CoprocFinishSide == ASSUME TypeInv, fwup_task_handle_coproc_fwup_finish PROVE CoreSide
<1> DEFINE c1 == [core EXCEPT !.kind = "none", !.awaiting_delta = FALSE]
<1>1. CASE Dropped
  BY <1>1, DroppedSide DEF fwup_task_handle_coproc_fwup_finish
<1>2. CASE ~Dropped
  <2>1. core \in Cores /\ app \in Apps
    BY CoreFields
  <2>2. /\ UNCHANGED <<chip, staged, goal>> /\ pc = "loop"
        /\ \/ UNCHANGED app
           \/ app.cmd.mcu = "Uxc" /\ \E x : app' = [app EXCEPT !.step = x]
        /\ \/ /\ core' = [core EXCEPT !.kind = "delta", !.awaiting_delta = TRUE]
              /\ UNCHANGED <<pc, reported>>
           \/ fwup_coproc_finish_ui(c1, toCore[1].result = "ok")
    BY <1>2 DEF fwup_task_handle_coproc_fwup_finish, Rsp, Told, Handles, Loop
  <2>3. c1 \in Cores /\ c1.awaiting_commit = core.awaiting_commit
        /\ c1.confirmed = core.confirmed /\ c1.defer = core.defer /\ c1.pending = core.pending
    BY <2>1 DEF Cores, Kinds
  <2>4. /\ core'.awaiting_commit = core.awaiting_commit
        /\ core'.confirmed \in {0, core.confirmed}
        /\ core'.defer = core.defer /\ core'.pending = core.pending
        /\ reported'.boot = reported.boot /\ pc' \in {"loop", "reset"}
    <3>1. CASE /\ core' = [core EXCEPT !.kind = "delta", !.awaiting_delta = TRUE]
               /\ UNCHANGED <<pc, reported>>
      BY <2>1, <2>2, <3>1 DEF Cores
    <3>2. CASE fwup_coproc_finish_ui(c1, toCore[1].result = "ok")
      <4>1. (toCore[1].result = "ok") \in BOOLEAN
        OBVIOUS
      <4> HIDE DEF c1
      <4> QED BY <2>3, <3>2, <4>1, FinishUiSide
    <3> QED BY <2>2, <3>1, <3>2
  <2>5. OnCore' => OnCore
    BY <2>1, <2>2 DEF OnCore, Apps
  <2> QED BY <2>2, <2>4, <2>5, KeepsSide DEF Waits
<1> QED BY <1>1, <1>2

LEMMA CommitRspSide == ASSUME TypeInv, fwup_task_handle_commit_sig_rsp PROVE CoreSide
<1> DEFINE c1 == [core EXCEPT !.awaiting_commit = FALSE, !.commit_seq = 0]
<1>1. CASE Dropped
  BY <1>1, DroppedSide DEF fwup_task_handle_commit_sig_rsp
<1>2. CASE ~Dropped
  <2>1. /\ pc = "loop" /\ core.awaiting_commit /\ UNCHANGED <<app, goal>>
        /\ toCore # << >> /\ toCore[1].type = "commit"
        /\ \/ UNCHANGED chip
           \/ /\ echo /\ toCore[1].result = "ok"
              /\ \E o \in fwup_commit_signature(chip["Core"]) : chip' = [chip EXCEPT !["Core"] = o.ch]
        /\ staged' \in {staged, NoFile}
        /\ \/ fwup_coproc_finish_ui(c1, FALSE)
           \/ core' = c1 /\ pc' = "remove_staged_both" /\ UNCHANGED reported
    BY <1>2 DEF fwup_task_handle_commit_sig_rsp, Handles, Loop, Rsp
  <2>2. c1 \in Cores /\ c1.awaiting_commit = FALSE
        /\ c1.confirmed = core.confirmed /\ c1.defer = core.defer /\ c1.pending = core.pending
    BY CoreFields DEF Cores
  <2> HIDE DEF c1
  <2>3. /\ core'.awaiting_commit = FALSE
        /\ core'.confirmed \in {0, core.confirmed}
        /\ core'.defer = core.defer /\ core'.pending = core.pending
        /\ reported'.boot = reported.boot /\ pc' # "send_commit"
    BY <2>1, <2>2, FinishUiSide
  <2>4. chip'["Core"].conf = C.conf
    BY <2>1, ChipUpdate, CoreChip, CommitKept DEF C
  <2>5. Under' => GoesOn
    BY <2>1, <2>3, <2>4 DEF Under, OnCore, GoesOn, C
  <2>6. ~Waits'
    BY <2>3 DEF Waits
  <2>7. \A s \in Slots : chip'["Core"].sig[s] # C.sig[s] => Written(s)
    BY <2>1 DEF Written, C
  <2> QED BY <2>1, <2>3, <2>5, <2>6, <2>7 DEF CoreSide, StagedNow
<1> QED BY <1>1, <1>2

LEMMA VersionSide == ASSUME TypeInv, fwup_task_handle_coproc_version PROVE CoreSide
<1> DEFINE success == core.confirmed \in {0, reported.boot}
<1> DEFINE c1 == [core EXCEPT !.awaiting_delta = FALSE, !.kind = "none"]
<1> DEFINE failed == core.awaiting_delta /\ ~success
<1> DEFINE c2 == IF ~core.awaiting_delta THEN core
                 ELSE IF failed THEN [c1 EXCEPT !.confirmed = 0] ELSE c1
<1>1. core \in Cores
  BY CoreFields
<1>2. /\ pc = "loop" /\ UNCHANGED <<app, goal, reported>>
      /\ \/ UNCHANGED chip
         \/ /\ staged # NoFile /\ staged.uxc = reported.boot
            /\ \E o \in fwup_staged_sig_commit_to_flash(chip["Core"], staged) :
                  chip' = [chip EXCEPT !["Core"] = o.ch]
      /\ staged' \in {staged, NoFile}
      /\ \/ core' = c1 /\ pc' = "reset"
         \/ core' = c2 /\ pc' = "remove_staged"
         \/ core' = ClearedByVersion(c2) /\ UNCHANGED pc
  BY DEF fwup_task_handle_coproc_version, Loop
<1>3. /\ c1 \in Cores /\ c1.confirmed = core.confirmed
      /\ c1.defer = core.defer /\ c1.pending = core.pending
  BY <1>1 DEF Cores, Kinds
<1>4. /\ c2 \in Cores /\ c2.confirmed \in {0, core.confirmed}
      /\ c2.defer = core.defer /\ c2.pending = core.pending
  <2>1. c2 \in {core, c1, [c1 EXCEPT !.confirmed = 0]}
    OBVIOUS
  <2> HIDE DEF c1, c2
  <2> QED BY <1>1, <1>3, <2>1, Constants DEF Cores
<1> HIDE DEF c1, c2
<1>5. LET c == ClearedByVersion(c2)
      IN  /\ c.confirmed = c2.confirmed /\ c.pending = c2.pending
          /\ c.defer = (c2.defer /\ c2.pending) /\ c.awaiting_commit = FALSE
  BY <1>4 DEF Cores, ClearedByVersion
<1>6. /\ core'.confirmed \in {0, core.confirmed}
      /\ core.defer /\ core.pending => core'.defer /\ core'.pending
      /\ ~Waits'
  BY <1>2, <1>3, <1>4, <1>5 DEF Waits
<1>7. CASE UNCHANGED chip
  BY <1>2, <1>6, <1>7, KeepsSide DEF OnCore
<1>8. CASE /\ staged # NoFile /\ staged.uxc = reported.boot
           /\ \E o \in fwup_staged_sig_commit_to_flash(chip["Core"], staged) :
                  chip' = [chip EXCEPT !["Core"] = o.ch]
  <2>1. PICK o \in fwup_staged_sig_commit_to_flash(chip["Core"], staged) :
                  chip' = [chip EXCEPT !["Core"] = o.ch]
    BY <1>8
  <2>2. chip'["Core"] = o.ch /\ C \in Chips
    BY <2>1, ChipUpdate, CoreChip DEF C
  <2>3. chip'["Core"].conf = C.conf
    BY <2>1, <2>2, StagedKept DEF C
  <2>4. \A s \in Slots : chip'["Core"].sig[s] # C.sig[s] /\ Valid(chip'["Core"], s) => Written(s)
    <3>1. \A s \in Slots : o.ch.sig[s] # C.sig[s] /\ Valid(o.ch, s) => o.ch.img[s] = staged.sig
      BY <2>1, <2>2, StagedKept DEF C
    <3> QED BY <1>8, <2>2, <3>1 DEF Written
  <2>5. Under' => GoesOn
    BY <1>2, <1>6, <2>3 DEF Under, OnCore, GoesOn, C
  <2> QED BY <1>2, <1>6, <2>4, <2>5 DEF CoreSide, StagedNow
<1> QED BY <1>2, <1>7, <1>8

LEMMA OtherSide ==
    ASSUME ConfirmationCleared \/ fwup_staged_sig_remove \/ UNCHANGED vars PROVE CoreSide
<1>1. /\ UNCHANGED <<chip, core, app, goal, reported>> /\ staged' \in {staged, NoFile}
      /\ pc' = pc \/ pc' \notin {"loop", "send_commit"}
  BY DEF ConfirmationCleared, fwup_staged_sig_remove, vars
<1> QED BY <1>1, KeepsSide DEF OnCore, Waits

\* The UXC writes nothing of Core.
LEMMA FrameSide == ASSUME UxcFrame PROVE CoreSide
BY KeepsSide DEF UxcFrame, OnCore, Waits

-----------------------------------------------------------------------------
\* Restarts.
UxcRestarting == UxcReset /\ UxcRestarts
CoreRestarting == (CoreReset \/ PowerCycle) /\ CoreRestarts
UxcHandles == HandledStart \/ HandledTransfer \/ HandledFinish \/ HandledCommit \/ Applied
              \/ CommittedPatched
UxcActs == UxcFrame /\ CoreSide /\ UxcHandles
CoreActs == CoreSide /\ CoreDoes

LEMMA StepSides ==
    ASSUME TypeInv, [Next]_vars PROVE CoreActs \/ UxcActs \/ UxcRestarting \/ CoreRestarting
<1>1. CASE AppStep
  <2>1. CoreDoes
    BY <1>1, AppStartDoes, ConfirmationResultDoes, TransferCmdDoes, FinishCmdDoes
       DEF AppStep, CoreDoes
  <2>2. CoreSide
    BY <1>1, AppStartSide, ConfirmationResultSide, TransferCmdSide, FinishCmdSide DEF AppStep
  <2> QED BY <2>1, <2>2 DEF CoreActs
<1>2. CASE CoreStep
  <2>1. CoreDoes
    BY <1>2, AtomicCommitDoes, CoprocStartDoes, CoprocTransferDoes, CoprocFinishDoes,
       CommitRspDoes, OtherLocal, VersionDoes DEF CoreStep, CoreDoes
  <2>2. CoreSide
    BY <1>2, AtomicCommitSide, CoprocStartSide, CoprocTransferSide, CoprocFinishSide,
       CommitRspSide, OtherSide, VersionSide DEF CoreStep
  <2> QED BY <2>1, <2>2 DEF CoreActs
<1>3. CASE UxcStep
  <2>1. UxcHandles
    BY <1>3, UxcStartDoes, UxcTransferDoes, UxcFinishDoes, UxcApplyDoes,
       UxcCommitPatchedDoes, UxcCommitDoes DEF UxcStep, UxcHandles
  <2>2. UxcFrame
    BY <2>1 DEF UxcHandles, HandledStart, HandledTransfer, HandledFinish, HandledCommit,
       Handled, Applied, CommittedPatched
  <2> QED BY <2>1, <2>2, FrameSide DEF UxcActs
<1>4. CASE ConfirmationCleared
  BY <1>4, OtherLocal, OtherSide DEF CoreDoes, CoreActs
<1>5. CASE UxcReset
  BY <1>5, ResetsDo DEF UxcRestarting
<1>6. CASE CoreReset \/ PowerCycle
  BY <1>6, ResetsDo DEF CoreRestarting
<1>7. CASE UNCHANGED vars
  <2>1. CoreDoes
    BY <1>7 DEF vars, CoreDoes, Local, LocalApp, LocalPc, SameUxc, SameCommit, SameDelta
  <2> QED BY <1>7, <2>1, OtherSide DEF CoreActs
<1> QED BY <1>1, <1>2, <1>3, <1>4, <1>5, <1>6, <1>7 DEF Next

-----------------------------------------------------------------------------
(* What the commit of Core rests on, whether or not the UXC echoes         *)
(* sequence numbers                                                        *)

\* A deferred update of Core stays one.
SessionInv ==
    Under => core.confirmed \in {0, C.conf} /\ (goal # 0 => core.defer /\ core.pending)

\* The file names the release whose signature it holds.
FileInv == staged # NoFile => staged.uxc = staged.sig

\* The UXC has not gone back behind the version it reported.
BootInv == reported.boot <= Running(U)

\* The boot loader runs a valid slot of the highest version.
LEMMA BootsHighest ==
    ASSUME NEW ch, Sound(ch), NEW s \in Slots, Valid(ch, s)
    PROVE  BootVersion(ch) >= ch.img[s] /\ BootVersion(ch) \in Int
<1>1. ch.img["A"] \in Int /\ ch.img["B"] \in Int
  BY DEF Sound, Chips, Slots, Images, Junk
<1> QED BY <1>1 DEF BootVersion, bl_select_slot, Slots

LEMMA BootFacts ==
    ASSUME NEW ch, Sound(ch)
    PROVE  /\ BootVersion(Boot(ch)) = BootVersion(ch) /\ Running(Boot(ch)) = BootVersion(ch)
           /\ BootVersion(ch) >= Running(ch) /\ Running(ch) \in Int /\ BootVersion(ch) \in Int
           /\ Boot(ch).pend = 0 /\ Boot(ch).conf = 0
<1>1. /\ Boot(ch).img = ch.img /\ Boot(ch).sig = ch.sig /\ Boot(ch).run = bl_select_slot(ch)
      /\ Boot(ch).pend = 0 /\ Boot(ch).conf = 0
  BY DEF Boot, Sound, Chips
<1>2. bl_select_slot(Boot(ch)) = bl_select_slot(ch)
  BY <1>1 DEF bl_select_slot, Valid
<1>3. ch.run \in Slots /\ Valid(ch, ch.run) /\ Running(ch) \in Int
  BY DEF Sound, Chips, Running, Slots, Images, Junk
<1>4. BootVersion(ch) >= ch.img[ch.run] /\ BootVersion(ch) \in Int
  BY <1>3, BootsHighest
<1> QED BY <1>1, <1>2, <1>3, <1>4 DEF BootVersion, Running

\* The operations of fwup.c leave the running image alone.
LEMMA RunsOn ==
    ASSUME TypeInv, UxcActs PROVE Running(chip'["Uxc"]) = Running(U) /\ UNCHANGED reported
<1>1. UNCHANGED reported /\ U \in Chips
  BY UxcChip DEF UxcActs, UxcFrame
<1>2. SameRun(U, chip'["Uxc"]) \/ chip'["Uxc"] = U
  <2>1. CASE HandledStart
    <3>1. toUxc[1].cmd \in Cmds
      BY <2>1, UxcChip, TailAt DEF HandledStart, Handled
    <3> QED BY <1>1, <2>1, <3>1, StartFacts DEF HandledStart, U
  <2>2. CASE HandledTransfer
    <3>1. toUxc[1].cmd \in Cmds /\ toUxc[1].type \in Loads
      BY <2>2, UxcChip, TailAt DEF HandledTransfer, Handled
    <3> QED BY <1>1, <2>2, <3>1, TransferFacts DEF HandledTransfer, U, Transferred
  <2>3. CASE HandledFinish
    <3>1. CASE chip'["Uxc"] = chip["Uxc"]
      BY <3>1 DEF U
    <3>2. CASE chip'["Uxc"] # chip["Uxc"]
      <4>1. PICK o \in fwup_finish(U, "normal") :
               \E w \in fwup_commit_signature(o.ch) \cup {o} : chip'["Uxc"] = w.ch
        BY <2>3, <3>2 DEF HandledFinish, U
      <4>2. PICK w \in fwup_commit_signature(o.ch) \cup {o} : chip'["Uxc"] = w.ch
        BY <4>1
      <4>3. SameRun(U, o.ch) /\ o.ch \in Chips
        BY <1>1, <4>1, FinishFacts
      <4>4. SameRun(o.ch, w.ch) \/ w.ch = o.ch
        BY <4>2, <4>3, CommitFacts
      <4> QED BY <4>2, <4>3, <4>4 DEF SameRun
    <3> QED BY <3>1, <3>2
  <2>4. CASE HandledCommit \/ CommittedPatched
    <3>1. PICK o \in fwup_commit_signature(U) : chip'["Uxc"] = o.ch
      BY <2>4 DEF HandledCommit, CommittedPatched, U
    <3> QED BY <1>1, <3>1, CommitFacts
  <2>5. CASE Applied
    <3>1. PICK o \in fwup_finish(U, "delta") : chip'["Uxc"] = o.ch
      BY <2>5 DEF Applied, U
    <3> QED BY <1>1, <3>1, ApplyFacts
  <2> QED BY <2>1, <2>2, <2>3, <2>4, <2>5 DEF UxcActs, UxcHandles
<1> QED BY <1>1, <1>2 DEF SameRun, Running

LEMMA CoreActsUxc == ASSUME CoreActs PROVE chip'["Uxc"] = chip["Uxc"] /\ uxc'.pc = uxc.pc
BY DEF CoreActs, CoreDoes, AnyRequest, Local, Request, LostRequest, Asking, CommitSent, Drops,
   TakesStart, TakesTransfer, TakesFinish, TakesCommit, Takes, TakesVersion, SameUxc

StepKinds == CoreActs \/ UxcActs \/ UxcRestarting \/ CoreRestarting

LEMMA NoLongerAlive == ASSUME TypeInv, CoreRestarts PROVE ~Under' /\ ~Waits'
<1>1. chip'["Core"].conf = 0 /\ ~core'.awaiting_commit /\ pc' = "loop"
  <2>1. Sound(chip["Core"])
    BY DEF TypeInv, ChipInv
  <2> QED BY <2>1, BootFacts DEF CoreRestarts, CoreBoot
<1> QED BY <1>1 DEF Under, Waits, C

LEMMA SessionInit == Init => SessionInv /\ FileInv /\ BootInv
<1> SUFFICES ASSUME Init PROVE SessionInv /\ FileInv /\ BootInv
  OBVIOUS
<1>1. app.step = "idle" /\ staged = NoFile
  BY DEF Init, Idle
<1>2. U.img["A"] = 1 /\ U.run = "A" /\ reported.boot = 1
  BY DEF Init, U
<1> QED BY <1>1, <1>2 DEF SessionInv, Under, OnCore, FileInv, BootInv, Running

LEMMA SessionStep ==
    ASSUME TypeInv, SessionInv, FileInv, BootInv, StepKinds
    PROVE  SessionInv' /\ FileInv' /\ BootInv'
<1>1. ASSUME CoreSide PROVE SessionInv' /\ FileInv'
  <2>1. SessionInv'
    BY <1>1 DEF CoreSide, SessionInv, GoesOn, Begins, C
  <2>2. FileInv'
    BY <1>1 DEF CoreSide, StagedNow, FileInv, SessionInv
  <2> QED BY <2>1, <2>2
<1>2. CASE CoreActs
  <2>1. reported'.boot = reported.boot /\ chip'["Uxc"] = chip["Uxc"] /\ CoreSide
    BY <1>2, CoreActsUxc DEF CoreActs, CoreSide
  <2> QED BY <1>1, <2>1 DEF BootInv, U
<1>3. CASE UxcActs
  <2>1. Running(chip'["Uxc"]) = Running(U) /\ UNCHANGED reported /\ CoreSide
    BY <1>3, RunsOn DEF UxcActs
  <2> QED BY <1>1, <2>1 DEF BootInv, U
<1>4. Sound(U) /\ reported.boot \in Int
  BY UxcChip, CoreChip DEF Reports
<1>5. CASE UxcRestarting
  <2>1. reported'.boot \in {reported.boot, Running(Boot(U))} /\ chip'["Uxc"] = Boot(U)
    BY <1>5 DEF UxcRestarting, UxcReset, UxcBoots, U, UxcRestarts, Restarted
  <2>2. BootInv'
    <3>1. Running(chip'["Uxc"]) >= reported'.boot
      BY <1>4, <2>1, BootFacts DEF BootInv
    <3> QED BY <3>1 DEF BootInv, U
  <2>3. UNCHANGED <<core, goal, staged, app>> /\ chip'["Core"] = chip["Core"]
    BY <1>5 DEF UxcRestarting, UxcRestarts
  <2> QED BY <2>2, <2>3 DEF SessionInv, FileInv, Under, OnCore, C
<1>6. CASE CoreRestarting
  <2>1. SessionInv' /\ FileInv'
    BY <1>6, NoLongerAlive DEF CoreRestarting, CoreRestarts, SessionInv, FileInv
  <2>2. reported'.boot \in {0, Running(Boot(U))} /\ chip'["Uxc"] \in {U, Boot(U)}
        /\ (chip'["Uxc"] = U => reported'.boot = 0 \/ chip'["Uxc"] = Boot(U))
    <3>1. /\ \/ reported' = Unknown \/ UxcBoots(<< >>, Unknown)
          /\ \/ chip' = [chip EXCEPT !["Core"] = Boot(@)] /\ reported' = Unknown
             \/ chip' = [m \in Mcus |-> Boot(chip[m])]
      BY <1>6 DEF CoreRestarting, CoreReset, PowerCycle
    <3>2. reported'.boot \in {0, Running(Boot(U))}
      BY <3>1 DEF UxcBoots, Unknown, U
    <3>3. \/ chip'["Uxc"] = U /\ reported'.boot = 0
          \/ chip'["Uxc"] = Boot(U)
      <4>1. CASE chip' = [chip EXCEPT !["Core"] = Boot(@)] /\ reported' = Unknown
        BY <4>1, ChipUpdate DEF U, Unknown
      <4>2. CASE chip' = [m \in Mcus |-> Boot(chip[m])]
        BY <4>2 DEF U
      <4> QED BY <3>1, <4>1, <4>2
    <3> QED BY <3>2, <3>3
  <2>3. Running(chip'["Uxc"]) >= reported'.boot
    <3>1. Running(U) >= 0 /\ Running(Boot(U)) >= 0
      BY <1>4, BootSound, BootFacts DEF Sound, Valid, Running
    <3> QED BY <1>4, <2>2, <3>1, BootFacts
  <2> QED BY <2>1, <2>3 DEF BootInv, U
<1> QED BY <1>2, <1>3, <1>5, <1>6 DEF StepKinds

-----------------------------------------------------------------------------
(* What the UXC holds while Core's update is under way                     *)

\* A commit of ch, if it succeeds at all, leaves the release g bootable.
Pinned(ch, g) ==
    \/ Running(ch) >= g
    \/ ch.pend = 0
    \/ ch.pend = g /\ TImg(ch) = g /\ TSig(ch) \in {0, g} /\ ch.patch = 0

NoLoads(q) == \A i \in 1 .. Len(q) : q[i].type \notin Loads

\* The release that was verified is still there, or nothing is left to commit.
AliveInv == goal # 0 /\ (Under \/ Waits) => Pinned(U, goal) /\ NoLoads(toUxc)

\* The answer to the commit tells the truth.
Done(r) == \E i \in 1 .. Len(r) : r[i].type = "commit" /\ r[i].result = "ok"
DoneInv ==
    goal # 0 /\ pc = "loop" /\ core.awaiting_commit /\ Done(toCore) =>
        BootVersion(U) >= goal /\ toUxc = << >> /\ uxc.pc = "loop"

LEMMA NoLoadsTail ==
    ASSUME NEW q \in Seq(Msgs), q # << >>, NoLoads(q) PROVE NoLoads(Tail(q)) /\ q[1].type \notin Loads
BY TailAt DEF NoLoads

LEMMA NoLoadsAppend ==
    ASSUME NEW q \in Seq(Msgs), NEW m \in Msgs, NoLoads(q), m.type \notin Loads
    PROVE  NoLoads(Append(q, m))
BY AppendAt DEF NoLoads

LEMMA NoLoadsRetired == ASSUME NEW q \in Seq(Msgs), NoLoads(q) PROVE NoLoads(Retired(q))
BY RetiredAt DEF NoLoads

LEMMA PinnedCommit ==
    ASSUME NEW ch \in Chips, NEW g, g # 0, Pinned(ch, g), NEW o \in fwup_commit_signature(ch)
    PROVE  Pinned(o.ch, g)
<1>1. CASE o.ch = ch
  BY <1>1
<1>2. CASE o.ch # ch
  <2>1. /\ ch.pend # 0 /\ SameRun(ch, o.ch) /\ SameRam(ch, o.ch) /\ TImg(o.ch) = TImg(ch)
        /\ TSig(o.ch) \in {Program(TSig(ch), ch.pend), 0}
    BY <1>2, CommitFacts
  <2>2. CASE Running(ch) >= g
    BY <2>1, <2>2 DEF Pinned, SameRun, Running
  <2>3. CASE ch.pend = g /\ TImg(ch) = g /\ TSig(ch) \in {0, g} /\ ch.patch = 0
    BY <2>1, <2>3 DEF Pinned, SameRam, Program
  <2> QED BY <2>1, <2>2, <2>3 DEF Pinned
<1> QED BY <1>1, <1>2

\* A commit that succeeds makes the release bootable.
LEMMA CommittedBoots ==
    ASSUME NEW ch, Sound(ch), NEW g \in Int, g # 0, Pinned(ch, g),
           NEW o \in fwup_commit_signature(ch), o.ok, Sound(o.ch)
    PROVE  BootVersion(o.ch) >= g
<1>1. ch \in Chips /\ o.ch \in Chips
  BY DEF Sound
<1>2. /\ ch.pend # 0 /\ SameRun(ch, o.ch) /\ SameRam(ch, o.ch) /\ TImg(o.ch) = TImg(ch)
      /\ TSig(o.ch) = Program(TSig(ch), ch.pend)
  BY <1>1, CommitFacts
<1>3. CASE Running(ch) >= g
  <2>1. Running(o.ch) >= g /\ BootVersion(o.ch) >= Running(o.ch)
    BY <1>2, <1>3, BootFacts DEF SameRun, Running
  <2> QED BY <2>1, BootFacts
<1>4. CASE ch.pend = g /\ TImg(ch) = g /\ TSig(ch) \in {0, g}
  <2>1. TSig(o.ch) = g /\ TImg(o.ch) = g /\ g \in 1 .. MaxVersion
    <3>1. ch.pend \in 0 .. MaxVersion
      BY <1>1, ChipNumbers
    <3> QED BY <1>2, <1>4, <3>1 DEF Program
  <2>2. fwup_target_slot(o.ch) \in Slots
    BY <1>1, TargetSlot
  <2>3. Valid(o.ch, fwup_target_slot(o.ch))
    BY <2>1 DEF Valid, TSig, TImg
  <2> QED BY <2>1, <2>2, <2>3, BootsHighest DEF TImg
<1> QED BY <1>2, <1>3, <1>4 DEF Pinned

\* What Core starts with: the UXC holds the release.
LEMMA HoldsPinned ==
    ASSUME TypeInv, LoadInv, NEW g \in 0 .. MaxVersion, g # 0, Holds(U, g)
    PROVE  Pinned(U, g) /\ NoLoads(toUxc)
<1>1. U.verified /\ TImg(U) = g /\ g # Junk
  BY DEF Holds, TImg, Junk
<1>2. Pinned(U, g)
  BY <1>1 DEF LoadInv, HeldInv, HeldOK, Pinned
<1>3. NoLoads(toUxc)
  <2>1. Loads \subseteq Parts
    BY DEF Loads, Parts
  <2> QED BY <1>1, <2>1 DEF LoadInv, QueueInv, QueueOK, NoLoads
<1> QED BY <1>2, <1>3

-----------------------------------------------------------------------------
LEMMA AliveInit == Init => AliveInv /\ DoneInv
BY DEF Init, AliveInv, DoneInv

LEMMA AliveCore ==
    ASSUME TypeInv, TypeInv', PhaseInv, LoadInv, AliveInv, CoreActs, goal' # 0, Under' \/ Waits'
    PROVE  Pinned(chip'["Uxc"], goal') /\ NoLoads(toUxc')
<1>1. chip'["Uxc"] = chip["Uxc"] /\ toUxc \in Seq(Msgs)
  BY CoreActsUxc, CoreFields
<1>2. ~AnyRequest
  <2>1. SUFFICES ASSUME AnyRequest PROVE FALSE
    OBVIOUS
  <2>2. PICK type \in ReqTypes : Asking(type)
    BY <2>1 DEF AnyRequest, Request, LostRequest
  <2>3. /\ app'.cmd.mcu = "Uxc" /\ pc' = pc /\ pc = "loop"
        /\ core'.awaiting_commit = core.awaiting_commit /\ ~core.reset_pending
    BY <2>2 DEF Asking, Asks
  <2> QED BY <2>3 DEF Under, OnCore, Waits, PhaseInv
<1>3. \/ toUxc' \in {toUxc, Retired(toUxc)}
      \/ \E m \in Msgs : m.type = "commit" /\ toUxc' = Append(toUxc, m)
  BY <1>2 DEF CoreActs, CoreDoes, Local, CommitSent, Drops, TakesStart, TakesTransfer, TakesFinish,
     TakesCommit, Takes, TakesVersion
<1>4. NoLoads(toUxc) => NoLoads(toUxc')
  BY <1>1, <1>3, NoLoadsAppend, NoLoadsRetired DEF Loads
<1>5. ~core.reset_pending /\ core.awaiting_commit => FALSE
  BY DEF PhaseInv
<1>7. CASE Begins /\ Under'
  <2>1. goal' \in 0 .. MaxVersion /\ Holds(U, goal')
    <3>1. goal' = chip'["Core"].conf /\ Holds(U, goal')
      BY <1>7 DEF Begins
    <3>2. chip'["Core"] \in Chips
      BY DEF TypeInv, ChipInv, Sound
    <3> QED BY <3>1, <3>2, ChipNumbers
  <2>2. Pinned(U, goal') /\ NoLoads(toUxc)
    BY <2>1, HoldsPinned
  <2> QED BY <1>1, <1>4, <1>7, <2>2 DEF U
<1>8. CASE goal' = goal /\ (Under \/ Waits)
  BY <1>1, <1>4, <1>8 DEF AliveInv, U
<1>9. (Begins /\ Under') \/ (goal' = goal /\ (Under \/ Waits))
  BY <1>5 DEF CoreActs, CoreSide, GoesOn
<1> QED BY <1>7, <1>8, <1>9

LEMMA AliveUxc ==
    ASSUME TypeInv, LoadInv, NEW g, g # 0, Pinned(U, g), NoLoads(toUxc), UxcActs
    PROVE  Pinned(chip'["Uxc"], g) /\ NoLoads(toUxc')
<1>1. U \in Chips /\ toUxc \in Seq(Msgs)
  BY UxcChip
<1>2. NoLoads(toUxc')
  <2>1. toUxc' = toUxc \/ (toUxc # << >> /\ toUxc' = Tail(toUxc))
    BY DEF UxcActs, UxcHandles, HandledStart, HandledTransfer, HandledFinish, HandledCommit, Handled,
       Applied, CommittedPatched
  <2> QED BY <1>1, <2>1, NoLoadsTail
<1>3. CASE HandledStart
  <2>1. toUxc[1].cmd \in Cmds
    BY <1>3, UxcChip, TailAt DEF HandledStart, Handled
  <2>2. PICK o \in fwup_start(U, toUxc[1].cmd) : chip'["Uxc"] = o.ch
    BY <1>3 DEF HandledStart, U
  <2>3. o.ch.pend = 0
    BY <1>1, <2>1, StartFacts
  <2> QED BY <1>2, <2>2, <2>3 DEF Pinned
<1>4. CASE HandledTransfer
  BY <1>1, <1>4, NoLoadsTail DEF HandledTransfer, Handled
<1>5. CASE HandledFinish
  <2>1. CASE chip'["Uxc"] = chip["Uxc"]
    BY <1>2, <2>1 DEF U
  <2>2. CASE chip'["Uxc"] # chip["Uxc"]
    <3>1. PICK o \in fwup_finish(U, "normal") :
             \E w \in fwup_commit_signature(o.ch) \cup {o} : chip'["Uxc"] = w.ch
      BY <1>5, <2>2 DEF HandledFinish, U
    <3>2. PICK w \in fwup_commit_signature(o.ch) \cup {o} : chip'["Uxc"] = w.ch
      BY <3>1
    <3>3. /\ SameRun(U, o.ch) /\ o.ch \in Chips /\ SameTarget(U, o.ch)
          /\ o.ch.pend = U.pend /\ o.ch.patch = U.patch
      BY <1>1, <3>1, FinishFacts
    <3>4. Pinned(o.ch, g)
      BY <3>3 DEF Pinned, SameRun, SameTarget, Running
    <3>5. Pinned(w.ch, g)
      BY <3>2, <3>3, <3>4, PinnedCommit
    <3> QED BY <1>2, <3>2, <3>5
  <2> QED BY <2>1, <2>2
<1>6. CASE HandledCommit \/ CommittedPatched
  <2>1. PICK o \in fwup_commit_signature(U) : chip'["Uxc"] = o.ch
    BY <1>6 DEF HandledCommit, CommittedPatched, U
  <2> QED BY <1>1, <1>2, <2>1, PinnedCommit
<1>7. CASE Applied
  <2>1. PICK o \in fwup_finish(U, "delta") : chip'["Uxc"] = o.ch
    BY <1>7 DEF Applied, U
  <2>2. U.patch # 0
    BY <1>7 DEF Applied, LoadInv, HeldInv, HeldOK
  <2>3. CASE o.ch = U
    BY <1>2, <2>1, <2>3
  <2>4. CASE o.ch # U
    <3>1. SameRun(U, o.ch) /\ o.ch.pend = U.pend
      BY <1>1, <2>1, <2>4, ApplyFacts
    <3> QED BY <1>2, <2>1, <2>2, <3>1 DEF Pinned, SameRun, Running
  <2> QED BY <2>3, <2>4
<1> QED BY <1>3, <1>4, <1>5, <1>6, <1>7 DEF UxcActs, UxcHandles

LEMMA AliveStep ==
    ASSUME TypeInv, TypeInv', PhaseInv, LoadInv, AliveInv, StepKinds PROVE AliveInv'
<1>1. CASE CoreActs
  <2>1. goal' # 0 /\ (Under' \/ Waits') => Pinned(chip'["Uxc"], goal') /\ NoLoads(toUxc')
    BY <1>1, AliveCore
  <2> QED BY <2>1 DEF AliveInv, U
<1>2. CASE UxcActs
  <2>1. goal' = goal /\ (Under' => Under) /\ (Waits' => Waits)
    BY <1>2 DEF UxcActs, UxcFrame, Under, OnCore, Waits, C
  <2>2. goal # 0 /\ (Under \/ Waits) => Pinned(chip'["Uxc"], goal) /\ NoLoads(toUxc')
    BY <1>2, AliveUxc DEF AliveInv
  <2> QED BY <2>1, <2>2 DEF AliveInv, U
<1>3. CASE UxcRestarting
  <2>1. chip'["Uxc"] = Boot(U) /\ toUxc' = << >> /\ Sound(U)
    BY <1>3, UxcChip DEF UxcRestarting, UxcRestarts, Restarted, U
  <2>2. Pinned(chip'["Uxc"], goal') /\ NoLoads(toUxc')
    BY <2>1, BootFacts, EmptyAt DEF Pinned, NoLoads
  <2> QED BY <2>2 DEF AliveInv, U
<1>4. CASE CoreRestarting
  BY <1>4, NoLongerAlive DEF CoreRestarting, AliveInv
<1> QED BY <1>1, <1>2, <1>3, <1>4 DEF StepKinds

-----------------------------------------------------------------------------
(* The answer to the commit *)

LEMMA DoneTail == ASSUME NEW r \in Seq(Msgs), r # << >>, Done(Tail(r)) PROVE Done(r)
BY TailAt DEF Done

LEMMA DoneRetired == ASSUME NEW r \in Seq(Msgs), Done(Retired(r)) PROVE Done(r)
BY RetiredAt DEF Done

LEMMA DoneAppend ==
    ASSUME NEW r \in Seq(Msgs), NEW m \in Msgs, Done(Append(r, m)),
           ~(m.type = "commit" /\ m.result = "ok")
    PROVE  Done(r)
<1>1. PICK i \in 1 .. Len(Append(r, m)) :
         Append(r, m)[i].type = "commit" /\ Append(r, m)[i].result = "ok"
  BY DEF Done
<1>2. i \in 1 .. Len(r) \/ i = Len(r) + 1
  BY AppendAt
<1>3. i \in 1 .. Len(r) /\ Append(r, m)[i] = r[i]
  BY <1>1, <1>2, AppendAt
<1> QED BY <1>1, <1>3 DEF Done

LEMMA DoneCore ==
    ASSUME TypeInv, PhaseInv, CommitInv, DoneInv, CoreActs PROVE DoneInv'
<1>1. SUFFICES ASSUME goal' # 0, pc' = "loop", core'.awaiting_commit, Done(toCore')
               PROVE  BootVersion(chip'["Uxc"]) >= goal' /\ toUxc' = << >> /\ uxc'.pc = "loop"
  BY DEF DoneInv, U
<1>2. chip'["Uxc"] = chip["Uxc"] /\ uxc'.pc = uxc.pc /\ toCore \in Seq(Msgs)
  BY CoreActsUxc, CoreFields
<1>3. goal' = goal /\ Waits
  <2>1. Waits' /\ ~(~core.reset_pending /\ core.awaiting_commit) /\ pc' # "send_commit"
    BY <1>1 DEF Waits, PhaseInv
  <2> QED BY <2>1 DEF CoreActs, CoreSide
<1>4. CASE pc = "send_commit"
  <2>1. NoCommit(toCore)
    BY <1>4 DEF CommitInv
  <2>2. UNCHANGED toCore
    BY <1>1, <1>4 DEF CoreActs, CoreDoes, AnyRequest, Local, Request, LostRequest, Asking, CommitSent,
       Drops, TakesStart, TakesTransfer, TakesFinish, TakesCommit, Takes, TakesVersion
  <2> QED BY <1>1, <2>1, <2>2 DEF Done, NoCommit
<1>5. CASE pc = "loop" /\ core.awaiting_commit
  <2>1. ~AnyRequest /\ ~CommitSent
    <3>1. core.reset_pending
      BY <1>5 DEF PhaseInv
    <3> QED BY <1>5, <3>1 DEF AnyRequest, Request, LostRequest, Asking, CommitSent
  <2>2. /\ toUxc' \in {toUxc, Retired(toUxc)}
        /\ \/ toCore' = toCore
           \/ toCore # << >> /\ toCore' \in {Tail(toCore), Retired(Tail(toCore))}
    BY <2>1 DEF CoreActs, CoreDoes, Local, Drops, TakesStart, TakesTransfer, TakesFinish,
       TakesCommit, Takes, TakesVersion
  <2>3. Done(toCore)
    <3>1. toCore # << >> => Tail(toCore) \in Seq(Msgs)
      BY <1>2, TailAt
    <3> QED BY <1>1, <1>2, <2>2, <3>1, DoneTail, DoneRetired
  <2>4. BootVersion(U) >= goal /\ toUxc = << >> /\ uxc.pc = "loop"
    BY <1>1, <1>3, <1>5, <2>3 DEF DoneInv
  <2>5. Retired(<< >>) = << >>
    <3>1. Retired(<< >>) \in Seq(Msgs) /\ Len(Retired(<< >>)) = 0
      BY EmptyAt, RetiredAt
    <3> QED BY <3>1
  <2> QED BY <1>2, <1>3, <2>2, <2>4, <2>5 DEF U
<1> QED BY <1>3, <1>4, <1>5 DEF Waits

\* Nothing is left for the UXC to do once its answer is on the way.
LEMMA DoneUxc ==
    ASSUME TypeInv, TypeInv', CommitInv, AliveInv, DoneInv, UxcActs PROVE DoneInv'
<1>1. SUFFICES ASSUME goal' # 0, pc' = "loop", core'.awaiting_commit, Done(toCore')
               PROVE  BootVersion(chip'["Uxc"]) >= goal' /\ toUxc' = << >> /\ uxc'.pc = "loop"
  BY DEF DoneInv, U
<1>2. goal' = goal /\ pc' = pc /\ core' = core /\ toCore \in Seq(Msgs) /\ toUxc \in Seq(Msgs)
  BY CoreFields DEF UxcActs, UxcFrame
<1>3. ~Done(toCore)
  <2>1. SUFFICES ASSUME Done(toCore) PROVE FALSE
    OBVIOUS
  <2>2. toUxc = << >> /\ uxc.pc = "loop"
    BY <1>1, <1>2, <2>1 DEF DoneInv
  <2> QED BY <2>2 DEF UxcActs, UxcHandles, HandledStart, HandledTransfer, HandledFinish, HandledCommit,
     Handled, Applied, CommittedPatched
<1>4. CASE HandledStart \/ HandledTransfer \/ HandledFinish \/ Applied \/ CommittedPatched
  <2>1. \/ toCore' = toCore
        \/ \E m \in Msgs : m.type # "commit" /\ toCore' = Append(toCore, m)
    BY <1>4 DEF HandledStart, HandledTransfer, HandledFinish, Handled, Applied, CommittedPatched, Loads
  <2> QED BY <1>1, <1>2, <1>3, <2>1, DoneAppend, ZenonT(60)
<1>5. CASE HandledCommit
  <2>1. /\ toUxc # << >> /\ toUxc[1].type = "commit" /\ toUxc' = Tail(toUxc)
        /\ UNCHANGED uxc /\ uxc.pc = "loop"
    BY <1>5 DEF HandledCommit, Handled
  <2>2. PICK o \in fwup_commit_signature(U) :
          /\ chip'["Uxc"] = o.ch
          /\ \A i \in 1 .. Len(toCore') :
                toCore'[i].result = "ok" =>
                   o.ok \/ (i \in 1 .. Len(toCore) /\ toCore'[i] = toCore[i])
    BY <1>5 DEF HandledCommit, U
  <2>3. o.ok
    BY <1>1, <1>3, <2>2 DEF Done
  <2>4. Sound(U) /\ Sound(o.ch) /\ goal \in Int
    <3>1. Sound(U)
      BY UxcChip
    <3>2. Sound(o.ch)
      BY <2>2 DEF TypeInv, ChipInv
    <3>3. goal \in Int
      BY DEF TypeInv, GoalType, Images
    <3> QED BY <3>1, <3>2, <3>3
  <2>5. Pinned(U, goal)
    BY <1>1, <1>2 DEF AliveInv, Waits
  <2>6. BootVersion(o.ch) >= goal
    BY <1>1, <1>2, <2>2, <2>3, <2>4, <2>5, CommittedBoots
  <2>7. toUxc' = << >>
    <3>1. 1 \in 1 .. Len(toUxc)
      BY <1>2, <2>1, TailAt
    <3>2. Len(toUxc) = 1
      BY <1>1, <1>2, <2>1, <3>1 DEF CommitInv, OneCommit
    <3>3. Tail(toUxc) \in Seq(Msgs) /\ Len(Tail(toUxc)) = 0
      BY <1>2, <2>1, <3>2, TailAt
    <3> QED BY <2>1, <3>3
  <2> QED BY <1>2, <2>1, <2>2, <2>6, <2>7
<1> QED BY <1>4, <1>5 DEF UxcActs, UxcHandles

LEMMA DoneStep ==
    ASSUME TypeInv, TypeInv', PhaseInv, CommitInv, AliveInv, DoneInv, StepKinds PROVE DoneInv'
<1>1. CASE CoreActs
  BY <1>1, DoneCore
<1>2. CASE UxcActs
  BY <1>2, DoneUxc
<1>3. CASE UxcRestarting
  <2>1. /\ chip'["Uxc"] = Boot(U) /\ toUxc' = << >> /\ uxc'.pc = "loop"
        /\ UNCHANGED <<goal, pc, core>> /\ Sound(U) /\ toCore \in Seq(Msgs)
    BY <1>3, UxcChip DEF UxcRestarting, UxcRestarts, Restarted, U, UxcBoot
  <2>2. PICK m \in Msgs : m.type = "version" /\ toCore' \in {toCore, Append(toCore, m)}
    BY <1>3 DEF UxcRestarting, UxcRestarts, Restarted
  <2>3. Done(toCore') => Done(toCore)
    BY <2>1, <2>2, DoneAppend
  <2>4. BootVersion(chip'["Uxc"]) = BootVersion(U)
    BY <2>1, BootFacts
  <2> QED BY <2>1, <2>3, <2>4 DEF DoneInv, U
<1>4. CASE CoreRestarting
  BY <1>4 DEF CoreRestarting, CoreRestarts, CoreBoot, DoneInv
<1> QED BY <1>1, <1>2, <1>3, <1>4 DEF StepKinds

-----------------------------------------------------------------------------
\* What the answers of a UXC that echoes the sequence number rest on.
EchoInv == LinkInv /\ PhaseInv /\ LoadInv /\ CommitInv /\ AliveInv /\ DoneInv

\* The inductive invariant.
AtomicInv == TypeInv /\ SessionInv /\ FileInv /\ BootInv /\ (echo => EchoInv)

LEMMA AtomicInit == Init => AtomicInv
BY InitType, SessionInit, LinkInit, PhaseInit, LoadInit, CommitInit, AliveInit DEF AtomicInv, EchoInv

LEMMA KindsDo == ASSUME StepKinds PROVE CoreDoes \/ UxcDoes \/ CoreRestarts
BY DEF StepKinds, CoreActs, UxcActs, UxcHandles, UxcDoes, UxcRestarting, CoreRestarting

LEMMA EchoStays ==
    ASSUME CoreDoes \/ UxcDoes \/ CoreRestarts PROVE echo' = echo
<1>1. CASE CoreDoes
  BY <1>1 DEF CoreDoes, AnyRequest, Local, Request, LostRequest, Asking, CommitSent, Drops,
     TakesStart, TakesTransfer, TakesFinish, TakesCommit, Takes, TakesVersion, SameUxc
<1>2. CASE UxcDoes
  BY <1>2 DEF UxcDoes, HandledStart, HandledTransfer, HandledFinish, HandledCommit, Handled,
     Applied, CommittedPatched, UxcRestarts, UxcFrame
<1> QED BY <1>1, <1>2 DEF CoreRestarts

LEMMA AtomicStep == AtomicInv /\ [Next]_vars => AtomicInv'
<1> SUFFICES ASSUME AtomicInv, [Next]_vars PROVE AtomicInv'
  OBVIOUS
<1>1. TypeInv /\ TypeInv' /\ SessionInv /\ FileInv /\ BootInv
  BY NextType DEF AtomicInv
<1>2. StepKinds
  BY <1>1, StepSides DEF StepKinds
<1>3. CoreDoes \/ UxcDoes \/ CoreRestarts
  BY <1>2, KindsDo
<1>4. SessionInv' /\ FileInv' /\ BootInv'
  BY <1>1, <1>2, SessionStep
<1>5. echo' = echo
  BY <1>3, EchoStays
<1>6. ASSUME echo PROVE EchoInv'
  <2>1. LinkInv /\ PhaseInv /\ LoadInv /\ CommitInv /\ AliveInv /\ DoneInv
    BY <1>6 DEF AtomicInv, EchoInv
  <2>2. LinkInv' /\ PhaseInv'
    BY <1>1, <1>3, <1>6, <2>1, LinkStep, PhaseStep
  <2>3. LoadInv' /\ CommitInv'
    BY <1>1, <1>3, <1>6, <2>1, LoadStep, CommitStep
  <2>4. AliveInv' /\ DoneInv'
    BY <1>1, <1>2, <2>1, AliveStep, DoneStep
  <2> QED BY <2>2, <2>3, <2>4 DEF EchoInv
<1> QED BY <1>1, <1>4, <1>5, <1>6 DEF AtomicInv

\* One step of CoreCommitsAfterUxc.
CommitsAfter ==
    \A s \in Slots :
        /\ goal # 0 /\ chip'["Core"].img[s] = goal
        /\ chip'["Core"].sig[s] # chip["Core"].sig[s] /\ Valid(chip'["Core"], s)
        => BootVersion(chip["Uxc"]) >= goal

LEMMA AtomicCommits == AtomicInv /\ [Next]_vars => [CommitsAfter]_vars
<1> SUFFICES ASSUME AtomicInv, [Next]_vars, NEW s \in Slots,
                    goal # 0, chip'["Core"].img[s] = goal,
                    chip'["Core"].sig[s] # chip["Core"].sig[s], Valid(chip'["Core"], s)
             PROVE  BootVersion(chip["Uxc"]) >= goal
  BY DEF CommitsAfter
<1>1. TypeInv /\ SessionInv /\ FileInv /\ BootInv /\ (echo => EchoInv)
  BY DEF AtomicInv
<1>2. StepKinds
  BY <1>1, StepSides DEF StepKinds
<1>3. Written(s)
  <2>1. CASE CoreActs \/ UxcActs
    BY <2>1 DEF CoreActs, UxcActs, CoreSide, C
  <2>2. CASE UxcRestarting
    BY <2>2 DEF UxcRestarting, UxcRestarts
  <2>3. CASE CoreRestarting
    <3>1. chip'["Core"].sig = chip["Core"].sig
      BY <1>1, <2>3, CoreChip DEF CoreRestarting, CoreRestarts, Boot, Chips
    <3> QED BY <3>1
  <2> QED BY <1>2, <2>1, <2>2, <2>3 DEF StepKinds
<1>4. CASE Under /\ ~core.defer
  BY <1>1, <1>4 DEF SessionInv
<1>5. CASE /\ echo /\ pc = "loop" /\ core.awaiting_commit /\ toCore # << >>
           /\ toCore[1].type = "commit" /\ toCore[1].result = "ok"
  <2>1. 1 \in 1 .. Len(toCore)
    BY <1>1, <1>5, CoreFields, TailAt
  <2>2. Done(toCore)
    BY <1>5, <2>1 DEF Done
  <2> QED BY <1>1, <1>5, <2>2 DEF EchoInv, DoneInv, U
<1>6. CASE staged # NoFile /\ staged.uxc = reported.boot /\ chip'["Core"].img[s] = staged.sig
  <2>1. goal <= Running(U) /\ goal \in Int
    BY <1>1, <1>6 DEF FileInv, BootInv, TypeInv, GoalType, Images
  <2>2. Running(U) <= BootVersion(U) /\ Running(U) \in Int /\ BootVersion(U) \in Int
    BY <1>1, UxcChip, BootFacts
  <2> QED BY <2>1, <2>2 DEF U
<1> QED BY <1>3, <1>4, <1>5, <1>6 DEF Written

\* CoreCommitsAfterUxc: an update of Core that was begun, with a deferred commit,
\* while the UXC held the verified image of the same release becomes bootable on
\* Core only when that release is bootable on the UXC, whichever of the three
\* places of fwup_task.c writes Core's signature, whatever was lost or failed, and
\* wherever either MCU restarted.
THEOREM CoreFollowsUxc == Spec => CoreCommitsAfterUxc
<1>1. Init => AtomicInv
  BY AtomicInit
<1>2. AtomicInv /\ [Next]_vars => AtomicInv'
  BY AtomicStep
<1>3. AtomicInv /\ [Next]_vars => [CommitsAfter]_vars
  BY AtomicCommits
<1> QED BY <1>1, <1>2, <1>3, PTL DEF Spec, CoreCommitsAfterUxc, CommitsAfter
=============================================================================
