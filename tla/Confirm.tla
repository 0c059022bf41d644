------------------------------ MODULE Confirm ------------------------------
(***************************************************************************)
(* The confirmation manager (lib/confirmation) and the three tasks that    *)
(* share it on the W3: the key manager asks for a confirmation and signs   *)
(* once it is approved, sysinfo asks for one to wipe and gives the app the *)
(* results, and the UI approves, cancels, refreshes or expires whatever is *)
(* pending.  There is one pending confirmation and one signing session,    *)
(* which the tasks check and use in separate steps.                        *)
(*                                                                         *)
(* What is confirmed (a transaction, an action, a wipe) is the number of   *)
(* the request; a hash of it is the number itself.  The handles a          *)
(* confirmation is given are its number, since they are drawn anew.        *)
(***************************************************************************)
EXTENDS Integers, Sequences, FiniteSets

CONSTANTS
    Kinds,          \* requests the key manager gets: "sign", "stream", "sap"
    MaxRequests,    \* bound on the confirmations asked for
    MaxRefreshes,   \* bound on the pages the user turns: each restarts the timeout
    MaxCorruptions  \* bound on the times the payload in flash decays

ASSUME ConstantsAssumption ==
    /\ Kinds \subseteq {"sign", "stream", "sap"}
    /\ MaxRequests \in Nat \ {0} /\ {MaxRefreshes, MaxCorruptions} \subseteq Nat

VARIABLES
    pend,      \* pending_confirmation
    session,   \* session_union
    km,        \* key manager: where it is, the request it handles
    deferred,  \* IPC_KEY_MANAGER_SIGN_DEFERRED messages in its queue
    sys,       \* sysinfo: where it is, the result request it handles
    ui,        \* UI: the flow on the screen, what it shows, where it is
    events,    \* flows queued to the UI
    reqs,      \* requests so far
    faults,    \* refreshes and corruptions so far, and those after the comparison
    asked,     \* history: the confirmation whose result the app was last told is pending
    approved,  \* history: the confirmations that were pending when they were approved
    rejected,  \* history: what was rejected on its screen
    returned   \* history: what the app got signatures of, or was wiped by

vars == <<pend, session, km, deferred, sys, ui, events, reqs, faults, asked,
          approved, rejected, returned>>

Requests == 1 .. MaxRequests
Blank == 0                       \* a session that was zeroed
Decayed == MaxRequests + 1       \* a payload that is not the one that was sent
Contents == 0 .. Decayed
None == -1                       \* no signature
Types == {"sign", "sap", "wipe"}

NoPending == [type |-> "none", id |-> 0, approved |-> FALSE, old |-> FALSE]
NoSession == [kind |-> "none", state |-> "idle", tx |-> Blank, flash |-> Blank,
              sigs |-> None, failed |-> FALSE]
Free == [pc |-> "idle", kind |-> "none"]
Waiting == [pc |-> "idle", type |-> "none", id |-> 0, seen |-> 0, late |-> FALSE]
NoFlow == [pc |-> "idle", flow |-> "none", id |-> 0, handoff |-> FALSE]

TypeOK ==
    /\ \/ pend = NoPending
       \/ pend \in [type : Types, id : Requests, approved : BOOLEAN, old : BOOLEAN]
    /\ session \in [kind : {"none"} \cup Kinds, state : {"idle", "receiving", "finalized", "confirmed"},
                    tx : Contents, flash : Contents, sigs : {None} \cup Contents, failed : BOOLEAN]
    /\ km \in [pc : {"idle", "begin", "create", "approved", "compare", "sign", "clear", "reset"},
               kind : {"none"} \cup Kinds]
    /\ deferred \in Nat
    /\ sys.pc \in {"idle", "validate", "result", "compare", "collect", "clear", "reset"}
    /\ sys.type \in {"none"} \cup Types
    /\ sys.id \in 0 .. MaxRequests /\ sys.seen \in Contents /\ sys.late \in BOOLEAN
    /\ ui \in [pc : {"idle", "approve", "clear"}, flow : {"none", "sign", "privileged"},
               id : 0 .. MaxRequests, handoff : BOOLEAN]
    /\ events \in Seq([flow : {"sign", "privileged"}, id : Requests])
    /\ reqs \in 0 .. MaxRequests
    /\ faults \in [refresh : 0 .. MaxRefreshes, corrupt : 0 .. MaxCorruptions,
                   late : 0 .. MaxCorruptions]
    /\ asked \in 0 .. MaxRequests
    /\ approved \subseteq Requests /\ rejected \subseteq Requests /\ returned \subseteq Contents

Init ==
    /\ pend = NoPending /\ session = NoSession
    /\ km = Free /\ deferred = 0 /\ sys = Waiting /\ ui = NoFlow /\ events = <<>>
    /\ reqs = 0 /\ faults = [refresh |-> 0, corrupt |-> 0, late |-> 0]
    /\ asked = 0
    /\ approved = {} /\ rejected = {} /\ returned = {}

history == <<asked, approved, rejected, returned>>

-----------------------------------------------------------------------------
(* The confirmation manager; each call is made under its mutex *)

\* Mutant: the approval outlives the confirmation.
KeepsApproval == [NoPending EXCEPT !.approved = pend.approved]

reset_pending_confirmation == NoPending

confirmation_manager_clear == pend' = reset_pending_confirmation

\* A pending confirmation is replaced.  Without random numbers there is none.
confirmation_manager_create(type, id) ==
    pend' = [type |-> type, id |-> id, approved |-> FALSE, old |-> FALSE]

\* Mutant: what is approved does not time out.
ValidateApproved(id) ==
    CASE pend.type = "none" -> "invalid"
      [] pend.type # "none" /\ pend.old /\ ~pend.approved -> "timeout"
      [] pend.type # "none" /\ ~(pend.old /\ ~pend.approved) /\ pend.id # id -> "invalid"
      [] OTHER -> IF pend.approved THEN "success" ELSE "not_approved"

confirmation_manager_validate(id) ==
    CASE pend.type = "none" -> "invalid"
      [] pend.type # "none" /\ pend.old -> "timeout"
      [] pend.type # "none" /\ ~pend.old /\ pend.id # id -> "invalid"
      [] OTHER -> IF pend.approved THEN "success" ELSE "not_approved"

confirmation_manager_get_type == pend.type
confirmation_manager_is_pending == pend.type # "none"
confirmation_manager_is_approved == pend.approved
confirmation_manager_is_expired == pend.type # "none" /\ ~pend.approved /\ pend.old

\* confirmation_manager_get_operation_data, and the session compared with it.
Committed(id, content) == pend.type = "sign" /\ content = id

-----------------------------------------------------------------------------
(* The key manager *)

AtKm(pc) == km.pc = pc
GotoKm(pc) == km' = [km EXCEPT !.pc = pc]
others == <<sys, ui, reqs, faults, history>>

\* What a session would sign: a streamed one is read back from flash.
Content == IF session.kind = "stream" /\ session.flash # session.tx THEN session.flash
           ELSE session.tx

\* A new request tears down whatever there was, the confirmation first.
Request(kind) ==
    /\ AtKm("idle")
    /\ kind \in Kinds
    /\ confirmation_manager_clear
    /\ km' = [pc |-> "begin", kind |-> kind]
    /\ UNCHANGED <<session, deferred, events, others>>

\* The request is invalid, or fills the session; a streamed one ends there.
Begin ==
    /\ AtKm("begin")
    /\ \/ session' = NoSession /\ km' = Free /\ UNCHANGED reqs
       \/ /\ reqs < MaxRequests
          /\ reqs' = reqs + 1
          /\ session' = [NoSession EXCEPT !.kind = km.kind, !.tx = reqs + 1,
                                          !.state = IF km.kind = "stream" THEN "receiving" ELSE "idle"]
          /\ IF km.kind = "stream" THEN km' = Free ELSE GotoKm("create")
    /\ UNCHANGED <<pend, deferred, events, sys, ui, faults, history>>

\* The state of a stream shares its byte with the flag of a transaction and
\* the version of an action: both read as receiving.
Receiving == session.state = "receiving" \/ session.kind \in {"sign", "sap"}

\* The last chunk of the payload is stored; anything unexpected ends the session,
\* and so does a chunk that belongs to no stream.
key_manager_task_handle_sign_stream_transfer ==
    /\ AtKm("idle") /\ Receiving
    /\ \/ session.kind = "stream" /\ session.flash = Blank
          /\ session' = [session EXCEPT !.flash = session.tx]
       \/ session' = NoSession
    /\ UNCHANGED <<pend, km, deferred, events, others>>

key_manager_task_handle_sign_stream_finalize ==
    /\ AtKm("idle") /\ Receiving
    /\ \/ /\ session.kind = "stream" /\ session.flash # Blank
          /\ session' = [session EXCEPT !.state = "finalized"]
          /\ km' = [pc |-> "create", kind |-> "stream"]
       \/ session' = NoSession /\ UNCHANGED km
    /\ UNCHANGED <<pend, deferred, events, others>>

TypeOf(kind) == IF kind = "sap" THEN "sap" ELSE "sign"
FlowOf(type) == IF type = "sign" THEN "sign" ELSE "privileged"

\* Mutant: the request is confirmed and not shown.
RequestUnseen ==
    /\ AtKm("create")
    /\ \/ /\ session.tx # Blank
          /\ confirmation_manager_create(TypeOf(km.kind), session.tx)
          /\ UNCHANGED session
       \/ session' = NoSession /\ pend' \in {pend, NoPending}
    /\ km' = Free
    /\ UNCHANGED <<deferred, events, others>>

\* The request is confirmed by what the session holds now, and shown.  It may
\* turn out not to be signable: no confirmation is asked for then.
RequestConfirmation ==
    /\ AtKm("create")
    /\ \/ /\ session.tx # Blank
          /\ confirmation_manager_create(TypeOf(km.kind), session.tx)
          /\ events' = Append(events, [flow |-> FlowOf(TypeOf(km.kind)), id |-> session.tx])
          /\ UNCHANGED session
       \/ session' = NoSession /\ UNCHANGED events /\ pend' \in {pend, NoPending}
    /\ km' = Free
    /\ UNCHANGED <<deferred, others>>

\* SIGN_DEFERRED: key_manager_task_try_deferred_sign, _stream_sign, _sap_sign, of
\* which at most one finds its session and the type of its confirmation.
Deferred ==
    /\ AtKm("idle") /\ deferred > 0
    /\ deferred' = deferred - 1
    /\ LET signable == \/ session.kind \in {"sign", "sap"} /\ session.sigs = None
                       \/ session.kind = "stream" /\ session.state = "finalized"
       IN  km' = IF signable /\ confirmation_manager_get_type = TypeOf(session.kind)
                 THEN [pc |-> "approved", kind |-> session.kind] ELSE Free
    /\ UNCHANGED <<pend, session, events, others>>

IfApproved ==
    /\ AtKm("approved")
    /\ km' = CASE ~confirmation_manager_is_approved -> Free
               [] confirmation_manager_is_approved /\ km.kind = "sap" -> [km EXCEPT !.pc = "sign"]
               [] OTHER -> [km EXCEPT !.pc = "compare"]
    /\ UNCHANGED <<pend, session, deferred, events, others>>

\* Mutant: the payload is not read back from flash.
CompareUnread ==
    /\ AtKm("compare")
    /\ IF Committed(pend.id, session.tx) THEN GotoKm("sign") /\ UNCHANGED session
       ELSE IF km.kind = "stream" THEN GotoKm("clear") /\ UNCHANGED session
       ELSE km' = Free /\ session' = [session EXCEPT !.failed = TRUE]
    /\ UNCHANGED <<pend, deferred, events, others>>

\* The session, its payload read back, must be what was confirmed.
CompareDeferred ==
    /\ AtKm("compare")
    /\ IF Committed(pend.id, Content) THEN GotoKm("sign") /\ UNCHANGED session
       ELSE IF km.kind = "stream" THEN GotoKm("clear") /\ UNCHANGED session
       ELSE km' = Free /\ session' = [session EXCEPT !.failed = TRUE]
    /\ UNCHANGED <<pend, deferred, events, others>>

\* sign_raw_tx_with_hw_key, stream_precompute_signatures, sap_sign.  A stream is
\* confirmed even if its signatures could not be computed ahead.  A session that
\* was zeroed has no input to sign, and no action.
Sign ==
    /\ AtKm("sign")
    /\ \E signed \in {Content, None} :
         /\ session.tx = Blank => signed = None
         /\ session' = [session EXCEPT
                !.sigs = signed,
                !.failed = (signed = None /\ (session.tx # Blank \/ km.kind = "sap")),
                !.kind = IF km.kind = "stream" THEN "stream" ELSE @,
                !.state = IF km.kind = "stream" THEN "confirmed" ELSE @]
    /\ km' = Free
    /\ UNCHANGED <<pend, deferred, events, others>>

ClearStream ==
    /\ AtKm("clear")
    /\ confirmation_manager_clear
    /\ GotoKm("reset")
    /\ UNCHANGED <<session, deferred, events, others>>

ResetStream ==
    /\ AtKm("reset")
    /\ session' = NoSession
    /\ km' = Free
    /\ UNCHANGED <<pend, deferred, events, others>>

\* A signature of a stream, or a batch of them: from the file, or, if that misses
\* it, of what the flash holds now, which is not compared again.  After the last
\* one the session ends.
key_manager_task_handle_get_tx_signature ==
    /\ AtKm("idle")
    /\ session.kind = "stream" /\ session.state = "confirmed" /\ session.tx # Blank
    /\ \E signed \in {session.sigs, Content} \ {None} : returned' = returned \cup {signed}
    /\ session' \in {session, NoSession}
    /\ UNCHANGED <<pend, km, deferred, sys, ui, events, reqs, faults, asked, approved, rejected>>

-----------------------------------------------------------------------------
(* sysinfo *)

AtSys(pc) == sys.pc = pc
GotoSys(pc) == sys' = [sys EXCEPT !.pc = pc] /\ UNCHANGED asked
Answered(id) == asked' = IF asked = id THEN 0 ELSE asked
Answer(status) ==
    /\ sys' = Waiting
    /\ IF status = "pending" THEN asked' = sys.id ELSE Answered(sys.id)
notSys == <<km, deferred, ui, events, reqs, faults, approved, rejected>>

\* Only asked of a device that is set up; the reply carries the handles.
sysinfo_task_port_handle_wipe_state ==
    /\ AtSys("idle")
    /\ reqs < MaxRequests
    /\ reqs' = reqs + 1
    /\ confirmation_manager_create("wipe", reqs + 1)
    /\ events' = Append(events, [flow |-> "privileged", id |-> reqs + 1])
    /\ UNCHANGED <<session, km, deferred, sys, ui, faults, history>>

\* The app asks for the result of a confirmation; which handler answers is up
\* to the type of the one that is pending now.
confirmation_manager_dispatch_result(id) ==
    /\ AtSys("idle")
    /\ id <= reqs
    /\ IF confirmation_manager_is_pending
       THEN /\ sys' = [pc |-> "validate", type |-> confirmation_manager_get_type, id |-> id,
                       seen |-> 0, late |-> id \in rejected]
            /\ UNCHANGED asked
       ELSE Answered(id) /\ UNCHANGED sys
    /\ UNCHANGED <<pend, session, returned, notSys>>

\* The handler validates the handles; a timeout drops the confirmation.
Validate ==
    /\ AtSys("validate")
    /\ LET result == confirmation_manager_validate(sys.id)
       IN  /\ pend' = IF result = "timeout" THEN reset_pending_confirmation ELSE pend
           /\ CASE result = "success" ->
                     sys' = [sys EXCEPT !.pc = "result", !.seen = pend.id] /\ UNCHANGED asked
                [] result = "not_approved" -> Answer("pending")
                [] OTHER -> IF sys.type = "sap" THEN GotoSys("clear") ELSE Answer("done")
    /\ UNCHANGED <<session, returned, notSys>>

\* wipe_state_confirmation_result_handler: the device is wiped and restarts.
Wipe ==
    /\ AtSys("result") /\ sys.type = "wipe"
    /\ pend' = NoPending /\ session' = NoSession
    /\ km' = Free /\ deferred' = 0 /\ ui' = NoFlow /\ events' = <<>>
    /\ Answer("done")
    /\ returned' = returned \cup {sys.seen}
    /\ UNCHANGED <<reqs, faults, approved, rejected>>

\* sap_confirmation_result_handler: the signature, the failure, or not yet.
SapResult ==
    /\ AtSys("result") /\ sys.type = "sap"
    /\ \/ /\ session.sigs # None
          /\ returned' = returned \cup {session.sigs}
          /\ GotoSys("clear")
       \/ session.sigs = None /\ session.failed /\ GotoSys("clear") /\ UNCHANGED returned
       \/ session.sigs = None /\ ~session.failed /\ Answer("pending") /\ UNCHANGED returned
    /\ UNCHANGED <<pend, session, notSys>>

\* sign_transaction_confirmation_result_handler: a stream may not be signed yet;
\* otherwise what was confirmed is read back.
SignResult ==
    /\ AtSys("result") /\ sys.type = "sign"
    /\ CASE session.state = "finalized" -> Answer("pending")
         [] session.state # "finalized" /\ confirmation_manager_get_type # "sign" -> GotoSys("clear")
         [] OTHER -> sys' = [sys EXCEPT !.pc = "compare", !.seen = pend.id] /\ UNCHANGED asked
    /\ UNCHANGED <<pend, session, returned, notSys>>

\* The session is compared with it once more.
CompareResult ==
    /\ AtSys("compare")
    /\ CASE sys.seen # Content -> GotoSys("clear")
         [] sys.seen = Content /\ session.state = "confirmed" -> Answer("done")
         [] OTHER -> GotoSys("collect")
    /\ UNCHANGED <<pend, session, returned, notSys>>

\* The signatures of a transaction, the failure, or not yet.
Collect ==
    /\ AtSys("collect")
    /\ \/ /\ session.sigs # None
          /\ returned' = returned \cup {session.sigs}
          /\ GotoSys("clear")
       \/ session.sigs = None /\ session.failed /\ GotoSys("clear") /\ UNCHANGED returned
       \/ session.sigs = None /\ ~session.failed /\ Answer("pending") /\ UNCHANGED returned
    /\ UNCHANGED <<pend, session, notSys>>

ClearResult ==
    /\ AtSys("clear")
    /\ confirmation_manager_clear
    /\ GotoSys("reset")
    /\ UNCHANGED <<session, returned, notSys>>

ResetResult ==
    /\ AtSys("reset")
    /\ session' = NoSession
    /\ Answer("done")
    /\ UNCHANGED <<pend, returned, notSys>>

-----------------------------------------------------------------------------
(* The UI *)

AtUi(pc) == ui.pc = pc
notUi == <<session, km, sys, reqs, asked, returned>>

\* A request is shown in place of whatever was on the screen.
display_controller_handle_ui_event ==
    /\ AtUi("idle") /\ events # <<>>
    /\ ui' = [pc |-> "idle", flow |-> Head(events).flow, id |-> Head(events).id, handoff |-> FALSE]
    /\ events' = Tail(events)
    /\ UNCHANGED <<pend, deferred, faults, approved, rejected, notUi>>

\* Is there something pending that this flow is about?
Concerned == IF ui.flow = "sign" THEN confirmation_manager_get_type = "sign"
             ELSE confirmation_manager_is_pending

\* DISPLAY_ACTION_APPROVE; a transaction is looked for first.
ApproveAction ==
    /\ AtUi("idle") /\ ui.flow # "none" /\ ~ui.handoff
    /\ ui' = IF ui.flow = "privileged" \/ Concerned THEN [ui EXCEPT !.pc = "approve"] ELSE NoFlow
    /\ UNCHANGED <<pend, deferred, events, faults, approved, rejected, notUi>>

\* Whatever is pending now is approved; the message for the key manager is
\* queued after that, and may be looked at any time later.
confirmation_manager_approve ==
    /\ AtUi("approve")
    /\ pend' = IF confirmation_manager_is_pending THEN [pend EXCEPT !.approved = TRUE] ELSE pend
    /\ approved' = approved \cup (IF confirmation_manager_is_pending THEN {pend.id} ELSE {})
    /\ deferred' = deferred + 1
    /\ ui' = [ui EXCEPT !.pc = "idle", !.handoff = TRUE]
    /\ UNCHANGED <<events, faults, rejected, notUi>>

Reject(id) == rejected' = rejected \cup {id}

\* Mutant: what was approved is not cancelled any more.
CancelUnapproved ==
    /\ AtUi("idle") /\ ui.flow # "none"
    /\ IF Concerned /\ ~confirmation_manager_is_approved
       THEN ui' = [ui EXCEPT !.pc = "clear"] /\ UNCHANGED rejected
       ELSE ui' = NoFlow /\ Reject(ui.id)
    /\ UNCHANGED <<pend, deferred, events, faults, approved, notUi>>

\* DISPLAY_ACTION_CANCEL, _BACK, _MENU, also once it was approved.
CancelAction ==
    /\ AtUi("idle") /\ ui.flow # "none"
    /\ IF Concerned THEN ui' = [ui EXCEPT !.pc = "clear"] /\ UNCHANGED rejected
       ELSE ui' = NoFlow /\ Reject(ui.id)
    /\ UNCHANGED <<pend, deferred, events, faults, approved, notUi>>

\* on_tick: a confirmation that took too long ends its flow.
ExpireTick ==
    /\ AtUi("idle") /\ ui.flow # "none" /\ (ui.flow = "privileged" \/ ~ui.handoff)
    /\ confirmation_manager_is_expired
    /\ ui' = [ui EXCEPT !.pc = "clear"]
    /\ UNCHANGED <<pend, deferred, events, faults, approved, rejected, notUi>>

ClearFlow ==
    /\ AtUi("clear")
    /\ confirmation_manager_clear
    /\ Reject(ui.id)
    /\ ui' = NoFlow
    /\ UNCHANGED <<deferred, events, faults, approved, notUi>>

\* DISPLAY_ACTION_PAGE_CONFIRMED: confirmation_manager_refresh_timestamp, which
\* tells only when the time is over.
PageConfirmed ==
    /\ AtUi("idle") /\ ui.flow # "none" /\ Concerned /\ pend.old
    /\ faults.refresh < MaxRefreshes
    /\ faults' = [faults EXCEPT !.refresh = @ + 1]
    /\ pend' = [pend EXCEPT !.old = FALSE]
    /\ UNCHANGED <<deferred, ui, events, approved, rejected, notUi>>

\* The screen is left otherwise, by a lock for one: the confirmation stays.
LeaveFlow ==
    /\ AtUi("idle") /\ ui.flow # "none"
    /\ ui' = NoFlow
    /\ UNCHANGED <<pend, deferred, events, faults, approved, rejected, notUi>>

-----------------------------------------------------------------------------
(* The environment *)

\* CONFIRMATION_TIMEOUT_MS have gone by.
TimePasses ==
    /\ confirmation_manager_is_pending /\ ~pend.old
    /\ pend' = [pend EXCEPT !.old = TRUE]
    /\ UNCHANGED <<deferred, ui, events, faults, approved, rejected, notUi>>

\* The payload decays, at any time after it was stored; late is a decay after it
\* was compared with what was confirmed.
FlashDecays ==
    /\ session.kind = "stream" /\ session.flash # Blank
    /\ faults.corrupt < MaxCorruptions
    /\ faults' = [faults EXCEPT !.corrupt = @ + 1,
                      !.late = IF km.pc = "sign" \/ session.state = "confirmed" THEN @ + 1 ELSE @]
    /\ session' = [session EXCEPT !.flash = Decayed]
    /\ UNCHANGED <<pend, km, deferred, sys, ui, events, reqs, history>>

KmStep ==
    \/ Begin \/ RequestConfirmation \/ Deferred \/ IfApproved \/ CompareDeferred \/ Sign
    \/ ClearStream \/ ResetStream

SysStep ==
    \/ Validate \/ Wipe \/ SapResult \/ SignResult \/ CompareResult \/ Collect
    \/ ClearResult \/ ResetResult

User ==
    \/ ApproveAction \/ CancelAction \/ PageConfirmed \/ LeaveFlow

UiStep ==
    display_controller_handle_ui_event \/ confirmation_manager_approve
    \/ ExpireTick \/ ClearFlow

Next ==
    \/ \E kind \in Kinds : Request(kind)
    \/ key_manager_task_handle_sign_stream_transfer
    \/ key_manager_task_handle_sign_stream_finalize
    \/ key_manager_task_handle_get_tx_signature
    \/ KmStep
    \/ sysinfo_task_port_handle_wipe_state
    \/ \E id \in Requests : confirmation_manager_dispatch_result(id)
    \/ SysStep \/ User \/ UiStep \/ TimePasses \/ FlashDecays

Spec == Init /\ [][Next]_vars

\* The tasks run and time passes; an app that was told to ask again does.
FairSpec ==
    /\ Spec
    /\ WF_vars(SysStep) /\ WF_vars(TimePasses)
    /\ SF_vars(\E id \in {asked} \ {0} : confirmation_manager_dispatch_result(id))

-----------------------------------------------------------------------------
(* Properties *)

\* What was approved, and a payload that decayed after it was compared with that.
Allowed == approved \cup (IF faults.late > 0 THEN {Decayed} ELSE {})

\* Whatever the tasks do to the one confirmation and the one session between
\* each other's checks: the app gets signatures only of what was pending when an
\* approval was handled, as it was confirmed, and only such a wipe is carried
\* out.  A payload that decays after it was compared is not compared again: its
\* signatures are the exception.
ReturnedWasApproved == returned \subseteq Allowed

\* An approval is of what the screen shows, or of a request that replaced that
\* one and whose screen is next in the queue: confirmation_manager_approve takes
\* whatever is pending, but never something that was not shown to the UI, or
\* whose screen has come and gone.
ApprovedIsShown ==
    [][\A id \in approved' \ approved :
          id = ui.id \/ \E i \in DOMAIN events : events[i].id = id]_vars

\* What was rejected on its screen, or expired there, has no confirmation result
\* for an app that asks after that, not even if it had been approved and signed;
\* and the key manager does not set out to sign it any more, whatever it was
\* told before.  It may take the approval of a wipe for that of an action, whose
\* signature nobody gets.  The signatures of a stream that it had set out to sign
\* are still fetched with get_tx_signature, which looks at no confirmation.
RejectedStaysRejected ==
    [][/\ sys.late /\ sys' # sys => returned' = returned
       /\ km'.pc = "sign" /\ km.pc # "sign" /\ pend.type # "wipe" => Content \notin rejected]_vars

\* An app that keeps asking is not told forever that the confirmation is
\* pending: it is approved and signed, rejected, replaced, or times out.
PollAnswered == []<>(asked = 0)
=============================================================================
