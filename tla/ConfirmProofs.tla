---------------------------- MODULE ConfirmProofs ----------------------------
(***************************************************************************)
(* Theorems about the confirmation manager, the signing sessions behind it *)
(* and the screens in front of it, for any number of requests, refreshes   *)
(* of the session and decays of the PSBT in flash.                         *)
(***************************************************************************)
EXTENDS Confirm, TLAPS
USE ConstantsAssumption
USE DEF AtKm, GotoKm, others, AtSys, GotoSys, Answered, Answer, notSys, AtUi, notUi,
    Reject, history, confirmation_manager_clear, reset_pending_confirmation,
    confirmation_manager_create, confirmation_manager_get_type,
    confirmation_manager_is_pending, confirmation_manager_is_approved

\* The type invariant, by variable.
Pendings == [type : {"none"} \cup Types, id : 0 .. MaxRequests, approved : BOOLEAN, old : BOOLEAN]
Sessions == [kind : {"none"} \cup Kinds, state : {"idle", "receiving", "finalized", "confirmed"},
             tx : 0 .. MaxRequests, flash : Contents, sigs : {None} \cup Contents, failed : BOOLEAN]
Kms == [pc : {"idle", "begin", "create", "approved", "compare", "sign", "clear", "reset"},
        kind : {"none"} \cup Kinds]
Syss == [pc : {"idle", "validate", "result", "compare", "collect", "clear", "reset"},
         type : {"none"} \cup Types, id : 0 .. MaxRequests, seen : Contents, late : BOOLEAN]
Uis == [pc : {"idle", "approve", "clear"}, flow : {"none", "sign", "privileged"},
        id : 0 .. MaxRequests, handoff : BOOLEAN]
Events == [flow : {"sign", "privileged"}, id : Requests]

PendType == pend \in Pendings /\ IF pend.type = "none" THEN pend = NoPending ELSE pend.id # 0
SessionType == session \in Sessions
KmType == km \in Kms /\ (km.pc # "idle" => km.kind \in Kinds)
SysType == sys \in Syss
UiType == ui \in Uis /\ (ui.flow # "none" => ui.id # 0) /\ (ui.pc # "idle" => ui.flow # "none")
EventsType == events \in Seq(Events)
CountsType == /\ reqs \in 0 .. MaxRequests /\ deferred \in Nat
              /\ faults \in [refresh : 0 .. MaxRefreshes, corrupt : 0 .. MaxCorruptions,
                             late : 0 .. MaxCorruptions]
              /\ faults.late <= faults.corrupt
              /\ asked \in 0 .. MaxRequests
HistoryType == approved \subseteq Requests /\ rejected \subseteq Requests /\ returned \subseteq Contents
TypeInv == PendType /\ SessionType /\ KmType /\ SysType /\ UiType /\ EventsType /\ CountsType /\ HistoryType

LEMMA ContentsFacts ==
    /\ Blank \in Contents /\ Decayed \in Contents
    /\ 0 .. MaxRequests \subseteq Contents /\ Requests \subseteq 0 .. MaxRequests
BY DEF Blank, Decayed, Contents, Requests

LEMMA SessionFields ==
    ASSUME NEW s \in Sessions
    PROVE  /\ s.tx \in 0 .. MaxRequests /\ s.flash \in Contents /\ s.tx \in Contents
           /\ s.sigs \in {None} \cup Contents
           /\ s.kind \in {"none"} \cup Kinds
BY ContentsFacts DEF Sessions

LEMMA NoSessionType == NoSession \in Sessions
BY ContentsFacts DEF NoSession, Sessions, Blank

LEMMA SessionUpdates ==
    ASSUME NEW s \in Sessions
    PROVE  /\ \A c \in Contents : [s EXCEPT !.flash = c] \in Sessions
           /\ [s EXCEPT !.state = "finalized"] \in Sessions
           /\ [s EXCEPT !.failed = TRUE] \in Sessions
BY DEF Sessions

LEMMA ContentType == SessionType => Content \in Contents
BY SessionFields DEF SessionType, Content

LEMMA WaitingType == Waiting \in Syss
BY ContentsFacts DEF Waiting, Syss, Blank

LEMMA SysUpdates ==
    ASSUME NEW s \in Syss
    PROVE  /\ \A p \in {"clear", "reset", "collect"} : [s EXCEPT !.pc = p] \in Syss
           /\ \A p \in {"result", "compare"}, c \in Contents :
                 [s EXCEPT !.pc = p, !.seen = c] \in Syss
           /\ s.id \in 0 .. MaxRequests
BY DEF Syss

LEMMA NoPendingType == NoPending \in Pendings
BY DEF NoPending, Pendings

\* What a step of sysinfo leaves in asked.
LEMMA AskedType ==
    ASSUME TypeInv, asked' \in {asked, sys.id, 0}, UNCHANGED <<reqs, deferred, faults>>
    PROVE  CountsType'
<1>1. sys.id \in 0 .. MaxRequests
  BY SysUpdates DEF TypeInv, SysType
<1>2. asked' \in 0 .. MaxRequests
  BY <1>1 DEF TypeInv, CountsType
<1> QED BY <1>2 DEF TypeInv, CountsType

-----------------------------------------------------------------------------
(* Every step keeps the types: the key manager *)
LEMMA BeginType ==
    ASSUME TypeInv, Begin PROVE TypeInv'
<1>1. SessionType'
  <2>1. CASE session' = NoSession
    BY <2>1, NoSessionType DEF SessionType
  <2>2. ASSUME reqs < MaxRequests,
               session' = [NoSession EXCEPT !.kind = km.kind, !.tx = reqs + 1,
                              !.state = IF km.kind = "stream" THEN "receiving" ELSE "idle"]
        PROVE  SessionType'
    <3>1. reqs + 1 \in 0 .. MaxRequests /\ km.kind \in {"none"} \cup Kinds
      BY <2>2 DEF TypeInv, CountsType, KmType, Kms
    <3> QED BY <2>2, <3>1, NoSessionType DEF SessionType, Sessions
  <2> QED BY <2>1, <2>2 DEF Begin
<1>2. KmType'
  <2>1. km' \in {Free, [km EXCEPT !.pc = "create"]}
    BY DEF Begin
  <2> QED BY <2>1 DEF TypeInv, KmType, Kms, Free, Begin
<1>3. CountsType'
  BY DEF Begin, TypeInv, CountsType
<1> QED
  BY <1>1, <1>2, <1>3 DEF Begin, TypeInv, PendType, SysType, UiType, EventsType, HistoryType

LEMMA RequestConfirmationType ==
    ASSUME TypeInv, RequestConfirmation PROVE TypeInv'
<1>1. session.tx \in 0 .. MaxRequests
  BY SessionFields DEF TypeInv, SessionType
<1>2. PendType'
  <2>1. CASE UNCHANGED pend
    BY <2>1 DEF TypeInv, PendType
  <2>3. CASE pend' = NoPending
    BY <2>3, NoPendingType DEF PendType, NoPending
  <2>2. CASE session.tx # Blank /\ confirmation_manager_create(TypeOf(km.kind), session.tx)
    BY <1>1, <2>2 DEF PendType, Pendings, TypeOf, Types, Blank
  <2> QED BY <2>1, <2>2, <2>3 DEF RequestConfirmation
<1>3. SessionType'
  BY NoSessionType DEF RequestConfirmation, TypeInv, SessionType
<1>4. KmType'
  BY DEF RequestConfirmation, KmType, Kms, Free
<1>5. EventsType'
  <2>1. CASE UNCHANGED events
    BY <2>1 DEF TypeInv, EventsType
  <2>2. CASE /\ session.tx # Blank
             /\ events' = Append(events, [flow |-> FlowOf(TypeOf(km.kind)), id |-> session.tx])
    <3>1. [flow |-> FlowOf(TypeOf(km.kind)), id |-> session.tx] \in Events
      BY <1>1, <2>2 DEF Events, FlowOf, Requests, Blank
    <3> QED BY <2>2, <3>1 DEF TypeInv, EventsType
  <2> QED BY <2>1, <2>2 DEF RequestConfirmation
<1> QED
  BY <1>2, <1>3, <1>4, <1>5
     DEF RequestConfirmation, TypeInv, SysType, UiType, CountsType, HistoryType

LEMMA DeferredType ==
    ASSUME TypeInv, Deferred PROVE TypeInv'
<1>1. KmType'
  BY DEF Deferred, TypeInv, KmType, Kms, Free, SessionType, Sessions
<1>2. CountsType'
  BY DEF Deferred, TypeInv, CountsType, Free
<1> QED
  BY <1>1, <1>2
     DEF Deferred, TypeInv, PendType, SessionType, SysType, UiType, EventsType,
         HistoryType

LEMMA IfApprovedType ==
    ASSUME TypeInv, IfApproved PROVE TypeInv'
<1>1. KmType'
  BY DEF IfApproved, TypeInv, KmType, Kms, Free
<1> QED
  BY <1>1
     DEF IfApproved, TypeInv, PendType, SessionType, SysType, UiType, EventsType,
         CountsType, HistoryType

LEMMA CompareDeferredType ==
    ASSUME TypeInv, CompareDeferred PROVE TypeInv'
<1>1. SessionType'
  BY DEF CompareDeferred, TypeInv, SessionType, Sessions
<1>2. KmType'
  BY DEF CompareDeferred, TypeInv, KmType, Kms, Free
<1> QED
  BY <1>1, <1>2
     DEF CompareDeferred, TypeInv, PendType, SysType, UiType, EventsType, CountsType,
         HistoryType

LEMMA SignType ==
    ASSUME TypeInv, Sign PROVE TypeInv'
<1>1. PICK signed \in {Content, None} :
        session' = [session EXCEPT
            !.sigs = signed,
            !.failed = (signed = None /\ (session.tx # Blank \/ km.kind = "sap")),
            !.kind = IF km.kind = "stream" THEN "stream" ELSE @,
            !.state = IF km.kind = "stream" THEN "confirmed" ELSE @]
  BY DEF Sign
<1>2. SessionType'
  <2>1. signed \in {None} \cup Contents /\ session \in Sessions
    BY ContentType DEF TypeInv, SessionType
  <2>2. km.kind = "stream" => "stream" \in Kinds
    BY DEF TypeInv, KmType, Sign
  <2>3. (signed = None /\ (session.tx # Blank \/ km.kind = "sap")) \in BOOLEAN
    OBVIOUS
  <2> QED BY <1>1, <2>1, <2>2, <2>3 DEF SessionType, Sessions
<1>3. KmType'
  BY DEF Sign, KmType, Kms, Free
<1> QED
  BY <1>2, <1>3
     DEF Sign, TypeInv, PendType, SysType, UiType, EventsType, CountsType, HistoryType

LEMMA ClearStreamType ==
    ASSUME TypeInv, ClearStream PROVE TypeInv'
<1>1. PendType'
  BY DEF ClearStream, TypeInv, PendType, Pendings, NoPending
<1>2. KmType'
  BY DEF ClearStream, TypeInv, KmType, Kms, NoPending
<1> QED
  BY <1>1, <1>2
     DEF ClearStream, TypeInv, SessionType, SysType, UiType, EventsType, CountsType,
         HistoryType

LEMMA ResetStreamType ==
    ASSUME TypeInv, ResetStream PROVE TypeInv'
<1>1. SessionType'
  BY DEF ResetStream, SessionType, Sessions, Contents, Decayed, Blank, NoSession
<1>2. KmType'
  BY DEF ResetStream, TypeInv, KmType, Kms, Free, NoSession
<1> QED
  BY <1>1, <1>2
     DEF ResetStream, TypeInv, PendType, SysType, UiType, EventsType, CountsType,
         HistoryType

LEMMA key_manager_task_handle_sign_stream_transferType ==
    ASSUME TypeInv, key_manager_task_handle_sign_stream_transfer PROVE TypeInv'
<1>1. SessionType'
  BY NoSessionType, SessionUpdates, SessionFields
     DEF key_manager_task_handle_sign_stream_transfer, TypeInv, SessionType
<1> QED
  BY <1>1
     DEF key_manager_task_handle_sign_stream_transfer, TypeInv, PendType, KmType,
         SysType, UiType, EventsType, CountsType, HistoryType

LEMMA key_manager_task_handle_sign_stream_finalizeType ==
    ASSUME TypeInv, key_manager_task_handle_sign_stream_finalize PROVE TypeInv'
<1>1. SessionType'
  BY NoSessionType, SessionUpdates
     DEF key_manager_task_handle_sign_stream_finalize, TypeInv, SessionType
<1>2. KmType'
  <2>1. CASE UNCHANGED km
    BY <2>1 DEF TypeInv, KmType
  <2>2. CASE session.kind = "stream" /\ km' = [pc |-> "create", kind |-> "stream"]
    BY <2>2, SessionFields DEF TypeInv, SessionType, KmType, Kms
  <2> QED BY <2>1, <2>2 DEF key_manager_task_handle_sign_stream_finalize
<1> QED
  BY <1>1, <1>2
     DEF key_manager_task_handle_sign_stream_finalize, TypeInv, PendType, SysType,
         UiType, EventsType, CountsType, HistoryType

LEMMA key_manager_task_handle_get_tx_signatureType ==
    ASSUME TypeInv, key_manager_task_handle_get_tx_signature PROVE TypeInv'
<1>1. SessionType'
  BY NoSessionType DEF key_manager_task_handle_get_tx_signature, TypeInv, SessionType
<1>2. HistoryType'
  BY ContentType, SessionFields
     DEF key_manager_task_handle_get_tx_signature, TypeInv, SessionType, HistoryType
<1> QED
  BY <1>1, <1>2
     DEF key_manager_task_handle_get_tx_signature, TypeInv, PendType, KmType, SysType,
         UiType, EventsType, CountsType

-----------------------------------------------------------------------------
(* The sysinfo task *)
LEMMA sysinfo_task_port_handle_wipe_stateType ==
    ASSUME TypeInv, sysinfo_task_port_handle_wipe_state PROVE TypeInv'
<1>1. PendType'
  BY DEF sysinfo_task_port_handle_wipe_state, TypeInv, PendType, Pendings, CountsType, Types
<1>2. EventsType'
  BY DEF sysinfo_task_port_handle_wipe_state, TypeInv, EventsType, Events, Requests,
         PendType, CountsType
<1>3. CountsType'
  BY DEF sysinfo_task_port_handle_wipe_state, TypeInv, CountsType
<1> QED
  BY <1>1, <1>2, <1>3
     DEF sysinfo_task_port_handle_wipe_state, TypeInv, SessionType, KmType, SysType,
         UiType, HistoryType

LEMMA ValidateType ==
    ASSUME TypeInv, Validate PROVE TypeInv'
<1>1. PendType'
  <2>1. pend' = pend \/ pend' = NoPending
    BY DEF Validate
  <2>2. CASE pend' = pend
    BY <2>2 DEF TypeInv, PendType
  <2>3. CASE pend' = NoPending
    BY <2>3, NoPendingType DEF PendType, NoPending
  <2> QED BY <2>1, <2>2, <2>3
<1>2. pend.id \in Contents
  BY ContentsFacts DEF TypeInv, PendType, Pendings
<1>3. SysType'
  <2>1. \/ sys' = [sys EXCEPT !.pc = "result", !.seen = pend.id]
        \/ sys' = Waiting \/ sys' = [sys EXCEPT !.pc = "clear"]
    BY DEF Validate
  <2>2. sys \in Syss
    BY DEF TypeInv, SysType
  <2>3. [sys EXCEPT !.pc = "clear"] \in Syss
    BY <2>2, SysUpdates
  <2>4. [sys EXCEPT !.pc = "result", !.seen = pend.id] \in Syss
    BY <1>2, <2>2, SysUpdates
  <2> QED BY <2>1, <2>3, <2>4, WaitingType DEF SysType
<1>4. CountsType'
  BY AskedType DEF Validate
<1> QED
  BY <1>1, <1>3, <1>4
     DEF Validate, TypeInv, SessionType, KmType, UiType, EventsType, HistoryType

LEMMA WipeType ==
    ASSUME TypeInv, Wipe PROVE TypeInv'
<1>1. PendType'
  BY DEF Wipe, PendType, Pendings, NoPending
<1>2. SessionType'
  BY DEF Wipe, SessionType, Sessions, Contents, Decayed, Blank, NoSession
<1>3. KmType'
  BY DEF Wipe, KmType, Kms, Free
<1>4. SysType'
  BY DEF Wipe, SysType, Syss, Contents, Decayed, Waiting
<1>5. UiType'
  BY DEF Wipe, UiType, Uis, NoFlow
<1>6. EventsType'
  BY DEF Wipe, EventsType
<1>7. CountsType'
  BY DEF Wipe, TypeInv, CountsType, Free, NoFlow, NoPending, NoSession, Waiting
<1>8. HistoryType'
  BY DEF Wipe, TypeInv, HistoryType, SysType, Syss
<1> QED
  BY <1>1, <1>2, <1>3, <1>4, <1>5, <1>6, <1>7, <1>8 DEF Wipe, TypeInv

LEMMA SapResultType ==
    ASSUME TypeInv, SapResult PROVE TypeInv'
<1>1. SysType'
  BY SysUpdates, WaitingType DEF SapResult, TypeInv, SysType
<1>2. CountsType'
  BY SysUpdates DEF SapResult, TypeInv, CountsType, SysType
<1>3. HistoryType'
  BY SessionFields DEF SapResult, TypeInv, HistoryType, SessionType
<1> QED
  BY <1>1, <1>2, <1>3
     DEF SapResult, TypeInv, PendType, SessionType, KmType, UiType, EventsType

LEMMA SignResultType ==
    ASSUME TypeInv, SignResult PROVE TypeInv'
<1>1. pend.id \in Contents
  BY ContentsFacts DEF TypeInv, PendType, Pendings
<1>2. SysType'
  BY <1>1, SysUpdates, WaitingType, ZenonT(60) DEF SignResult, TypeInv, SysType
<1>3. CountsType'
  BY SysUpdates DEF SignResult, TypeInv, CountsType, SysType
<1> QED
  BY <1>2, <1>3
     DEF SignResult, TypeInv, PendType, SessionType, KmType, UiType, EventsType,
         HistoryType

LEMMA CompareResultType ==
    ASSUME TypeInv, CompareResult PROVE TypeInv'
<1>1. SysType'
  BY SysUpdates, WaitingType DEF CompareResult, TypeInv, SysType
<1>2. CountsType'
  BY AskedType DEF CompareResult
<1> QED
  BY <1>1, <1>2
     DEF CompareResult, TypeInv, PendType, SessionType, KmType, UiType, EventsType,
         HistoryType

LEMMA CollectType ==
    ASSUME TypeInv, Collect PROVE TypeInv'
<1>1. SysType'
  BY SysUpdates, WaitingType DEF Collect, TypeInv, SysType
<1>2. CountsType'
  BY SysUpdates DEF Collect, TypeInv, CountsType, SysType
<1>3. HistoryType'
  BY SessionFields DEF Collect, TypeInv, HistoryType, SessionType
<1> QED
  BY <1>1, <1>2, <1>3
     DEF Collect, TypeInv, PendType, SessionType, KmType, UiType, EventsType

LEMMA ClearResultType ==
    ASSUME TypeInv, ClearResult PROVE TypeInv'
<1>1. PendType'
  BY DEF ClearResult, TypeInv, PendType, Pendings, NoPending
<1>2. SysType'
  BY DEF ClearResult, TypeInv, SysType, Syss, Contents, Decayed, Types, NoPending
<1> QED
  BY <1>1, <1>2
     DEF ClearResult, TypeInv, SessionType, KmType, UiType, EventsType, CountsType,
         HistoryType

LEMMA ResetResultType ==
    ASSUME TypeInv, ResetResult PROVE TypeInv'
<1>1. SessionType'
  BY DEF ResetResult, SessionType, Sessions, Contents, Decayed, Blank, NoSession
<1>2. SysType'
  BY DEF ResetResult, SysType, Syss, Contents, Decayed, Waiting
<1>3. CountsType'
  BY DEF ResetResult, TypeInv, CountsType, NoSession, Waiting
<1> QED
  BY <1>1, <1>2, <1>3
     DEF ResetResult, TypeInv, PendType, KmType, UiType, EventsType, HistoryType

-----------------------------------------------------------------------------
(* The screens, time and flash *)
LEMMA ApproveActionType ==
    ASSUME TypeInv, ApproveAction PROVE TypeInv'
<1>1. UiType'
  BY DEF ApproveAction, TypeInv, UiType, Uis, NoFlow
<1> QED
  BY <1>1
     DEF ApproveAction, TypeInv, PendType, SessionType, KmType, SysType, EventsType,
         CountsType, HistoryType

LEMMA CancelActionType ==
    ASSUME TypeInv, CancelAction PROVE TypeInv'
<1>1. ui.id \in Requests
  BY DEF CancelAction, TypeInv, UiType, Uis, Requests
<1>2. UiType'
  <2>1. CASE ui' = [ui EXCEPT !.pc = "clear"]
    BY <2>1 DEF CancelAction, TypeInv, UiType, Uis
  <2>2. CASE ui' = NoFlow
    BY <2>2 DEF UiType, Uis, NoFlow
  <2> QED BY <2>1, <2>2 DEF CancelAction
<1>3. HistoryType'
  BY <1>1 DEF CancelAction, TypeInv, HistoryType
<1> QED
  BY <1>2, <1>3
     DEF CancelAction, TypeInv, PendType, SessionType, KmType, SysType, EventsType,
         CountsType

LEMMA PageConfirmedType ==
    ASSUME TypeInv, PageConfirmed PROVE TypeInv'
<1>1. PendType'
  BY DEF PageConfirmed, TypeInv, PendType, Pendings, Concerned
<1>2. CountsType'
  BY DEF PageConfirmed, TypeInv, CountsType
<1> QED
  BY <1>1, <1>2
     DEF PageConfirmed, TypeInv, SessionType, KmType, SysType, UiType, EventsType,
         HistoryType

LEMMA LeaveFlowType ==
    ASSUME TypeInv, LeaveFlow PROVE TypeInv'
<1>1. UiType'
  BY DEF LeaveFlow, TypeInv, UiType, Uis, NoFlow
<1> QED
  BY <1>1
     DEF LeaveFlow, TypeInv, PendType, SessionType, KmType, SysType, EventsType,
         CountsType, HistoryType

LEMMA display_controller_handle_ui_eventType ==
    ASSUME TypeInv, display_controller_handle_ui_event PROVE TypeInv'
<1>1. Head(events) \in Events /\ Tail(events) \in Seq(Events)
  BY DEF display_controller_handle_ui_event, TypeInv, EventsType
<1>2. UiType'
  BY <1>1 DEF display_controller_handle_ui_event, UiType, Uis, Events, Requests
<1>3. EventsType'
  BY <1>1 DEF display_controller_handle_ui_event, EventsType
<1> QED
  BY <1>2, <1>3
     DEF display_controller_handle_ui_event, TypeInv, PendType, SessionType, KmType,
         SysType, CountsType, HistoryType

LEMMA confirmation_manager_approveType ==
    ASSUME TypeInv, confirmation_manager_approve PROVE TypeInv'
<1>1. PendType'
  BY DEF confirmation_manager_approve, TypeInv, PendType, Pendings, NoPending
<1>2. UiType'
  BY DEF confirmation_manager_approve, TypeInv, UiType, Uis
<1>3. CountsType'
  BY DEF confirmation_manager_approve, TypeInv, CountsType
<1>4. HistoryType'
  BY DEF confirmation_manager_approve, TypeInv, HistoryType, Requests, PendType, Pendings
<1> QED
  BY <1>1, <1>2, <1>3, <1>4
     DEF confirmation_manager_approve, TypeInv, SessionType, KmType, SysType, EventsType

LEMMA ExpireTickType ==
    ASSUME TypeInv, ExpireTick PROVE TypeInv'
<1>1. UiType'
  BY DEF ExpireTick, TypeInv, UiType, Uis
<1> QED
  BY <1>1
     DEF ExpireTick, TypeInv, PendType, SessionType, KmType, SysType, EventsType,
         CountsType, HistoryType

LEMMA ClearFlowType ==
    ASSUME TypeInv, ClearFlow PROVE TypeInv'
<1>1. ui.id \in Requests
  BY DEF ClearFlow, TypeInv, UiType, Uis, Requests
<1>2. PendType' /\ UiType'
  BY DEF ClearFlow, PendType, Pendings, NoPending, UiType, Uis, NoFlow
<1>3. HistoryType'
  BY <1>1 DEF ClearFlow, TypeInv, HistoryType
<1> QED
  BY <1>2, <1>3 DEF ClearFlow, TypeInv, SessionType, KmType, SysType, EventsType, CountsType

LEMMA TimePassesType ==
    ASSUME TypeInv, TimePasses PROVE TypeInv'
<1>1. PendType'
  BY DEF TimePasses, TypeInv, PendType, Pendings, NoPending
<1> QED
  BY <1>1
     DEF TimePasses, TypeInv, SessionType, KmType, SysType, UiType, EventsType,
         CountsType, HistoryType

LEMMA FlashDecaysType ==
    ASSUME TypeInv, FlashDecays PROVE TypeInv'
<1>1. SessionType'
  BY DEF FlashDecays, TypeInv, SessionType, Sessions, Contents, Decayed
<1>2. CountsType'
  <2>1. /\ faults \in [refresh : 0 .. MaxRefreshes, corrupt : 0 .. MaxCorruptions,
                       late : 0 .. MaxCorruptions]
        /\ faults.late <= faults.corrupt /\ faults.corrupt < MaxCorruptions
    BY DEF FlashDecays, TypeInv, CountsType
  <2>2. PICK n \in {faults.late, faults.late + 1} :
          faults' = [faults EXCEPT !.corrupt = @ + 1, !.late = n]
    BY DEF FlashDecays
  <2>3. /\ faults.corrupt + 1 \in 0 .. MaxCorruptions /\ n \in 0 .. MaxCorruptions
        /\ n <= faults.corrupt + 1
    BY <2>1, <2>2
  <2>4. /\ faults' \in [refresh : 0 .. MaxRefreshes, corrupt : 0 .. MaxCorruptions,
                         late : 0 .. MaxCorruptions]
        /\ faults'.late <= faults'.corrupt
    BY <2>1, <2>2, <2>3
  <2> QED BY <2>4 DEF FlashDecays, TypeInv, CountsType
<1> QED
  BY <1>1, <1>2
     DEF FlashDecays, TypeInv, PendType, KmType, SysType, UiType, EventsType,
         HistoryType

-----------------------------------------------------------------------------
(* What is returned *)
\* The session has one of few forms, and is the one that the key manager works on.
SessionShape ==
    /\ session.tx <= reqs
    /\ session.tx = Blank => session.flash = Blank
    /\ session.state # "idle" => session.kind = "stream"
    /\ session.state \in {"receiving", "finalized"} =>
          session.sigs = None /\ session.tx # Blank
    /\ km.pc = "create" => session.sigs = None
    /\ km.pc \in {"approved", "compare", "sign"} /\ session.tx # Blank => session.kind = km.kind

\* The confirmation is about a request that was made, is approved only if its
\* user approved it, and is about the session of the key manager or about a
\* wipe.
PendShape ==
    /\ pend.id <= reqs
    /\ pend.approved => pend.id \in approved
    /\ pend.type \in {"sign", "sap"} => km.pc # "begin" /\ session.tx \in {pend.id, Blank}
    /\ pend.type = "wipe" => sys.pc = "idle" \/ sys.type = "wipe"

\* What the sysinfo task has seen approved was approved.
SysShape ==
    /\ sys.type = "wipe" => sys.pc \in {"validate", "result"}
    /\ sys.type = "none" => sys.pc = "idle"
    /\ sys.pc = "result" => sys.seen \in approved

\* The session holds, or is about to hold, a signature of what nobody approved.
\* This happens: an approved wipe can replace the confirmation of an action
\* between the two looks of the key manager at it, which then takes the
\* approval of the wipe for that of its own.
Tainted ==
    \/ session.sigs \notin Allowed \cup {None}
    \/ km.pc = "sign" /\ session.tx # Blank /\ Content \notin Allowed

\* Such a signature is not returned: what is pending is the wipe, or nothing,
\* so that no result is looked up in the session until the next request has
\* cleared it.
TaintedOut ==
    Tainted => pend.type \in {"none", "wipe"} /\ (sys.pc = "idle" \/ sys.type = "wipe")

\* The key manager compares the PSBT in flash only after its approval.
Compared == km.pc = "compare" /\ pend.type = "sign" => pend.id \in approved

\* The signatures of a stream, which the app reads from the session and not
\* through a confirmation, are of what was approved, or of what decayed since.
StreamSafe ==
    /\ session.state = "confirmed" /\ session.tx # Blank =>
          Content \in Allowed /\ session.sigs \in Allowed \cup {None}
    /\ km.pc = "sign" /\ km.kind # "sap" /\ session.tx # Blank => Content \in Allowed

SafeInv ==
    /\ SessionShape /\ PendShape /\ SysShape /\ TaintedOut /\ Compared /\ StreamSafe
    /\ ReturnedWasApproved
USE DEF Allowed

\* A step that leaves alone what SafeInv is about.
LEMMA SafeFrame ==
    ASSUME SafeInv, UNCHANGED <<pend, session, km, sys, reqs, approved, returned, faults>>
    PROVE  SafeInv'
BY DEF SafeInv, SessionShape, PendShape, SysShape, TaintedOut, Tainted, Content,
       Compared, StreamSafe, ReturnedWasApproved

LEMMA BeginSafe ==
    ASSUME TypeInv, SafeInv, Begin PROVE SafeInv'
<1>1. /\ reqs \in Nat /\ reqs' \in Nat /\ reqs <= reqs'
      /\ UNCHANGED <<pend, sys, approved, returned, faults>>
  BY DEF Begin, TypeInv, CountsType
<1>2. pend.type \notin {"sign", "sap"}
  BY DEF Begin, SafeInv, PendShape
<1>3. km'.pc \in {"idle", "create"}
  BY DEF Begin, Free, TypeInv, KmType, Kms
<1>4. /\ session'.sigs = None /\ session'.flash = Blank /\ session'.tx <= reqs'
      /\ session'.state \in {"idle", "receiving"}
      /\ session'.state = "receiving" => session'.kind = "stream" /\ session'.tx # Blank
  <2>1. CASE session' = NoSession
    BY <1>1, <2>1 DEF NoSession, Blank
  <2>2. CASE /\ reqs' = reqs + 1
             /\ session' = [NoSession EXCEPT !.kind = km.kind, !.tx = reqs + 1,
                               !.state = IF km.kind = "stream" THEN "receiving" ELSE "idle"]
    BY <1>1, <2>2 DEF NoSession, Blank
  <2> QED BY <2>1, <2>2 DEF Begin
<1>5. SessionShape'
  BY <1>3, <1>4 DEF SessionShape
<1>6. PendShape'
  BY <1>1, <1>2, <1>3 DEF SafeInv, PendShape, TypeInv, PendType, Pendings
<1>7. TaintedOut' /\ Compared' /\ StreamSafe'
  BY <1>3, <1>4 DEF TaintedOut, Tainted, Compared, StreamSafe
<1> QED
  BY <1>1, <1>5, <1>6, <1>7 DEF SafeInv, SysShape, ReturnedWasApproved

LEMMA RequestConfirmationSafe ==
    ASSUME TypeInv, SafeInv, RequestConfirmation PROVE SafeInv'
<1>1. /\ km' = Free /\ km'.pc = "idle" /\ reqs \in Nat
      /\ UNCHANGED <<sys, reqs, approved, returned, faults>>
  BY DEF RequestConfirmation, Free, TypeInv, CountsType
<1>2. session.sigs = None /\ session.tx <= reqs
  BY DEF RequestConfirmation, SafeInv, SessionShape
<1>3. session' = session \/ session' = NoSession
  BY DEF RequestConfirmation
<1>4. SessionShape'
  <2>1. CASE session' = session
    BY <1>1, <2>1 DEF SafeInv, SessionShape
  <2>2. CASE session' = NoSession
    BY <1>1, <2>2 DEF SessionShape, NoSession, Blank, None
  <2> QED BY <1>3, <2>1, <2>2
<1>5. session'.sigs = None
  BY <1>2, <1>3 DEF NoSession
<1>6. PendShape'
  <2>1. CASE UNCHANGED <<pend, session>>
    BY <1>1, <2>1 DEF SafeInv, PendShape
  <2>2. CASE pend' = NoPending
    BY <1>1, <2>2 DEF PendShape, NoPending
  <2>3. CASE pend' = pend /\ session' = NoSession
    BY <1>1, <2>3 DEF SafeInv, PendShape, NoSession
  <2>4. CASE /\ confirmation_manager_create(TypeOf(km.kind), session.tx)
             /\ UNCHANGED session
    BY <1>1, <1>2, <2>4 DEF PendShape, TypeOf
  <2> QED BY <2>1, <2>2, <2>3, <2>4 DEF RequestConfirmation
<1>7. TaintedOut' /\ Compared'
  BY <1>1, <1>5 DEF TaintedOut, Tainted, Compared
<1>8. StreamSafe'
  BY <1>1, <1>3, <1>5 DEF SafeInv, StreamSafe, Content, NoSession, Blank
<1> QED
  BY <1>1, <1>4, <1>6, <1>7, <1>8 DEF SafeInv, SysShape, ReturnedWasApproved

LEMMA DeferredSafe ==
    ASSUME TypeInv, SafeInv, Deferred PROVE SafeInv'
<1>1. SessionShape'
  BY DEF Deferred, TypeInv, SafeInv, SessionShape, KmType, Kms, CountsType, Free
<1>2. PendShape'
  BY DEF Deferred, TypeInv, SafeInv, PendShape, KmType, Kms, CountsType, Free
<1>3. TaintedOut'
  BY DEF Deferred, SafeInv, TaintedOut, Tainted, Free
<1>4. Compared'
  BY DEF Deferred, TypeInv, SafeInv, Compared, KmType, Kms, Free
<1>5. StreamSafe'
  BY DEF Deferred, TypeInv, SafeInv, StreamSafe, Content, KmType, Kms, Free
<1> QED
  BY <1>1, <1>2, <1>3, <1>4, <1>5 DEF Deferred, SafeInv, SysShape, ReturnedWasApproved

LEMMA IfApprovedSafe ==
    ASSUME TypeInv, SafeInv, IfApproved PROVE SafeInv'
<1>1. UNCHANGED <<pend, session, sys, reqs, approved, returned, faults>>
  BY DEF IfApproved, history
<1>2. /\ km'.pc \in {"idle", "compare", "sign"}
      /\ km'.pc # "idle" => km'.kind = km.kind /\ pend.approved
      /\ km'.pc = "sign" => km'.kind = "sap"
  BY DEF IfApproved, Free, TypeInv, KmType, Kms
<1>3. AtKm("approved")
  BY DEF IfApproved
<1>4. pend.approved => pend.id \in approved /\ pend.type \in {"sign", "sap", "wipe"}
  BY DEF TypeInv, PendType, Pendings, NoPending, Types, SafeInv, PendShape
<1>5. SessionShape'
  BY <1>1, <1>2, <1>3 DEF SafeInv, SessionShape
<1>6. PendShape'
  BY <1>1, <1>2, <1>3 DEF SafeInv, PendShape
<1>7. TaintedOut'
  <2>1. CASE ~Tainted'
    BY <2>1 DEF TaintedOut
  <2>2. CASE session.sigs \notin Allowed \cup {None}
    BY <1>1, <2>2 DEF SafeInv, TaintedOut, Tainted
  <2>3. CASE km'.pc = "sign" /\ session.tx # Blank /\ Content \notin Allowed
    <3>1. Content = session.tx
      BY <1>2, <1>3, <2>3 DEF SafeInv, SessionShape, Content
    <3>2. pend.type = "wipe"
      BY <1>2, <1>3, <1>4, <2>3, <3>1 DEF SafeInv, PendShape
    <3> QED BY <1>1, <3>2 DEF SafeInv, PendShape, TaintedOut
  <2> QED BY <1>1, <2>1, <2>2, <2>3 DEF Tainted, Content
<1>8. Compared'
  BY <1>1, <1>2, <1>4 DEF Compared
<1>9. StreamSafe'
  BY <1>1, <1>2 DEF SafeInv, StreamSafe, Content
<1> QED
  BY <1>1, <1>5, <1>6, <1>7, <1>8, <1>9 DEF SafeInv, SysShape, ReturnedWasApproved

LEMMA CompareDeferredSafe ==
    ASSUME TypeInv, SafeInv, CompareDeferred PROVE SafeInv'
<1>1. SessionShape'
  BY DEF CompareDeferred, TypeInv, SafeInv, SessionShape, SessionType, Sessions, KmType,
         Kms, Free
<1>2. PendShape'
  BY DEF CompareDeferred, TypeInv, SafeInv, PendShape, KmType, Kms, SessionType,
         Sessions, Free
<1>3. TaintedOut'
  BY DEF CompareDeferred, TypeInv, SafeInv, TaintedOut, Tainted, Content, SessionType,
         Sessions, KmType, Kms, Free, Committed, Compared
<1>4. Compared'
  BY DEF CompareDeferred, TypeInv, SafeInv, Compared, KmType, Kms, Free
<1>5. StreamSafe'
  BY DEF CompareDeferred, TypeInv, SafeInv, StreamSafe, Content, SessionType, Sessions,
         KmType, Kms, Free, Committed, Compared
<1> QED
  BY <1>1, <1>2, <1>3, <1>4, <1>5
     DEF CompareDeferred, SafeInv, SysShape, ReturnedWasApproved

LEMMA SignSafe ==
    ASSUME TypeInv, SafeInv, Sign PROVE SafeInv'
<1>1. SessionShape'
  BY DEF Sign, SafeInv, SessionShape, Free
<1>2. PendShape'
  BY DEF Sign, SafeInv, PendShape, Free
<1>3. TaintedOut'
  BY DEF Sign, SafeInv, TaintedOut, Tainted, Free
<1>4. Compared'
  BY DEF Sign, TypeInv, SafeInv, Compared, KmType, Kms, Free
<1>5. StreamSafe'
  BY DEF Sign, SafeInv, StreamSafe, Content, Free, SessionShape
<1> QED
  BY <1>1, <1>2, <1>3, <1>4, <1>5 DEF Sign, SafeInv, SysShape, ReturnedWasApproved

LEMMA ClearStreamSafe ==
    ASSUME TypeInv, SafeInv, ClearStream PROVE SafeInv'
<1>1. SessionShape'
  BY DEF ClearStream, TypeInv, SafeInv, SessionShape, KmType, Kms, CountsType, NoPending
<1>2. PendShape'
  BY DEF ClearStream, TypeInv, PendShape, CountsType, NoPending
<1>3. TaintedOut'
  BY DEF ClearStream, SafeInv, TaintedOut, Tainted, NoPending
<1>4. Compared'
  BY DEF ClearStream, Compared
<1>5. StreamSafe'
  BY DEF ClearStream, TypeInv, SafeInv, StreamSafe, Content, KmType, Kms, NoPending
<1> QED
  BY <1>1, <1>2, <1>3, <1>4, <1>5 DEF ClearStream, SafeInv, SysShape, ReturnedWasApproved

LEMMA ResetStreamSafe ==
    ASSUME TypeInv, SafeInv, ResetStream PROVE SafeInv'
<1>1. SessionShape'
  BY DEF ResetStream, TypeInv, SessionShape, CountsType, NoSession, Blank
<1>2. PendShape'
  BY DEF ResetStream, SafeInv, PendShape, Free, NoSession
<1>3. TaintedOut'
  BY DEF ResetStream, TaintedOut, Tainted, NoSession
<1>4. Compared'
  BY DEF ResetStream, TypeInv, SafeInv, Compared, KmType, Kms, Free, NoSession
<1>5. StreamSafe'
  BY DEF ResetStream, StreamSafe, NoSession
<1> QED
  BY <1>1, <1>2, <1>3, <1>4, <1>5 DEF ResetStream, SafeInv, SysShape, ReturnedWasApproved

LEMMA key_manager_task_handle_sign_stream_transferSafe ==
    ASSUME TypeInv, SafeInv, key_manager_task_handle_sign_stream_transfer PROVE SafeInv'
<1>1. SessionShape'
  BY DEF key_manager_task_handle_sign_stream_transfer, TypeInv, SafeInv, SessionShape,
         SessionType, Sessions, CountsType, NoSession, Blank
<1>2. PendShape'
  BY DEF key_manager_task_handle_sign_stream_transfer, TypeInv, SafeInv, PendShape,
         SessionType, Sessions, CountsType, NoSession
<1>3. TaintedOut'
  BY DEF key_manager_task_handle_sign_stream_transfer, TypeInv, SafeInv, TaintedOut,
         Tainted, SessionType, Sessions, NoSession
<1>4. StreamSafe'
  BY DEF key_manager_task_handle_sign_stream_transfer, TypeInv, StreamSafe, SessionType,
         Sessions, NoSession, Receiving
<1> QED
  BY <1>1, <1>2, <1>3, <1>4
     DEF key_manager_task_handle_sign_stream_transfer, SafeInv, SysShape, Compared,
         ReturnedWasApproved

LEMMA key_manager_task_handle_sign_stream_finalizeSafe ==
    ASSUME TypeInv, SafeInv, key_manager_task_handle_sign_stream_finalize PROVE SafeInv'
<1>1. SessionShape'
  BY DEF key_manager_task_handle_sign_stream_finalize, TypeInv, SafeInv, SessionShape,
         SessionType, Sessions, CountsType, NoSession, Blank, Receiving
<1>2. PendShape'
  BY DEF key_manager_task_handle_sign_stream_finalize, TypeInv, SafeInv, PendShape,
         SessionType, Sessions, NoSession
<1>3. TaintedOut'
  BY DEF key_manager_task_handle_sign_stream_finalize, TypeInv, SafeInv, TaintedOut,
         Tainted, SessionType, Sessions, NoSession
<1>4. Compared'
  BY DEF key_manager_task_handle_sign_stream_finalize, TypeInv, SafeInv, Compared,
         KmType, Kms, NoSession
<1>5. StreamSafe'
  BY DEF key_manager_task_handle_sign_stream_finalize, TypeInv, StreamSafe, SessionType,
         Sessions, NoSession
<1> QED
  BY <1>1, <1>2, <1>3, <1>4, <1>5
     DEF key_manager_task_handle_sign_stream_finalize, SafeInv, SysShape,
         ReturnedWasApproved

LEMMA key_manager_task_handle_get_tx_signatureSafe ==
    ASSUME TypeInv, SafeInv, key_manager_task_handle_get_tx_signature PROVE SafeInv'
<1>1. SessionShape'
  BY DEF key_manager_task_handle_get_tx_signature, TypeInv, SafeInv, SessionShape,
         CountsType, NoSession, Blank
<1>2. PendShape'
  BY DEF key_manager_task_handle_get_tx_signature, TypeInv, SafeInv, PendShape,
         SessionType, Sessions, CountsType, NoSession
<1>3. TaintedOut'
  BY DEF key_manager_task_handle_get_tx_signature, SafeInv, TaintedOut, Tainted, NoSession
<1>4. StreamSafe'
  BY DEF key_manager_task_handle_get_tx_signature, TypeInv, SafeInv, StreamSafe,
         Content, SessionType, Sessions, NoSession
<1>5. ReturnedWasApproved'
  BY DEF key_manager_task_handle_get_tx_signature, SafeInv, ReturnedWasApproved, StreamSafe
<1> QED
  BY <1>1, <1>2, <1>3, <1>4, <1>5
     DEF key_manager_task_handle_get_tx_signature, SafeInv, SysShape, Compared

LEMMA sysinfo_task_port_handle_wipe_stateSafe ==
    ASSUME TypeInv, SafeInv, sysinfo_task_port_handle_wipe_state PROVE SafeInv'
<1>1. /\ UNCHANGED <<session, km, sys, approved, returned, faults>>
      /\ reqs' = reqs + 1 /\ reqs \in Nat /\ sys.pc = "idle"
      /\ pend'.type = "wipe" /\ pend'.id = reqs' /\ pend'.approved = FALSE
  BY DEF sysinfo_task_port_handle_wipe_state, TypeInv, CountsType
<1>2. session.tx \in Int /\ session.tx <= reqs
  BY SessionFields DEF TypeInv, SessionType, SafeInv, SessionShape
<1>3. SessionShape'
  <2>1. session'.tx <= reqs'
    BY <1>1, <1>2
  <2> QED BY <1>1, <2>1 DEF SafeInv, SessionShape
<1>4. PendShape' /\ TaintedOut' /\ Compared'
  BY <1>1 DEF PendShape, TaintedOut, Compared
<1> QED
  BY <1>1, <1>3, <1>4 DEF SafeInv, SysShape, StreamSafe, Content, ReturnedWasApproved

LEMMA ValidateSafe ==
    ASSUME TypeInv, SafeInv, Validate PROVE SafeInv'
<1>1. UNCHANGED <<session, km, reqs, approved, returned, faults>>
  BY DEF Validate
<1>2. pend' = pend \/ pend' = NoPending
  BY DEF Validate
<1>3. \/ sys' = Waiting
      \/ sys' = [sys EXCEPT !.pc = "clear"] /\ sys.type = "sap"
      \/ sys' = [sys EXCEPT !.pc = "result", !.seen = pend.id] /\ pend.approved
  BY DEF Validate, confirmation_manager_validate
<1>4. /\ \/ sys'.pc = "idle" /\ sys'.type = "none"
         \/ sys'.pc = "clear" /\ sys'.type = sys.type /\ sys.type = "sap"
         \/ sys'.pc = "result" /\ sys'.type = sys.type /\ sys'.seen = pend.id /\ pend.approved
      /\ sys.pc = "validate"
  <2>1. CASE sys' = Waiting
    BY <2>1 DEF Validate, Waiting
  <2>2. CASE sys' = [sys EXCEPT !.pc = "clear"] /\ sys.type = "sap"
    BY <2>2 DEF Validate, TypeInv, SysType, Syss
  <2>3. CASE sys' = [sys EXCEPT !.pc = "result", !.seen = pend.id] /\ pend.approved
    BY <2>3 DEF Validate, TypeInv, SysType, Syss
  <2> QED BY <1>3, <2>1, <2>2, <2>3
<1>5. PendShape'
  <2>1. CASE pend' = pend
    BY <1>1, <1>4, <2>1 DEF SafeInv, PendShape
  <2>2. CASE pend' = NoPending
    BY <1>1, <2>2 DEF PendShape, NoPending, TypeInv, CountsType
  <2> QED BY <1>2, <2>1, <2>2
<1>6. SysShape'
  BY <1>1, <1>4 DEF SafeInv, SysShape, PendShape
<1>7. TaintedOut'
  BY <1>1, <1>2, <1>4 DEF SafeInv, TaintedOut, Tainted, Content, NoPending
<1>8. Compared'
  BY <1>1, <1>2 DEF SafeInv, Compared, NoPending
<1> QED
  BY <1>1, <1>5, <1>6, <1>7, <1>8
     DEF SafeInv, SessionShape, StreamSafe, Content, ReturnedWasApproved

LEMMA WipeSafe ==
    ASSUME TypeInv, SafeInv, Wipe PROVE SafeInv'
<1>1. SessionShape'
  BY DEF Wipe, TypeInv, SessionShape, CountsType, NoSession, Blank
<1>2. PendShape'
  BY DEF Wipe, TypeInv, PendShape, CountsType, NoPending
<1>3. SysShape'
  BY DEF Wipe, SysShape, Waiting
<1>4. TaintedOut'
  BY DEF Wipe, TaintedOut, Tainted, NoSession
<1>5. Compared'
  BY DEF Wipe, Compared, Free
<1>6. StreamSafe'
  BY DEF Wipe, StreamSafe, NoSession
<1>7. ReturnedWasApproved'
  BY DEF Wipe, SafeInv, ReturnedWasApproved, SysShape
<1> QED
  BY <1>1, <1>2, <1>3, <1>4, <1>5, <1>6, <1>7 DEF Wipe, SafeInv

LEMMA SapResultSafe ==
    ASSUME TypeInv, SafeInv, SapResult PROVE SafeInv'
<1>1. PendShape'
  BY DEF SapResult, TypeInv, SafeInv, PendShape, SysType, Syss, CountsType, Waiting
<1>2. SysShape'
  BY DEF SapResult, TypeInv, SafeInv, SysShape, SysType, Syss, Waiting
<1>3. TaintedOut'
  BY DEF SapResult, SafeInv, TaintedOut, Tainted, Content
<1>4. ReturnedWasApproved'
  BY DEF SapResult, SafeInv, ReturnedWasApproved, TaintedOut, Tainted
<1> QED
  BY <1>1, <1>2, <1>3, <1>4
     DEF SapResult, SafeInv, SessionShape, Compared, StreamSafe, Content

LEMMA SignResultSafe ==
    ASSUME TypeInv, SafeInv, SignResult PROVE SafeInv'
<1>1. /\ UNCHANGED <<pend, session, km, reqs, approved, returned, faults>>
      /\ sys.type = "sign" /\ sys.pc = "result"
  BY DEF SignResult
<1>2. \/ sys' = Waiting
      \/ sys' = [sys EXCEPT !.pc = "clear"]
      \/ sys' = [sys EXCEPT !.pc = "compare", !.seen = pend.id]
  BY DEF SignResult
<1>3. \/ sys'.pc = "idle" /\ sys'.type = "none"
      \/ sys'.pc \in {"clear", "compare"} /\ sys'.type = "sign"
  <2>1. CASE sys' = Waiting
    BY <2>1 DEF Waiting
  <2>2. CASE sys' = [sys EXCEPT !.pc = "clear"]
    BY <1>1, <2>2 DEF TypeInv, SysType, Syss
  <2>3. CASE sys' = [sys EXCEPT !.pc = "compare", !.seen = pend.id]
    BY <1>1, <2>3 DEF TypeInv, SysType, Syss
  <2> QED BY <1>2, <2>1, <2>2, <2>3
<1>4. PendShape'
  BY <1>1, <1>3 DEF SafeInv, PendShape
<1>5. SysShape'
  BY <1>3 DEF SysShape
<1>6. TaintedOut'
  BY <1>1, <1>3 DEF SafeInv, TaintedOut, Tainted, Content
<1> QED
  BY <1>1, <1>4, <1>5, <1>6
     DEF SafeInv, SessionShape, Compared, StreamSafe, Content, ReturnedWasApproved

LEMMA CompareResultSafe ==
    ASSUME TypeInv, SafeInv, CompareResult PROVE SafeInv'
<1>1. PendShape'
  BY DEF CompareResult, TypeInv, SafeInv, PendShape, SysType, Syss, CountsType, Waiting
<1>2. SysShape'
  BY DEF CompareResult, TypeInv, SafeInv, SysShape, SysType, Syss, Waiting
<1>3. TaintedOut'
  BY DEF CompareResult, TypeInv, SafeInv, TaintedOut, Tainted, Content, SysType, Syss,
         Waiting
<1> QED
  BY <1>1, <1>2, <1>3
     DEF CompareResult, SafeInv, SessionShape, Compared, StreamSafe, Content,
         ReturnedWasApproved

LEMMA CollectSafe ==
    ASSUME TypeInv, SafeInv, Collect PROVE SafeInv'
<1>1. PendShape'
  BY DEF Collect, TypeInv, SafeInv, PendShape, SysType, Syss, CountsType, Waiting
<1>2. SysShape'
  BY DEF Collect, TypeInv, SafeInv, SysShape, SysType, Syss, Waiting
<1>3. TaintedOut'
  BY DEF Collect, TypeInv, SafeInv, TaintedOut, Tainted, Content, SysType, Syss, Waiting
<1>4. ReturnedWasApproved'
  BY DEF Collect, SafeInv, ReturnedWasApproved, SysShape, TaintedOut, Tainted
<1> QED
  BY <1>1, <1>2, <1>3, <1>4
     DEF Collect, SafeInv, SessionShape, Compared, StreamSafe, Content

LEMMA ClearResultSafe ==
    ASSUME TypeInv, SafeInv, ClearResult PROVE SafeInv'
<1>1. PendShape'
  BY DEF ClearResult, TypeInv, PendShape, CountsType, NoPending
<1>2. SysShape'
  BY DEF ClearResult, TypeInv, SafeInv, SysShape, SysType, Syss, NoPending
<1>3. TaintedOut'
  BY DEF ClearResult, SafeInv, TaintedOut, Tainted, Content, NoPending
<1>4. Compared'
  BY DEF ClearResult, TypeInv, SafeInv, Compared, PendType, Pendings, NoPending
<1> QED
  BY <1>1, <1>2, <1>3, <1>4
     DEF ClearResult, SafeInv, SessionShape, StreamSafe, Content, ReturnedWasApproved

LEMMA ResetResultSafe ==
    ASSUME TypeInv, SafeInv, ResetResult PROVE SafeInv'
<1>1. SessionShape'
  BY DEF ResetResult, TypeInv, SessionShape, CountsType, NoSession, Blank
<1>2. PendShape'
  BY DEF ResetResult, SafeInv, PendShape, NoSession, Waiting
<1>3. SysShape'
  BY DEF ResetResult, TypeInv, SafeInv, SysShape, SysType, Syss, NoSession, Waiting
<1>4. TaintedOut'
  BY DEF ResetResult, TaintedOut, Tainted, NoSession
<1>5. StreamSafe'
  BY DEF ResetResult, StreamSafe, NoSession
<1> QED
  BY <1>1, <1>2, <1>3, <1>4, <1>5 DEF ResetResult, SafeInv, Compared, ReturnedWasApproved

LEMMA ApproveActionSafe ==
    ASSUME SafeInv, ApproveAction PROVE SafeInv'
BY SafeFrame DEF ApproveAction

LEMMA CancelActionSafe ==
    ASSUME SafeInv, CancelAction PROVE SafeInv'
BY SafeFrame DEF CancelAction

LEMMA PageConfirmedSafe ==
    ASSUME TypeInv, SafeInv, PageConfirmed PROVE SafeInv'
<1>1. PendShape'
  BY DEF PageConfirmed, TypeInv, SafeInv, PendShape, PendType, Pendings, CountsType
<1>2. TaintedOut'
  BY DEF PageConfirmed, TypeInv, SafeInv, TaintedOut, Tainted, Content, PendType, Pendings
<1>3. Compared'
  BY DEF PageConfirmed, TypeInv, SafeInv, Compared, PendType, Pendings
<1> QED
  BY <1>1, <1>2, <1>3
     DEF PageConfirmed, SafeInv, SessionShape, SysShape, StreamSafe, Content,
         ReturnedWasApproved

LEMMA LeaveFlowSafe ==
    ASSUME SafeInv, LeaveFlow PROVE SafeInv'
BY SafeFrame DEF LeaveFlow

LEMMA display_controller_handle_ui_eventSafe ==
    ASSUME SafeInv, display_controller_handle_ui_event PROVE SafeInv'
BY SafeFrame DEF display_controller_handle_ui_event

LEMMA confirmation_manager_approveSafe ==
    ASSUME TypeInv, SafeInv, confirmation_manager_approve PROVE SafeInv'
<1>1. PendShape'
  BY DEF confirmation_manager_approve, TypeInv, SafeInv, PendShape, PendType, Pendings,
         CountsType
<1>2. SysShape'
  BY DEF confirmation_manager_approve, TypeInv, SafeInv, SysShape
<1>3. TaintedOut'
  BY DEF confirmation_manager_approve, TypeInv, SafeInv, TaintedOut, Tainted, Content,
         PendType, Pendings
<1>4. Compared'
  BY DEF confirmation_manager_approve, TypeInv, SafeInv, Compared, PendType, Pendings
<1>5. StreamSafe'
  BY DEF confirmation_manager_approve, TypeInv, SafeInv, StreamSafe, Content
<1>6. ReturnedWasApproved'
  BY DEF confirmation_manager_approve, TypeInv, SafeInv, ReturnedWasApproved
<1> QED
  BY <1>1, <1>2, <1>3, <1>4, <1>5, <1>6
     DEF confirmation_manager_approve, SafeInv, SessionShape

LEMMA ExpireTickSafe ==
    ASSUME SafeInv, ExpireTick PROVE SafeInv'
BY SafeFrame DEF ExpireTick

LEMMA ClearFlowSafe ==
    ASSUME TypeInv, SafeInv, ClearFlow PROVE SafeInv'
<1>1. PendShape'
  BY DEF ClearFlow, TypeInv, SafeInv, PendShape, PendType, Pendings, CountsType, NoPending
<1>2. TaintedOut'
  BY DEF ClearFlow, SafeInv, TaintedOut, Tainted, Content, NoPending
<1>3. Compared'
  BY DEF ClearFlow, TypeInv, SafeInv, Compared, PendType, Pendings, NoPending
<1> QED
  BY <1>1, <1>2, <1>3
     DEF ClearFlow, SafeInv, SessionShape, SysShape, StreamSafe, Content,
         ReturnedWasApproved

LEMMA TimePassesSafe ==
    ASSUME TypeInv, SafeInv, TimePasses PROVE SafeInv'
<1>1. PendShape'
  BY DEF TimePasses, TypeInv, SafeInv, PendShape, PendType, Pendings, CountsType
<1>2. TaintedOut'
  BY DEF TimePasses, TypeInv, SafeInv, TaintedOut, Tainted, Content, PendType, Pendings
<1>3. Compared'
  BY DEF TimePasses, TypeInv, SafeInv, Compared, PendType, Pendings
<1> QED
  BY <1>1, <1>2, <1>3
     DEF TimePasses, SafeInv, SessionShape, SysShape, StreamSafe, Content,
         ReturnedWasApproved

LEMMA FlashDecaysSafe ==
    ASSUME TypeInv, SafeInv, FlashDecays PROVE SafeInv'
<1>1. SessionShape'
  BY DEF FlashDecays, TypeInv, SafeInv, SessionShape, SessionType, Sessions, CountsType,
         Free
<1>2. PendShape'
  BY DEF FlashDecays, TypeInv, SafeInv, PendShape, SessionType, Sessions, CountsType, Free
<1>3. /\ faults.late \in Nat /\ faults'.late \in {faults.late, faults.late + 1}
      /\ km.pc = "sign" \/ session.state = "confirmed" => faults'.late = faults.late + 1
  BY DEF FlashDecays, TypeInv, CountsType
<1>4. /\ Allowed \subseteq Allowed'
      /\ km.pc = "sign" \/ session.state = "confirmed" => Decayed \in Allowed'
  BY <1>3 DEF FlashDecays, Decayed
<1>5. /\ session'.sigs = session.sigs /\ session'.tx = session.tx /\ session'.state = session.state
      /\ session' \in Sessions /\ session'.kind = "stream" /\ session'.flash = Decayed
      /\ UNCHANGED <<pend, km, sys, approved, returned>>
  BY ContentsFacts DEF FlashDecays, TypeInv, SessionType, Sessions
<1>6. Content' = Decayed
  BY <1>5 DEF Content
<1> HIDE DEF Allowed
<1>7. TaintedOut'
  BY <1>4, <1>5, <1>6 DEF SafeInv, TaintedOut, Tainted
<1>8. StreamSafe'
  BY <1>4, <1>5, <1>6 DEF SafeInv, StreamSafe
<1> QED
  BY <1>1, <1>2, <1>4, <1>5, <1>7, <1>8 DEF SafeInv, SysShape, Compared, ReturnedWasApproved

-----------------------------------------------------------------------------
(* The system as a whole *)
LEMMA RequestType ==
    ASSUME TypeInv, NEW kind \in Kinds, Request(kind) PROVE TypeInv'
<1>1. PendType' /\ KmType'
  BY NoPendingType DEF Request, PendType, NoPending, KmType, Kms
<1> QED
  BY <1>1
     DEF Request, TypeInv, SessionType, SysType, UiType, EventsType, CountsType,
         HistoryType

LEMMA RequestSafe ==
    ASSUME TypeInv, SafeInv, NEW kind \in Kinds, Request(kind) PROVE SafeInv'
<1>1. pend' = NoPending /\ km'.pc = "begin" /\ UNCHANGED <<session, sys, reqs, approved, returned, faults>>
  BY DEF Request
<1>2. SessionShape'
  BY <1>1 DEF SafeInv, SessionShape
<1>3. PendShape'
  BY <1>1 DEF PendShape, NoPending, TypeInv, CountsType
<1>4. TaintedOut' /\ Compared' /\ StreamSafe'
  BY <1>1 DEF SafeInv, TaintedOut, Tainted, Compared, StreamSafe, Content, NoPending
<1> QED BY <1>1, <1>2, <1>3, <1>4 DEF SafeInv, SysShape, ReturnedWasApproved

LEMMA DispatchType ==
    ASSUME TypeInv, NEW id \in Requests, confirmation_manager_dispatch_result(id)
    PROVE  TypeInv'
<1>1. asked' \in {asked, 0} /\ UNCHANGED <<reqs, deferred, faults>>
  BY DEF confirmation_manager_dispatch_result
<1>2. CountsType'
  BY <1>1 DEF TypeInv, CountsType
<1>3. SysType'
  <2>1. CASE UNCHANGED sys
    BY <2>1 DEF TypeInv, SysType
  <2>2. CASE sys' = [pc |-> "validate", type |-> pend.type, id |-> id, seen |-> 0,
                     late |-> id \in rejected]
    <3>1. pend.type \in {"none"} \cup Types /\ id \in 0 .. MaxRequests /\ 0 \in Contents
      BY ContentsFacts DEF TypeInv, PendType, Pendings, Blank
    <3>2. (id \in rejected) \in BOOLEAN
      OBVIOUS
    <3> QED BY <2>2, <3>1, <3>2 DEF SysType, Syss
  <2> QED BY <2>1, <2>2 DEF confirmation_manager_dispatch_result
<1> QED
  BY <1>2, <1>3
     DEF confirmation_manager_dispatch_result, TypeInv, PendType, SessionType, KmType,
         UiType, EventsType, HistoryType

LEMMA DispatchSafe ==
    ASSUME TypeInv, SafeInv, NEW id \in Requests, confirmation_manager_dispatch_result(id)
    PROVE  SafeInv'
<1>1. UNCHANGED <<pend, session, km, reqs, approved, returned, faults>> /\ sys.pc = "idle"
  BY DEF confirmation_manager_dispatch_result
<1>2. \/ UNCHANGED sys
      \/ sys'.pc = "validate" /\ sys'.type = pend.type /\ pend.type # "none"
  BY DEF confirmation_manager_dispatch_result
<1>3. PendShape' /\ SysShape'
  BY <1>1, <1>2 DEF SafeInv, PendShape, SysShape
<1>4. TaintedOut'
  BY <1>1, <1>2 DEF SafeInv, TaintedOut, Tainted, Content
<1> QED
  BY <1>1, <1>3, <1>4
     DEF SafeInv, SessionShape, Compared, StreamSafe, Content, ReturnedWasApproved

LEMMA InitType == Init => TypeInv
<1> SUFFICES ASSUME Init PROVE TypeInv
  OBVIOUS
<1>1. PendType /\ SessionType /\ SysType
  BY NoPendingType, NoSessionType, WaitingType
     DEF Init, PendType, NoPending, SessionType, SysType
<1>2. KmType /\ UiType /\ EventsType
  BY DEF Init, KmType, Kms, Free, UiType, Uis, NoFlow, EventsType
<1>3. CountsType /\ HistoryType
  BY DEF Init, CountsType, HistoryType
<1> QED BY <1>1, <1>2, <1>3 DEF TypeInv

LEMMA InitSafe == Init => SafeInv
BY DEF Init, SafeInv, SessionShape, PendShape, SysShape, TaintedOut, Compared,
       StreamSafe, ReturnedWasApproved, NoPending, NoSession, Waiting, Blank

LEMMA NextType == TypeInv /\ [Next]_vars => TypeInv'
<1> SUFFICES ASSUME TypeInv, [Next]_vars PROVE TypeInv'
  OBVIOUS
<1>1. ASSUME NEW kind \in Kinds, Request(kind) PROVE TypeInv'
  BY <1>1, RequestType
<1>2. ASSUME NEW id \in Requests, confirmation_manager_dispatch_result(id) PROVE TypeInv'
  BY <1>2, DispatchType
<1>3. CASE KmStep
  BY <1>3, BeginType, RequestConfirmationType, DeferredType, IfApprovedType,
     CompareDeferredType, SignType, ClearStreamType, ResetStreamType
     DEF KmStep
<1>4. CASE SysStep
  BY <1>4, ValidateType, WipeType, SapResultType, SignResultType, CompareResultType,
     CollectType, ClearResultType, ResetResultType
     DEF SysStep
<1>5. CASE User
  BY <1>5, ApproveActionType, CancelActionType, PageConfirmedType, LeaveFlowType DEF User
<1>6. CASE UiStep
  BY <1>6, display_controller_handle_ui_eventType, confirmation_manager_approveType,
     ExpireTickType, ClearFlowType
     DEF UiStep
<1>7. CASE UNCHANGED vars
  BY <1>7
     DEF vars, TypeInv, PendType, SessionType, KmType, SysType, UiType, EventsType,
         CountsType, HistoryType
<1> QED
  BY <1>1, <1>2, <1>3, <1>4, <1>5, <1>6, <1>7,
     key_manager_task_handle_sign_stream_transferType,
     key_manager_task_handle_sign_stream_finalizeType,
     key_manager_task_handle_get_tx_signatureType,
     sysinfo_task_port_handle_wipe_stateType, TimePassesType, FlashDecaysType
     DEF Next

LEMMA NextSafe == TypeInv /\ SafeInv /\ [Next]_vars => SafeInv'
<1> SUFFICES ASSUME TypeInv, SafeInv, [Next]_vars PROVE SafeInv'
  OBVIOUS
<1>1. ASSUME NEW kind \in Kinds, Request(kind) PROVE SafeInv'
  BY <1>1, RequestSafe
<1>2. ASSUME NEW id \in Requests, confirmation_manager_dispatch_result(id) PROVE SafeInv'
  BY <1>2, DispatchSafe
<1>3. CASE KmStep
  BY <1>3, BeginSafe, RequestConfirmationSafe, DeferredSafe, IfApprovedSafe,
     CompareDeferredSafe, SignSafe, ClearStreamSafe, ResetStreamSafe
     DEF KmStep
<1>4. CASE SysStep
  BY <1>4, ValidateSafe, WipeSafe, SapResultSafe, SignResultSafe, CompareResultSafe,
     CollectSafe, ClearResultSafe, ResetResultSafe
     DEF SysStep
<1>5. CASE User
  BY <1>5, ApproveActionSafe, CancelActionSafe, PageConfirmedSafe, LeaveFlowSafe DEF User
<1>6. CASE UiStep
  BY <1>6, display_controller_handle_ui_eventSafe, confirmation_manager_approveSafe,
     ExpireTickSafe, ClearFlowSafe
     DEF UiStep
<1>7. CASE UNCHANGED vars
  BY <1>7
     DEF vars, SafeInv, SessionShape, PendShape, SysShape, TaintedOut, Tainted, Content,
         Compared, StreamSafe, ReturnedWasApproved
<1> QED
  BY <1>1, <1>2, <1>3, <1>4, <1>5, <1>6, <1>7,
     key_manager_task_handle_sign_stream_transferSafe,
     key_manager_task_handle_sign_stream_finalizeSafe,
     key_manager_task_handle_get_tx_signatureSafe,
     sysinfo_task_port_handle_wipe_stateSafe, TimePassesSafe, FlashDecaysSafe
     DEF Next

LEMMA TypeInvImplies == TypeInv => TypeOK
<1> SUFFICES ASSUME TypeInv PROVE TypeOK
  OBVIOUS
<1>1. pend = NoPending \/ pend \in [type : Types, id : Requests, approved : BOOLEAN, old : BOOLEAN]
  BY DEF TypeInv, PendType, Pendings, Requests
<1>2. session \in [kind : {"none"} \cup Kinds, state : {"idle", "receiving", "finalized", "confirmed"},
                    tx : Contents, flash : Contents, sigs : {None} \cup Contents, failed : BOOLEAN]
  BY ContentsFacts DEF TypeInv, SessionType, Sessions
<1>3. km \in Kms /\ sys \in Syss /\ ui \in Uis /\ events \in Seq(Events)
  BY DEF TypeInv, KmType, SysType, UiType, EventsType
<1> QED BY <1>1, <1>2, <1>3
           DEF TypeInv, CountsType, HistoryType, TypeOK, Kms, Syss, Uis, Events

\* Every variable keeps its type, whichever task runs between the steps of
\* another.
THEOREM TypeCorrect == Spec => []TypeOK
<1>1. Spec => []TypeInv
  BY InitType, NextType, PTL DEF Spec
<1> QED BY <1>1, TypeInvImplies, PTL

\* The app gets signatures only of what was pending when an approval was handled,
\* as it was confirmed, and only such a wipe is carried out, although the tasks
\* share one confirmation and one session and look at them several times without
\* a lock (confirmation_manager.c, key_manager_task_port.c).  A payload that
\* decayed after it was compared is the one exception.
THEOREM SignedOnlyWhatWasApproved == Spec => []ReturnedWasApproved
<1>1. Spec => [](TypeInv /\ SafeInv)
  BY InitType, InitSafe, NextType, NextSafe, PTL DEF Spec
<1>2. SafeInv => ReturnedWasApproved
  BY DEF SafeInv
<1> QED BY <1>1, <1>2, PTL

-----------------------------------------------------------------------------
(* What was rejected *)
\* The session is of a request that no screen was asked to show yet.
Unasked == (km.pc = "create" \/ session.state = "receiving") /\ session.tx # Blank

\* Nobody knows the number of such a request.
NewIsNew ==
    /\ Unasked =>
         /\ \A i \in 1 .. Len(events) : events[i].id # session.tx
         /\ session.tx # ui.id /\ session.tx \notin rejected /\ session.tx # pend.id
    /\ km.pc = "create" => session.state # "receiving"

\* Every number is of a request that was made.
Numbered ==
    /\ \A i \in 1 .. Len(events) : events[i].id <= reqs
    /\ ui.id <= reqs
    /\ \A r \in rejected : r <= reqs

\* A confirmation is shown on the screen of its own type, so that what the user
\* rejects there is cleared if it is pending.
ShownAsAsked ==
    pend.type # "none" =>
        /\ \A i \in 1 .. Len(events) :
              events[i].id = pend.id => events[i].flow = FlowOf(pend.type)
        /\ ui.id = pend.id => ui.flow = FlowOf(pend.type)

\* A rejected request is not pending, and never again will be.
RejectedNotPending == pend.type # "none" => pend.id \notin rejected

\* A result that is asked for after the rejection gets no further than the
\* checks of confirmation_manager_validate.
LateIsRejected == sys.late => sys.id \in rejected /\ sys.pc \in {"validate", "clear", "reset"}

RejectInv == NewIsNew /\ Numbered /\ ShownAsAsked /\ RejectedNotPending /\ LateIsRejected

\* What is not among the events is not among those that are left.
LEMMA TailEvents ==
    ASSUME EventsType, events # << >>, events' = Tail(events)
    PROVE  /\ \A i \in 1 .. Len(events') : i + 1 \in 1 .. Len(events) /\ events'[i] = events[i + 1]
           /\ 1 \in 1 .. Len(events) /\ Head(events) = events[1]
BY DEF EventsType

LEMMA AppendEvents ==
    ASSUME EventsType, NEW e \in Events, events' = Append(events, e)
    PROVE  \A i \in 1 .. Len(events') :
              events'[i] = e \/ (i \in 1 .. Len(events) /\ events'[i] = events[i])
BY DEF EventsType

LEMMA NumberTypes ==
    ASSUME TypeInv
    PROVE  /\ \A i \in 1 .. Len(events) : events[i].id \in Nat
           /\ ui.id \in Nat /\ pend.id \in Nat /\ session.tx \in Nat /\ reqs \in Nat
           /\ \A r \in rejected : r \in Nat
           /\ pend.type # "none" => pend.id # 0
<1>1. \A i \in 1 .. Len(events) : events[i] \in Events
  BY DEF TypeInv, EventsType
<1>2. \A i \in 1 .. Len(events) : events[i].id \in Nat
  BY <1>1 DEF Events, Requests
<1>3. ui.id \in Nat
  BY DEF TypeInv, UiType, Uis
<1>4. pend.id \in Nat /\ (pend.type # "none" => pend.id # 0)
  BY DEF TypeInv, PendType, Pendings
<1>5. session.tx \in Nat
  BY SessionFields DEF TypeInv, SessionType
<1>6. reqs \in Nat /\ \A r \in rejected : r \in Nat
  BY DEF TypeInv, CountsType, HistoryType, Requests
<1> QED BY <1>2, <1>3, <1>4, <1>5, <1>6

\* A step that leaves alone what RejectInv is about.
LEMMA RejectFrame ==
    ASSUME RejectInv, UNCHANGED <<pend, session, km, sys, ui, events, reqs, rejected>>
    PROVE  RejectInv'
BY DEF RejectInv, NewIsNew, Unasked, Numbered, ShownAsAsked, RejectedNotPending,
       LateIsRejected

LEMMA BeginRejects ==
    ASSUME TypeInv, SafeInv, RejectInv, Begin PROVE RejectInv'
<1>1. UNCHANGED <<pend, sys, ui, events, rejected>> /\ reqs \in Nat /\ reqs' \in Nat /\ reqs <= reqs'
  BY DEF Begin, TypeInv, CountsType
<1>3. Numbered'
  BY <1>1, NumberTypes DEF RejectInv, Numbered
<1>4. NewIsNew'
  <2>1. CASE session' = NoSession /\ km' = Free
    BY <2>1 DEF NewIsNew, Unasked, NoSession, Free
  <2>2. CASE /\ reqs' = reqs + 1
             /\ session' = [NoSession EXCEPT !.kind = km.kind, !.tx = reqs + 1,
                               !.state = IF km.kind = "stream" THEN "receiving" ELSE "idle"]
             /\ IF km.kind = "stream" THEN km' = Free ELSE GotoKm("create")
    <3>1. session'.tx = reqs + 1
      BY <2>2 DEF NoSession
    <3>2. km'.pc = "create" => session'.state # "receiving"
      BY <2>2 DEF NoSession, Free, TypeInv, KmType, Kms
    <3>3. pend.id <= reqs
      BY DEF SafeInv, PendShape
    <3> QED BY <1>1, <3>1, <3>2, <3>3, NumberTypes DEF RejectInv, Numbered, NewIsNew
  <2> QED BY <2>1, <2>2 DEF Begin
<1> QED
  BY <1>1, <1>3, <1>4 DEF RejectInv, ShownAsAsked, RejectedNotPending, LateIsRejected

LEMMA RequestConfirmationRejects ==
    ASSUME TypeInv, SafeInv, RejectInv, RequestConfirmation PROVE RejectInv'
<1>1. km'.pc = "idle" /\ UNCHANGED <<sys, ui, reqs, rejected>>
  BY DEF RequestConfirmation, Free
<1>2. NewIsNew'
  BY <1>1 DEF RequestConfirmation, RejectInv, NewIsNew, Unasked, NoSession
<1>3. CASE UNCHANGED events /\ (pend' = pend \/ pend' = NoPending)
  BY <1>1, <1>2, <1>3
     DEF RejectInv, Numbered, ShownAsAsked, RejectedNotPending, LateIsRejected,
         NoPending
<1>4. CASE /\ session.tx # Blank
           /\ confirmation_manager_create(TypeOf(km.kind), session.tx)
           /\ events' = Append(events, [flow |-> FlowOf(TypeOf(km.kind)), id |-> session.tx])
  <2> DEFINE e == [flow |-> FlowOf(TypeOf(km.kind)), id |-> session.tx]
  <2>1. e \in Events /\ session.tx <= reqs
    BY <1>4, SessionFields
       DEF Events, FlowOf, Requests, Blank, TypeInv, SessionType, SafeInv, SessionShape
  <2>2. Unasked
    BY <1>4 DEF RequestConfirmation, Unasked
  <2>3. pend'.type = TypeOf(km.kind) /\ pend'.id = session.tx
    BY <1>4
  <2>4. \A i \in 1 .. Len(events') :
            events'[i] = e \/ (i \in 1 .. Len(events) /\ events'[i] = events[i])
    BY <1>4, <2>1, AppendEvents DEF TypeInv
  <2>5. Numbered'
    BY <1>1, <2>1, <2>4 DEF RejectInv, Numbered
  <2>6. ShownAsAsked'
    BY <1>1, <2>2, <2>3, <2>4 DEF RejectInv, NewIsNew, ShownAsAsked
  <2>7. RejectedNotPending'
    BY <1>1, <2>2, <2>3 DEF RejectInv, NewIsNew, RejectedNotPending
  <2> QED BY <1>1, <1>2, <2>5, <2>6, <2>7 DEF RejectInv, LateIsRejected
<1> QED BY <1>3, <1>4 DEF RequestConfirmation

LEMMA DeferredRejects ==
    ASSUME TypeInv, SafeInv, RejectInv, Deferred PROVE RejectInv'
<1>1. NewIsNew'
  BY DEF Deferred, TypeInv, RejectInv, NewIsNew, Unasked, KmType, Kms, Free
<1> QED
  BY <1>1
     DEF Deferred, RejectInv, Numbered, ShownAsAsked, RejectedNotPending, LateIsRejected

LEMMA IfApprovedRejects ==
    ASSUME TypeInv, SafeInv, RejectInv, IfApproved PROVE RejectInv'
<1>1. NewIsNew'
  BY DEF IfApproved, TypeInv, RejectInv, NewIsNew, Unasked, KmType, Kms, Free
<1> QED
  BY <1>1
     DEF IfApproved, RejectInv, Numbered, ShownAsAsked, RejectedNotPending,
         LateIsRejected

LEMMA CompareDeferredRejects ==
    ASSUME TypeInv, SafeInv, RejectInv, CompareDeferred PROVE RejectInv'
<1>1. NewIsNew'
  BY DEF CompareDeferred, TypeInv, RejectInv, NewIsNew, Unasked, SessionType, Sessions,
         KmType, Kms, Free
<1> QED
  BY <1>1
     DEF CompareDeferred, RejectInv, Numbered, ShownAsAsked, RejectedNotPending,
         LateIsRejected

LEMMA SignRejects ==
    ASSUME TypeInv, SafeInv, RejectInv, Sign PROVE RejectInv'
<1>1. NewIsNew'
  BY DEF Sign, RejectInv, NewIsNew, Unasked, Free
<1> QED
  BY <1>1 DEF Sign, RejectInv, Numbered, ShownAsAsked, RejectedNotPending, LateIsRejected

LEMMA ClearStreamRejects ==
    ASSUME TypeInv, SafeInv, RejectInv, ClearStream PROVE RejectInv'
<1>1. NewIsNew'
  BY DEF ClearStream, RejectInv, NewIsNew, Unasked, NoPending, Blank
<1>2. ShownAsAsked'
  BY DEF ClearStream, TypeInv, RejectInv, ShownAsAsked, PendType, Pendings, NoPending
<1>3. RejectedNotPending'
  BY DEF ClearStream, TypeInv, RejectInv, RejectedNotPending, PendType, Pendings, NoPending
<1> QED
  BY <1>1, <1>2, <1>3 DEF ClearStream, RejectInv, Numbered, LateIsRejected

LEMMA ResetStreamRejects ==
    ASSUME TypeInv, SafeInv, RejectInv, ResetStream PROVE RejectInv'
<1>1. NewIsNew'
  BY DEF ResetStream, NewIsNew, Unasked, NoSession
<1> QED
  BY <1>1
     DEF ResetStream, RejectInv, Numbered, ShownAsAsked, RejectedNotPending,
         LateIsRejected

LEMMA key_manager_task_handle_sign_stream_transferRejects ==
    ASSUME TypeInv, SafeInv, RejectInv, key_manager_task_handle_sign_stream_transfer PROVE RejectInv'
<1>1. NewIsNew'
  BY DEF key_manager_task_handle_sign_stream_transfer, TypeInv, RejectInv, NewIsNew,
         Unasked, SessionType, Sessions, NoSession
<1> QED
  BY <1>1
     DEF key_manager_task_handle_sign_stream_transfer, RejectInv, Numbered,
         ShownAsAsked, RejectedNotPending, LateIsRejected

LEMMA key_manager_task_handle_sign_stream_finalizeRejects ==
    ASSUME TypeInv, SafeInv, RejectInv, key_manager_task_handle_sign_stream_finalize PROVE RejectInv'
<1>1. UNCHANGED <<pend, sys, ui, events, reqs, rejected>>
  BY DEF key_manager_task_handle_sign_stream_finalize
<1>2. NewIsNew'
  <2>1. CASE session' = NoSession /\ UNCHANGED km
    BY <2>1 DEF NewIsNew, Unasked, NoSession
  <2>2. CASE /\ session.kind = "stream"
             /\ session' = [session EXCEPT !.state = "finalized"]
    <3>1. session'.tx = session.tx /\ session'.state = "finalized"
      BY <2>2 DEF TypeInv, SessionType, Sessions
    <3>2. session.state = "receiving"
      BY <2>2 DEF key_manager_task_handle_sign_stream_finalize, Receiving
    <3> QED BY <1>1, <3>1, <3>2 DEF RejectInv, NewIsNew, Unasked
  <2> QED BY <2>1, <2>2 DEF key_manager_task_handle_sign_stream_finalize, NoSession
<1> QED BY <1>1, <1>2
           DEF RejectInv, Numbered, ShownAsAsked, RejectedNotPending, LateIsRejected

LEMMA key_manager_task_handle_get_tx_signatureRejects ==
    ASSUME TypeInv, SafeInv, RejectInv, key_manager_task_handle_get_tx_signature PROVE RejectInv'
<1>1. NewIsNew'
  BY DEF key_manager_task_handle_get_tx_signature, TypeInv, RejectInv, NewIsNew,
         Unasked, SessionType, Sessions, NoSession
<1> QED
  BY <1>1
     DEF key_manager_task_handle_get_tx_signature, RejectInv, Numbered, ShownAsAsked,
         RejectedNotPending, LateIsRejected

LEMMA sysinfo_task_port_handle_wipe_stateRejects ==
    ASSUME TypeInv, SafeInv, RejectInv, sysinfo_task_port_handle_wipe_state PROVE RejectInv'
<1>1. /\ UNCHANGED <<session, km, sys, ui, rejected>> /\ reqs' = reqs + 1
      /\ reqs \in Nat /\ reqs + 1 \in Requests
      /\ pend'.type = "wipe" /\ pend'.id = reqs + 1
  BY DEF sysinfo_task_port_handle_wipe_state, TypeInv, CountsType, Requests
<1> DEFINE e == [flow |-> "privileged", id |-> reqs + 1]
<1>2. \A i \in 1 .. Len(events') :
          events'[i] = e \/ (i \in 1 .. Len(events) /\ events'[i] = events[i])
  BY <1>1, AppendEvents DEF sysinfo_task_port_handle_wipe_state, TypeInv, Events
<1>3. \A i \in 1 .. Len(events) : events[i].id \in Nat /\ events[i].id <= reqs
  BY NumberTypes DEF RejectInv, Numbered
<1>4. /\ ui.id \in Nat /\ ui.id <= reqs /\ session.tx \in Nat /\ session.tx <= reqs
      /\ \A r \in rejected : r \in Nat /\ r <= reqs
  BY NumberTypes DEF RejectInv, Numbered, SafeInv, SessionShape
<1>5. NewIsNew'
  BY <1>1, <1>2, <1>4 DEF RejectInv, NewIsNew, Unasked
<1>6. Numbered'
  BY <1>1, <1>2, <1>3, <1>4, SMTT(60) DEF Numbered
<1>7. ShownAsAsked' /\ RejectedNotPending'
  BY <1>1, <1>2, <1>3, <1>4 DEF ShownAsAsked, RejectedNotPending, FlowOf
<1> QED BY <1>1, <1>5, <1>6, <1>7 DEF RejectInv, LateIsRejected

LEMMA ValidateRejects ==
    ASSUME TypeInv, SafeInv, RejectInv, Validate PROVE RejectInv'
<1>1. UNCHANGED <<session, km, ui, events, reqs, rejected>> /\ sys.pc = "validate"
  BY DEF Validate
<1>2. pend' = pend \/ pend' = NoPending
  BY DEF Validate
<1>3. LateIsRejected'
  <2>1. sys.late => ~(pend.type # "none" /\ pend.id = sys.id)
    BY DEF RejectInv, LateIsRejected, RejectedNotPending
  <2>2. \/ sys' = Waiting
        \/ sys' = [sys EXCEPT !.pc = "clear"]
        \/ /\ sys' = [sys EXCEPT !.pc = "result", !.seen = pend.id]
           /\ pend.type # "none" /\ pend.id = sys.id
    BY DEF Validate, confirmation_manager_validate
  <2>3. sys \in Syss
    BY DEF TypeInv, SysType
  <2>4. CASE sys' = Waiting
    BY <2>4 DEF LateIsRejected, Waiting
  <2>5. CASE sys' = [sys EXCEPT !.pc = "clear"]
    BY <1>1, <2>3, <2>5 DEF RejectInv, LateIsRejected, Syss
  <2>6. CASE /\ sys' = [sys EXCEPT !.pc = "result", !.seen = pend.id]
             /\ pend.type # "none" /\ pend.id = sys.id
    BY <2>1, <2>3, <2>6 DEF LateIsRejected, Syss
  <2> QED BY <2>2, <2>4, <2>5, <2>6
<1>4. CASE pend' = pend
  BY <1>1, <1>3, <1>4
     DEF RejectInv, NewIsNew, Unasked, Numbered, ShownAsAsked, RejectedNotPending
<1>5. CASE pend' = NoPending
  BY <1>1, <1>3, <1>5
     DEF RejectInv, NewIsNew, Unasked, Numbered, ShownAsAsked, RejectedNotPending,
         NoPending, Blank
<1> QED BY <1>2, <1>4, <1>5

LEMMA WipeRejects ==
    ASSUME TypeInv, SafeInv, RejectInv, Wipe PROVE RejectInv'
<1>1. NewIsNew'
  BY DEF Wipe, NewIsNew, Unasked, NoSession
<1>2. Numbered'
  BY DEF Wipe, TypeInv, RejectInv, Numbered, NoFlow, CountsType
<1>3. ShownAsAsked'
  BY DEF Wipe, ShownAsAsked, NoPending
<1>4. RejectedNotPending'
  BY DEF Wipe, RejectedNotPending, NoPending
<1>5. LateIsRejected'
  BY DEF Wipe, LateIsRejected, Waiting
<1> QED
  BY <1>1, <1>2, <1>3, <1>4, <1>5 DEF Wipe, RejectInv

LEMMA SapResultRejects ==
    ASSUME TypeInv, SafeInv, RejectInv, SapResult PROVE RejectInv'
<1>1. LateIsRejected'
  BY DEF SapResult, TypeInv, RejectInv, LateIsRejected, SysType, Syss, Waiting
<1> QED
  BY <1>1
     DEF SapResult, RejectInv, NewIsNew, Unasked, Numbered, ShownAsAsked,
         RejectedNotPending

LEMMA SignResultRejects ==
    ASSUME TypeInv, SafeInv, RejectInv, SignResult PROVE RejectInv'
<1>1. UNCHANGED <<pend, session, km, ui, events, reqs, rejected>> /\ ~sys.late
  BY DEF SignResult, RejectInv, LateIsRejected
<1>2. \/ sys' = Waiting
      \/ sys' = [sys EXCEPT !.pc = "clear"]
      \/ sys' = [sys EXCEPT !.pc = "compare", !.seen = pend.id]
  BY DEF SignResult
<1>3. ~sys'.late
  <2>1. CASE sys' = Waiting
    BY <2>1 DEF Waiting
  <2>2. CASE sys' = [sys EXCEPT !.pc = "clear"]
    BY <1>1, <2>2 DEF TypeInv, SysType, Syss
  <2>3. CASE sys' = [sys EXCEPT !.pc = "compare", !.seen = pend.id]
    BY <1>1, <2>3 DEF TypeInv, SysType, Syss
  <2> QED BY <1>2, <2>1, <2>2, <2>3
<1> QED BY <1>1, <1>3
           DEF RejectInv, NewIsNew, Unasked, Numbered, ShownAsAsked, RejectedNotPending,
               LateIsRejected

LEMMA CompareResultRejects ==
    ASSUME TypeInv, SafeInv, RejectInv, CompareResult PROVE RejectInv'
<1>1. LateIsRejected'
  BY DEF CompareResult, TypeInv, RejectInv, LateIsRejected, SysType, Syss, Waiting
<1> QED
  BY <1>1
     DEF CompareResult, RejectInv, NewIsNew, Unasked, Numbered, ShownAsAsked,
         RejectedNotPending

LEMMA CollectRejects ==
    ASSUME TypeInv, SafeInv, RejectInv, Collect PROVE RejectInv'
<1>1. LateIsRejected'
  BY DEF Collect, TypeInv, RejectInv, LateIsRejected, SysType, Syss, Waiting
<1> QED
  BY <1>1
     DEF Collect, RejectInv, NewIsNew, Unasked, Numbered, ShownAsAsked,
         RejectedNotPending

LEMMA ClearResultRejects ==
    ASSUME TypeInv, SafeInv, RejectInv, ClearResult PROVE RejectInv'
<1>1. NewIsNew'
  BY DEF ClearResult, RejectInv, NewIsNew, Unasked, NoPending, Blank
<1>2. ShownAsAsked'
  BY DEF ClearResult, TypeInv, RejectInv, ShownAsAsked, PendType, Pendings, NoPending
<1>3. RejectedNotPending'
  BY DEF ClearResult, TypeInv, RejectInv, RejectedNotPending, PendType, Pendings, NoPending
<1>4. LateIsRejected'
  BY DEF ClearResult, TypeInv, RejectInv, LateIsRejected, SysType, Syss, NoPending
<1> QED
  BY <1>1, <1>2, <1>3, <1>4 DEF ClearResult, RejectInv, Numbered

LEMMA ResetResultRejects ==
    ASSUME TypeInv, SafeInv, RejectInv, ResetResult PROVE RejectInv'
<1>1. NewIsNew'
  BY DEF ResetResult, NewIsNew, Unasked, NoSession
<1>2. LateIsRejected'
  BY DEF ResetResult, TypeInv, RejectInv, LateIsRejected, SysType, Syss, NoSession, Waiting
<1> QED
  BY <1>1, <1>2 DEF ResetResult, RejectInv, Numbered, ShownAsAsked, RejectedNotPending

LEMMA ApproveActionRejects ==
    ASSUME TypeInv, SafeInv, RejectInv, ApproveAction PROVE RejectInv'
<1>1. UNCHANGED <<pend, session, km, sys, events, reqs, rejected>>
  BY DEF ApproveAction
<1>2. \/ ui'.id = ui.id /\ ui'.flow = ui.flow
      \/ ui'.id = 0
  BY DEF ApproveAction, NoFlow, TypeInv, UiType, Uis
<1>3. NewIsNew' /\ Numbered'
  BY <1>1, <1>2, NumberTypes DEF RejectInv, NewIsNew, Unasked, Numbered, Blank
<1>4. ShownAsAsked'
  BY <1>1, <1>2, NumberTypes DEF RejectInv, ShownAsAsked
<1> QED BY <1>1, <1>3, <1>4 DEF RejectInv, RejectedNotPending, LateIsRejected

LEMMA CancelActionRejects ==
    ASSUME TypeInv, SafeInv, RejectInv, CancelAction PROVE RejectInv'
<1>1. /\ UNCHANGED <<pend, session, km, sys, events, reqs>>
      /\ ui.flow # "none" /\ ui.id # 0 /\ ui.id \in Int /\ ui \in Uis /\ reqs \in Nat
  BY DEF CancelAction, TypeInv, UiType, Uis, CountsType
<1>2. CASE ui' = [ui EXCEPT !.pc = "clear"] /\ UNCHANGED rejected
  <2>1. ui'.id = ui.id /\ ui'.flow = ui.flow
    BY <1>1, <1>2 DEF Uis
  <2> QED BY <1>1, <1>2, <2>1
             DEF RejectInv, NewIsNew, Unasked, Numbered, ShownAsAsked,
                 RejectedNotPending, LateIsRejected
<1>3. CASE ui' = NoFlow /\ rejected' = rejected \cup {ui.id} /\ ~Concerned
  <2>1. pend.type # "none" => pend.id # ui.id /\ pend.id # 0
    BY <1>1, <1>3 DEF Concerned, RejectInv, ShownAsAsked, FlowOf, TypeInv, PendType, Uis
  <2>2. NewIsNew'
    BY <1>1, <1>3 DEF RejectInv, NewIsNew, Unasked, NoFlow, Blank
  <2>3. Numbered'
    BY <1>1, <1>3 DEF RejectInv, Numbered, NoFlow
  <2>4. ShownAsAsked' /\ RejectedNotPending'
    BY <1>1, <1>3, <2>1 DEF RejectInv, ShownAsAsked, RejectedNotPending, NoFlow
  <2> QED BY <1>1, <1>3, <2>2, <2>3, <2>4 DEF RejectInv, LateIsRejected
<1> QED BY <1>2, <1>3 DEF CancelAction

LEMMA PageConfirmedRejects ==
    ASSUME TypeInv, SafeInv, RejectInv, PageConfirmed PROVE RejectInv'
<1>1. NewIsNew'
  BY DEF PageConfirmed, TypeInv, RejectInv, NewIsNew, Unasked, PendType, Pendings
<1>2. ShownAsAsked'
  BY DEF PageConfirmed, TypeInv, RejectInv, ShownAsAsked, PendType, Pendings
<1>3. RejectedNotPending'
  BY DEF PageConfirmed, TypeInv, RejectInv, RejectedNotPending, PendType, Pendings
<1> QED
  BY <1>1, <1>2, <1>3 DEF PageConfirmed, RejectInv, Numbered, LateIsRejected

LEMMA LeaveFlowRejects ==
    ASSUME TypeInv, SafeInv, RejectInv, LeaveFlow PROVE RejectInv'
<1>1. UNCHANGED <<pend, session, km, sys, events, reqs, rejected>>
  BY DEF LeaveFlow
<1>2. \/ ui'.id = ui.id /\ ui'.flow = ui.flow
      \/ ui'.id = 0
  BY DEF LeaveFlow, NoFlow, TypeInv, UiType, Uis
<1>3. NewIsNew' /\ Numbered'
  BY <1>1, <1>2, NumberTypes DEF RejectInv, NewIsNew, Unasked, Numbered, Blank
<1>4. ShownAsAsked'
  BY <1>1, <1>2, NumberTypes DEF RejectInv, ShownAsAsked
<1> QED BY <1>1, <1>3, <1>4 DEF RejectInv, RejectedNotPending, LateIsRejected

LEMMA display_controller_handle_ui_eventRejects ==
    ASSUME TypeInv, SafeInv, RejectInv, display_controller_handle_ui_event PROVE RejectInv'
<1>1. /\ UNCHANGED <<pend, session, km, sys, reqs, rejected>>
      /\ events # << >> /\ events' = Tail(events) /\ EventsType
      /\ ui'.id = Head(events).id /\ ui'.flow = Head(events).flow
  BY DEF display_controller_handle_ui_event, TypeInv
<1>2. /\ \A i \in 1 .. Len(events') : i + 1 \in 1 .. Len(events) /\ events'[i] = events[i + 1]
      /\ 1 \in 1 .. Len(events) /\ Head(events) = events[1]
  BY <1>1, TailEvents
<1>3. NewIsNew'
  BY <1>1, <1>2 DEF RejectInv, NewIsNew, Unasked
<1>4. Numbered'
  BY <1>1, <1>2 DEF RejectInv, Numbered
<1>5. ShownAsAsked'
  BY <1>1, <1>2 DEF RejectInv, ShownAsAsked
<1> QED BY <1>1, <1>3, <1>4, <1>5 DEF RejectInv, RejectedNotPending, LateIsRejected

LEMMA confirmation_manager_approveRejects ==
    ASSUME TypeInv, SafeInv, RejectInv, confirmation_manager_approve PROVE RejectInv'
<1>1. NewIsNew'
  BY DEF confirmation_manager_approve, RejectInv, NewIsNew, Unasked
<1>2. Numbered'
  BY DEF confirmation_manager_approve, TypeInv, RejectInv, Numbered, UiType, Uis
<1>3. ShownAsAsked'
  BY DEF confirmation_manager_approve, TypeInv, RejectInv, ShownAsAsked, PendType,
         Pendings, UiType, Uis
<1>4. RejectedNotPending'
  BY DEF confirmation_manager_approve, TypeInv, RejectInv, RejectedNotPending, PendType,
         Pendings
<1> QED
  BY <1>1, <1>2, <1>3, <1>4 DEF confirmation_manager_approve, RejectInv, LateIsRejected

LEMMA ExpireTickRejects ==
    ASSUME TypeInv, SafeInv, RejectInv, ExpireTick PROVE RejectInv'
<1>1. NewIsNew'
  BY DEF ExpireTick, TypeInv, RejectInv, NewIsNew, Unasked, UiType, Uis
<1>2. Numbered'
  BY DEF ExpireTick, TypeInv, RejectInv, Numbered, UiType, Uis
<1>3. ShownAsAsked'
  BY DEF ExpireTick, TypeInv, RejectInv, ShownAsAsked, UiType, Uis
<1> QED
  BY <1>1, <1>2, <1>3 DEF ExpireTick, RejectInv, RejectedNotPending, LateIsRejected

LEMMA ClearFlowRejects ==
    ASSUME TypeInv, SafeInv, RejectInv, ClearFlow PROVE RejectInv'
<1>1. NewIsNew'
  BY DEF ClearFlow, RejectInv, NewIsNew, Unasked, NoFlow, NoPending, Blank
<1>2. Numbered'
  BY DEF ClearFlow, TypeInv, RejectInv, Numbered, NoFlow, CountsType
<1>3. ShownAsAsked'
  BY DEF ClearFlow, ShownAsAsked, NoPending
<1>4. RejectedNotPending'
  BY DEF ClearFlow, TypeInv, RejectInv, RejectedNotPending, PendType, Pendings, NoFlow,
         NoPending
<1>5. LateIsRejected'
  BY DEF ClearFlow, TypeInv, RejectInv, LateIsRejected, NoFlow, NoPending
<1> QED
  BY <1>1, <1>2, <1>3, <1>4, <1>5 DEF ClearFlow, RejectInv

LEMMA TimePassesRejects ==
    ASSUME TypeInv, SafeInv, RejectInv, TimePasses PROVE RejectInv'
<1>1. NewIsNew'
  BY DEF TimePasses, TypeInv, RejectInv, NewIsNew, Unasked, PendType, Pendings
<1>2. ShownAsAsked'
  BY DEF TimePasses, TypeInv, RejectInv, ShownAsAsked, PendType, Pendings
<1>3. RejectedNotPending'
  BY DEF TimePasses, TypeInv, RejectInv, RejectedNotPending, PendType, Pendings
<1> QED
  BY <1>1, <1>2, <1>3 DEF TimePasses, RejectInv, Numbered, LateIsRejected

LEMMA FlashDecaysRejects ==
    ASSUME TypeInv, SafeInv, RejectInv, FlashDecays PROVE RejectInv'
<1>1. NewIsNew'
  BY DEF FlashDecays, TypeInv, RejectInv, NewIsNew, Unasked, SessionType, Sessions, Free
<1> QED
  BY <1>1
     DEF FlashDecays, RejectInv, Numbered, ShownAsAsked, RejectedNotPending,
         LateIsRejected

LEMMA RequestRejects ==
    ASSUME TypeInv, SafeInv, RejectInv, NEW kind \in Kinds, Request(kind) PROVE RejectInv'
<1>1. /\ pend' = NoPending /\ km'.pc = "begin"
      /\ UNCHANGED <<session, sys, ui, events, reqs, rejected>>
  BY DEF Request
<1>2. NewIsNew'
  BY <1>1 DEF RejectInv, NewIsNew, Unasked, NoPending, Blank
<1> QED
  BY <1>1, <1>2
     DEF RejectInv, Numbered, ShownAsAsked, RejectedNotPending, LateIsRejected,
         NoPending

LEMMA DispatchRejects ==
    ASSUME TypeInv, SafeInv, RejectInv, NEW id \in Requests,
           confirmation_manager_dispatch_result(id)
    PROVE  RejectInv'
<1>1. UNCHANGED <<pend, session, km, ui, events, reqs, rejected>>
  BY DEF confirmation_manager_dispatch_result
<1>2. LateIsRejected'
  <2>1. CASE UNCHANGED sys
    BY <1>1, <2>1 DEF RejectInv, LateIsRejected
  <2>2. CASE sys' = [pc |-> "validate", type |-> pend.type, id |-> id, seen |-> 0,
                     late |-> id \in rejected]
    BY <1>1, <2>2 DEF LateIsRejected
  <2> QED BY <2>1, <2>2 DEF confirmation_manager_dispatch_result
<1> QED
  BY <1>1, <1>2 DEF RejectInv, NewIsNew, Unasked, Numbered, ShownAsAsked, RejectedNotPending

LEMMA InitRejects == Init => RejectInv
BY DEF Init, RejectInv, NewIsNew, Unasked, Numbered, ShownAsAsked, RejectedNotPending,
       LateIsRejected, NoPending, NoSession, Waiting, NoFlow

LEMMA NextRejects == TypeInv /\ SafeInv /\ RejectInv /\ [Next]_vars => RejectInv'
<1> SUFFICES ASSUME TypeInv, SafeInv, RejectInv, [Next]_vars PROVE RejectInv'
  OBVIOUS
<1>1. ASSUME NEW kind \in Kinds, Request(kind) PROVE RejectInv'
  BY <1>1, RequestRejects
<1>2. ASSUME NEW id \in Requests, confirmation_manager_dispatch_result(id) PROVE RejectInv'
  BY <1>2, DispatchRejects
<1>3. CASE KmStep
  BY <1>3, BeginRejects, RequestConfirmationRejects, DeferredRejects, IfApprovedRejects,
     CompareDeferredRejects, SignRejects, ClearStreamRejects, ResetStreamRejects
     DEF KmStep
<1>4. CASE SysStep
  BY <1>4, ValidateRejects, WipeRejects, SapResultRejects, SignResultRejects,
     CompareResultRejects, CollectRejects, ClearResultRejects, ResetResultRejects
     DEF SysStep
<1>5. CASE User
  BY <1>5, ApproveActionRejects, CancelActionRejects, PageConfirmedRejects,
     LeaveFlowRejects
     DEF User
<1>6. CASE UiStep
  BY <1>6, display_controller_handle_ui_eventRejects,
     confirmation_manager_approveRejects, ExpireTickRejects, ClearFlowRejects
     DEF UiStep
<1>7. CASE UNCHANGED vars
  BY <1>7
     DEF vars, RejectInv, NewIsNew, Unasked, Numbered, ShownAsAsked, RejectedNotPending,
         LateIsRejected
<1> QED
  BY <1>1, <1>2, <1>3, <1>4, <1>5, <1>6, <1>7,
     key_manager_task_handle_sign_stream_transferRejects,
     key_manager_task_handle_sign_stream_finalizeRejects,
     key_manager_task_handle_get_tx_signatureRejects,
     sysinfo_task_port_handle_wipe_stateRejects, TimePassesRejects, FlashDecaysRejects
     DEF Next

\* In no step does a late question get an answer.
LEMMA LateStep ==
    ASSUME TypeInv, RejectInv, [Next]_vars, sys.late, sys' # sys
    PROVE  returned' = returned
<1>1. sys.pc \in {"validate", "clear", "reset"}
  BY DEF RejectInv, LateIsRejected
<1>2. ASSUME NEW kind \in Kinds, Request(kind) PROVE returned' = returned
  BY <1>2 DEF Request
<1>3. ASSUME NEW id \in Requests, confirmation_manager_dispatch_result(id)
      PROVE  returned' = returned
  BY <1>3 DEF confirmation_manager_dispatch_result
<1>4. CASE KmStep
  BY <1>4
     DEF KmStep, Begin, RequestConfirmation, Deferred, IfApproved, CompareDeferred,
         Sign, ClearStream, ResetStream
<1>5. CASE SysStep
  BY <1>1, <1>5
     DEF SysStep, Validate, Wipe, SapResult, SignResult, CompareResult, Collect,
         ClearResult, ResetResult
<1>6. CASE User
  BY <1>6 DEF User, ApproveAction, CancelAction, PageConfirmed, LeaveFlow
<1>7. CASE UiStep
  BY <1>7
     DEF UiStep, display_controller_handle_ui_event, confirmation_manager_approve,
         ExpireTick, ClearFlow
<1>8. CASE TimePasses \/ FlashDecays \/ key_manager_task_handle_sign_stream_transfer
           \/ key_manager_task_handle_sign_stream_finalize
           \/ sysinfo_task_port_handle_wipe_state
  BY <1>8
     DEF TimePasses, FlashDecays, key_manager_task_handle_sign_stream_transfer,
         key_manager_task_handle_sign_stream_finalize,
         sysinfo_task_port_handle_wipe_state
<1>9. CASE key_manager_task_handle_get_tx_signature \/ UNCHANGED vars
  BY <1>9 DEF key_manager_task_handle_get_tx_signature, vars
<1> QED BY <1>2, <1>3, <1>4, <1>5, <1>6, <1>7, <1>8, <1>9 DEF Next

\* The key manager sets out to sign only what was not rejected: a transaction
\* is compared with the confirmation that is pending, and a pending one was not
\* rejected; an action is the one that is pending, unless that is a wipe.
LEMMA SignStep ==
    ASSUME TypeInv, SafeInv, RejectInv, [Next]_vars,
           km'.pc = "sign", km.pc # "sign", pend.type # "wipe"
    PROVE  Content \notin rejected
<1>1. CompareDeferred \/ IfApproved
  <2>1. ASSUME NEW kind \in Kinds, Request(kind) PROVE FALSE
    BY <2>1 DEF Request
  <2>2. ASSUME NEW id \in Requests, confirmation_manager_dispatch_result(id) PROVE FALSE
    BY <2>2 DEF confirmation_manager_dispatch_result
  <2>3. CASE KmStep
    BY <2>3
       DEF KmStep, Begin, RequestConfirmation, Deferred, Sign, ClearStream, ResetStream,
           Free, TypeInv, KmType, Kms
  <2>4. CASE SysStep
    BY <2>4
       DEF SysStep, Validate, Wipe, SapResult, SignResult, CompareResult, Collect,
           ClearResult, ResetResult, Free
  <2>5. CASE User
    BY <2>5 DEF User, ApproveAction, CancelAction, PageConfirmed, LeaveFlow
  <2>6. CASE UiStep
    BY <2>6
       DEF UiStep, display_controller_handle_ui_event, confirmation_manager_approve,
           ExpireTick, ClearFlow
  <2>7. CASE TimePasses \/ FlashDecays \/ key_manager_task_handle_sign_stream_transfer
             \/ key_manager_task_handle_sign_stream_finalize
             \/ sysinfo_task_port_handle_wipe_state
    BY <2>7
       DEF TimePasses, FlashDecays, key_manager_task_handle_sign_stream_transfer,
           key_manager_task_handle_sign_stream_finalize,
           sysinfo_task_port_handle_wipe_state
  <2>8. CASE key_manager_task_handle_get_tx_signature \/ UNCHANGED vars
    BY <2>8 DEF key_manager_task_handle_get_tx_signature, vars
  <2> QED BY <2>1, <2>2, <2>3, <2>4, <2>5, <2>6, <2>7, <2>8 DEF Next
<1>2. CASE CompareDeferred
  <2>1. Committed(pend.id, Content)
    BY <1>2 DEF CompareDeferred, Free, TypeInv, KmType, Kms
  <2> QED BY <2>1 DEF Committed, RejectInv, RejectedNotPending
<1>3. CASE IfApproved
  <2>1. km.pc = "approved" /\ km.kind = "sap" /\ pend.approved
    BY <1>3 DEF IfApproved, Free, TypeInv, KmType, Kms
  <2>2. pend.type \in {"sign", "sap"}
    BY <2>1 DEF TypeInv, PendType, Pendings, NoPending, Types
  <2>3. CASE session.tx # Blank
    <3>1. Content = session.tx /\ session.tx = pend.id
      BY <2>1, <2>2, <2>3 DEF SafeInv, SessionShape, PendShape, Content
    <3> QED BY <2>2, <3>1 DEF RejectInv, RejectedNotPending
  <2>4. CASE session.tx = Blank
    <3>1. Content = Blank
      BY <2>4 DEF SafeInv, SessionShape, Content
    <3> QED BY <3>1 DEF TypeInv, HistoryType, Requests, Blank
  <2> QED BY <2>3, <2>4
<1> QED BY <1>1, <1>2, <1>3

\* What was rejected, or expired, on its screen has no confirmation result for
\* an app that asks after that, and the key manager does not set out to sign it
\* any more, whichever steps of the key manager, of the sysinfo task and of the
\* UI come in between.  Nothing is said of the signatures of a stream that had
\* been signed, which get_tx_signature hands out without a confirmation.
THEOREM RejectedIsNotSignedAnyMore == Spec => RejectedStaysRejected
<1>1. Spec => [](TypeInv /\ SafeInv /\ RejectInv)
  BY InitType, InitSafe, InitRejects, NextType, NextSafe, NextRejects, PTL DEF Spec
<1>2. TypeInv /\ SafeInv /\ RejectInv /\ [Next]_vars =>
        [/\ sys.late /\ sys' # sys => returned' = returned
         /\ km'.pc = "sign" /\ km.pc # "sign" /\ pend.type # "wipe" => Content \notin rejected]_vars
  BY LateStep, SignStep
<1> QED BY <1>1, <1>2, PTL DEF Spec, RejectedStaysRejected

\* The pending confirmation is the one whose screen was asked for last: its
\* screen is the last in the queue, or it is on.
ScreenInv ==
    pend.type # "none" =>
        /\ events # <<>> => pend.id = events[Len(events)].id
        /\ events = <<>> /\ ui.flow # "none" => pend.id = ui.id

\* The steps that ask for no screen and take none from the queue.
LEMMA ScreenFrame ==
    ASSUME ScreenInv, UNCHANGED events,
           pend'.type # "none" => pend.type # "none" /\ pend'.id = pend.id,
           ui'.flow # "none" => ui.flow # "none" /\ ui'.id = ui.id
    PROVE  ScreenInv'
BY DEF ScreenInv

\* A confirmation and its screen are asked for together.
LEMMA AsksForScreen ==
    ASSUME EventsType, NEW k \in Requests, NEW f \in {"sign", "privileged"},
           pend'.id = k, events' = Append(events, [flow |-> f, id |-> k])
    PROVE  ScreenInv'
<1>1. [flow |-> f, id |-> k] \in Events
  BY DEF Events
<1>2. /\ events' # <<>> /\ Len(events') = Len(events) + 1
      /\ events'[Len(events')] = [flow |-> f, id |-> k]
  BY <1>1 DEF EventsType
<1> QED BY <1>2 DEF ScreenInv

LEMMA KmScreen == ASSUME TypeInv, ScreenInv, KmStep PROVE ScreenInv'
<1>1. CASE RequestConfirmation
  <2>1. UNCHANGED ui
    BY <1>1 DEF RequestConfirmation
  <2>2. CASE pend' \in {pend, NoPending} /\ UNCHANGED events
    BY <2>1, <2>2, ScreenFrame DEF NoPending
  <2>3. CASE ~(pend' \in {pend, NoPending} /\ UNCHANGED events)
    <3>1. /\ session.tx # Blank
          /\ pend' = [type |-> TypeOf(km.kind), id |-> session.tx, approved |-> FALSE, old |-> FALSE]
          /\ events' = Append(events, [flow |-> FlowOf(TypeOf(km.kind)), id |-> session.tx])
      BY <1>1, <2>3 DEF RequestConfirmation
    <3>2. session.tx \in Requests
      BY <3>1 DEF TypeInv, SessionType, Sessions, Requests, Blank
    <3>3. FlowOf(TypeOf(km.kind)) \in {"sign", "privileged"}
      BY DEF FlowOf
    <3> QED BY <3>1, <3>2, <3>3, AsksForScreen DEF TypeInv
  <2> QED BY <2>2, <2>3
<1>2. CASE ClearStream
  BY <1>2, ScreenFrame DEF ClearStream, NoPending
<1>3. CASE Begin \/ Deferred \/ IfApproved \/ CompareDeferred \/ Sign \/ ResetStream
  BY <1>3, ScreenFrame
     DEF Begin, Deferred, IfApproved, CompareDeferred, Sign, ResetStream
<1> QED BY <1>1, <1>2, <1>3 DEF KmStep

LEMMA SysScreen == ASSUME TypeInv, ScreenInv, SysStep PROVE ScreenInv'
<1>1. CASE Wipe
  BY <1>1 DEF Wipe, NoPending, ScreenInv
<1>2. CASE ClearResult \/ Validate
  BY <1>2, ScreenFrame DEF ClearResult, Validate, NoPending
<1>3. CASE SapResult \/ SignResult \/ CompareResult \/ Collect \/ ResetResult
  BY <1>3, ScreenFrame
     DEF SapResult, SignResult, CompareResult, Collect, ResetResult
<1> QED BY <1>1, <1>2, <1>3 DEF SysStep

LEMMA UiScreen == ASSUME TypeInv, ScreenInv, User \/ UiStep PROVE ScreenInv'
<1> USE DEF TypeInv, UiType, Uis, NoFlow, NoPending
<1>1. CASE ApproveAction \/ CancelAction \/ LeaveFlow \/ ExpireTick
  BY <1>1, ScreenFrame DEF ApproveAction, CancelAction, LeaveFlow, ExpireTick
<1>2. CASE PageConfirmed \/ confirmation_manager_approve
  BY <1>2, ScreenFrame
     DEF PageConfirmed, confirmation_manager_approve, PendType, Pendings
<1>3. CASE ClearFlow
  BY <1>3, ScreenFrame DEF ClearFlow
<1>4. CASE display_controller_handle_ui_event
  <2>1. /\ events \in Seq(Events) /\ events # <<>> /\ events' = Tail(events)
        /\ ui'.id = Head(events).id /\ UNCHANGED pend
    BY <1>4 DEF display_controller_handle_ui_event, EventsType
  <2>2. /\ Len(events) \in Nat \ {0} /\ Len(events') = Len(events) - 1
        /\ Head(events) = events[1]
        /\ \A i \in 1 .. Len(events) - 1 : events'[i] = events[i + 1]
    BY <2>1
  <2>3. CASE Len(events) = 1
    <3>1. events' = <<>>
      BY <2>1, <2>2, <2>3
    <3> QED BY <2>1, <2>2, <2>3, <3>1 DEF ScreenInv
  <2>4. CASE Len(events) # 1
    <3>1. events' # <<>> /\ events'[Len(events')] = events[Len(events)]
      <4>1. Len(events) - 1 \in 1 .. Len(events) - 1 /\ (Len(events) - 1) + 1 = Len(events)
        BY <2>2, <2>4
      <4>2. events'[Len(events) - 1] = events[(Len(events) - 1) + 1]
        BY <2>2, <4>1
      <4>3. events' # <<>>
        BY <2>2, <2>4
      <4> QED BY <2>2, <4>1, <4>2, <4>3
    <3> QED BY <2>1, <3>1 DEF ScreenInv
  <2> QED BY <2>3, <2>4
<1> QED BY <1>1, <1>2, <1>3, <1>4 DEF User, UiStep

LEMMA NextScreen == TypeInv /\ ScreenInv /\ [Next]_vars => ScreenInv'
<1> SUFFICES ASSUME TypeInv, ScreenInv, [Next]_vars PROVE ScreenInv'
  OBVIOUS
<1>1. ASSUME NEW kind \in Kinds, Request(kind) PROVE ScreenInv'
  BY <1>1, ScreenFrame DEF Request, NoPending
<1>2. ASSUME NEW id \in Requests, confirmation_manager_dispatch_result(id) PROVE ScreenInv'
  BY <1>2, ScreenFrame DEF confirmation_manager_dispatch_result
<1>3. CASE sysinfo_task_port_handle_wipe_state
  <2>1. reqs + 1 \in Requests
    BY <1>3 DEF sysinfo_task_port_handle_wipe_state, TypeInv, CountsType, Requests
  <2> QED BY <1>3, <2>1, AsksForScreen DEF sysinfo_task_port_handle_wipe_state, TypeInv
<1>4. CASE TimePasses
  BY <1>4, ScreenFrame DEF TimePasses, TypeInv, PendType, Pendings
<1>5. CASE FlashDecays \/ key_manager_task_handle_sign_stream_transfer
           \/ key_manager_task_handle_sign_stream_finalize
           \/ key_manager_task_handle_get_tx_signature
  BY <1>5, ScreenFrame
     DEF FlashDecays, key_manager_task_handle_sign_stream_transfer,
         key_manager_task_handle_sign_stream_finalize,
         key_manager_task_handle_get_tx_signature
<1>6. CASE UNCHANGED vars
  BY <1>6, ScreenFrame DEF vars
<1> QED BY <1>1, <1>2, <1>3, <1>4, <1>5, <1>6, KmScreen, SysScreen, UiScreen DEF Next

\* Only the UI approves, and what it approves has its screen on or in the queue.
LEMMA ApproveStep ==
    ASSUME TypeInv, ScreenInv, [Next]_vars, NEW id \in approved' \ approved
    PROVE  id = ui.id \/ \E i \in DOMAIN events : events[i].id = id
<1>1. confirmation_manager_approve
  <2>1. ASSUME NEW kind \in Kinds, Request(kind) PROVE FALSE
    BY <2>1 DEF Request
  <2>2. ASSUME NEW k \in Requests, confirmation_manager_dispatch_result(k) PROVE FALSE
    BY <2>2 DEF confirmation_manager_dispatch_result
  <2>3. CASE KmStep
    BY <2>3
       DEF KmStep, Begin, RequestConfirmation, Deferred, IfApproved, CompareDeferred,
           Sign, ClearStream, ResetStream
  <2>4. CASE SysStep
    BY <2>4
       DEF SysStep, Validate, Wipe, SapResult, SignResult, CompareResult, Collect,
           ClearResult, ResetResult
  <2>5. CASE User
    BY <2>5 DEF User, ApproveAction, CancelAction, PageConfirmed, LeaveFlow
  <2>6. CASE UiStep
    BY <2>6 DEF UiStep, display_controller_handle_ui_event, ExpireTick, ClearFlow
  <2>7. CASE TimePasses \/ FlashDecays \/ key_manager_task_handle_sign_stream_transfer
             \/ key_manager_task_handle_sign_stream_finalize
             \/ sysinfo_task_port_handle_wipe_state
    BY <2>7
       DEF TimePasses, FlashDecays, key_manager_task_handle_sign_stream_transfer,
           key_manager_task_handle_sign_stream_finalize,
           sysinfo_task_port_handle_wipe_state
  <2>8. CASE key_manager_task_handle_get_tx_signature \/ UNCHANGED vars
    BY <2>8 DEF key_manager_task_handle_get_tx_signature, vars
  <2> QED BY <2>1, <2>2, <2>3, <2>4, <2>5, <2>6, <2>7, <2>8 DEF Next
<1>2. pend.type # "none" /\ id = pend.id /\ ui.flow # "none"
  BY <1>1 DEF confirmation_manager_approve, TypeInv, UiType
<1>3. CASE events = <<>>
  BY <1>2, <1>3 DEF ScreenInv
<1>4. CASE events # <<>>
  <2>1. Len(events) \in DOMAIN events
    BY <1>4 DEF TypeInv, EventsType
  <2> QED BY <1>2, <1>4, <2>1 DEF ScreenInv
<1> QED BY <1>3, <1>4

\* confirmation_manager_approve takes what is pending when the UI task gets to
\* it.  That is what the screen shows, or a request that has replaced it and
\* whose screen is queued: never one that was not asked to be shown, nor one
\* whose screen was left.
THEOREM ApprovalIsOfTheShown == Spec => ApprovedIsShown
<1>1. Init => ScreenInv
  BY DEF Init, NoPending, ScreenInv
<1>2. Spec => [](TypeInv /\ ScreenInv)
  BY <1>1, InitType, NextType, NextScreen, PTL DEF Spec
<1>3. TypeInv /\ ScreenInv /\ [Next]_vars =>
        [\A id \in approved' \ approved :
            id = ui.id \/ \E i \in DOMAIN events : events[i].id = id]_vars
  BY ApproveStep
<1> QED BY <1>2, <1>3, PTL DEF Spec, ApprovedIsShown

=============================================================================
