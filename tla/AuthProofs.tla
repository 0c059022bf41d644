---------------------------- MODULE AuthProofs ----------------------------
(***************************************************************************)
(* Theorems about the authentication state, the power timer and the lock   *)
(* screen, for any size of the queue of the sysinfo task and any number of *)
(* inputs.                                                                 *)
(***************************************************************************)
EXTENDS Auth, TLAPS

UiEvents == {"AUTH_LOCKED", "AUTH_SUCCESS", "POWER_OFF", "READY", "LOCK_DEVICE",
             "ACTION_POWER_OFF"}
SysMsgs == {"LOCK_DEVICE", "POWER_OFF_REQUESTED", "BOOT_STATUS"}

\* The type invariant, by variable.
AuthTypes == [on : BOOLEAN, timer : Timers, enrolled : BOOLEAN, overtaken : BOOLEAN]
AuthType == auth \in AuthTypes
\* The latch, while it is set, holds the timer off.
Latch(s) == s \in SleepTypes /\ (s.latched => s.timer = "off")
SleepInv == Latch(sleep)
TodoType == todo \in [Tasks -> Seq(Ops)]
UiType == uiq \in Seq(UiEvents)
SysType == sysq \in Seq(SysMsgs) /\ Len(sysq) <= QueueSize
ScreenType == screen \in [locked : BOOLEAN, off : BOOLEAN]
EventsType == events \in [touch : BOOLEAN, boot : BOOLEAN, plugged : BOOLEAN]
PowerType == power \in {"on", "off"}
InputsType == inputs \in 0 .. MaxInputs

TypeInv ==
    /\ AuthType /\ SleepInv /\ TodoType /\ UiType /\ SysType /\ ScreenType /\ EventsType
    /\ PowerType /\ InputsType

\* What an operation of a task may change beside its program.
StateInv == AuthType /\ SleepInv /\ UiType /\ SysType /\ ScreenType /\ EventsType

-----------------------------------------------------------------------------
(* lib/sleep and a reset *)
\* No operation of lib/sleep arms the timer of a latched shutdown.
LEMMA SleepOperators ==
    ASSUME NEW s, Latch(s)
    PROVE  /\ Latch(sleep_start_power_timer(s)) /\ Latch(sleep_stop_power_timer(s))
           /\ Latch(sleep_refresh_power_timer(s)) /\ Latch(sleep_set_charger_extension(s))
           /\ Latch(sleep_begin_shutdown(s)) /\ Latch(sleep_cancel_shutdown(s))
<1>1. Latch(sleep_start_power_timer(s))
  BY DEF Latch, SleepTypes, Timers, sleep_start_power_timer
<1>2. Latch(sleep_stop_power_timer(s))
  BY DEF Latch, SleepTypes, Timers, sleep_stop_power_timer
<1>3. Latch(sleep_refresh_power_timer(s))
  BY DEF Latch, SleepTypes, Timers, sleep_refresh_power_timer
<1>4. Latch(sleep_begin_shutdown(s))
  BY DEF Latch, SleepTypes, Timers, sleep_begin_shutdown
<1>5. Latch(sleep_cancel_shutdown(s))
  BY DEF Latch, SleepTypes, Timers, sleep_cancel_shutdown
<1> QED BY <1>1, <1>2, <1>3, <1>4, <1>5 DEF sleep_set_charger_extension

LEMMA BootSleep == Latch(sleep_start_power_timer(sleep_init))
<1>1. Latch(sleep_init)
  BY DEF Latch, SleepTypes, Timers, sleep_init
<1> QED BY <1>1, SleepOperators

LEMMA Constants == QueueSize \in Nat \ {0} /\ MaxInputs \in Nat
BY ConstantsAssumption

LEMMA BootQueues == /\ <<>> \in Seq(Ops) /\ <<>> \in Seq(UiEvents) /\ <<>> \in Seq(SysMsgs)
                    /\ Len(<<>>) <= QueueSize
<1>1. Len(<<>>) = 0
  OBVIOUS
<1> QED BY <1>1, Constants

LEMMA BootedType ==
    ASSUME NEW on \in {"on", "off"}, NEW plugged \in BOOLEAN, Booted(on, plugged)
    PROVE  StateInv' /\ TodoType' /\ PowerType'
<1>1. AuthType' /\ ScreenType' /\ EventsType' /\ PowerType'
  BY DEF Booted, Locked, AuthType, AuthTypes, Timers, ScreenType, EventsType, PowerType
<1>2. SleepInv'
  BY BootSleep DEF Booted, SleepInv
<1>3. TodoType' /\ UiType' /\ SysType'
  BY BootQueues DEF Booted, Idle, TodoType, UiType, SysType
<1> QED BY <1>1, <1>2, <1>3 DEF StateInv

LEMMA InitType == Init => TypeInv
<1> SUFFICES ASSUME Init PROVE TypeInv
  OBVIOUS
<1>1. AuthType /\ ScreenType /\ EventsType /\ PowerType /\ InputsType
  <2>1. AuthType
    BY DEF Init, Locked, AuthType, AuthTypes, Timers
  <2>2. EventsType
    BY DEF Init, EventsType
  <2> QED BY <2>1, <2>2, Constants DEF Init, ScreenType, PowerType, InputsType
<1>2. SleepInv
  BY BootSleep DEF Init, SleepInv
<1>3. TodoType /\ UiType /\ SysType
  BY BootQueues DEF Init, Idle, TodoType, UiType, SysType
<1> QED BY <1>1, <1>2, <1>3 DEF TypeInv

-----------------------------------------------------------------------------
(* What an operation of a task leaves in a program and in the state *)
LEMMA DoesType ==
    ASSUME TypeInv, NEW t \in Tasks, NEW op, op # "idle",
           NEW next \in Seq(Ops), Does(t, op, next)
    PROVE  TodoType' /\ PowerType' /\ InputsType'
<1>1. CASE todo[t] = <<>>
  BY <1>1 DEF Does, At
<1>2. CASE todo[t] # <<>>
  <2>1. next \o Tail(todo[t]) \in Seq(Ops)
    <3>1. todo[t] \in Seq(Ops)
      BY DEF TypeInv, TodoType
    <3>2. Tail(todo[t]) \in Seq(Ops)
      BY <1>2, <3>1
    <3> QED BY <3>2
  <2> QED BY <2>1 DEF Does, TypeInv, TodoType, PowerType, InputsType
<1> QED BY <1>1, <1>2

LEMMA OnlyAuthType ==
    ASSUME TypeInv, NEW a \in AuthTypes, OnlyAuth(a) PROVE StateInv'
BY DEF TypeInv, StateInv, OnlyAuth, AuthType, SleepInv, UiType, SysType, ScreenType,
       EventsType

LEMMA OnlySleepType == ASSUME TypeInv, NEW s, Latch(s), OnlySleep(s) PROVE StateInv'
BY DEF TypeInv, StateInv, OnlySleep, AuthType, SleepInv, UiType, SysType, ScreenType,
       EventsType

LEMMA OnlyScreenType ==
    ASSUME TypeInv, NEW s \in [locked : BOOLEAN, off : BOOLEAN], OnlyScreen(s) PROVE StateInv'
BY DEF TypeInv, StateInv, OnlyScreen, AuthType, SleepInv, UiType, SysType, ScreenType,
       EventsType

LEMMA OnlyEventsType ==
    ASSUME TypeInv, NEW e \in [touch : BOOLEAN, boot : BOOLEAN, plugged : BOOLEAN], OnlyEvents(e)
    PROVE  StateInv'
BY DEF TypeInv, StateInv, OnlyEvents, AuthType, SleepInv, UiType, SysType, ScreenType,
       EventsType

LEMMA OnlyUiQueueType == ASSUME TypeInv, NEW e \in UiEvents, OnlyUiQueue(e) PROVE StateInv'
BY DEF TypeInv, StateInv, OnlyUiQueue, AuthType, SleepInv, UiType, SysType, ScreenType,
       EventsType

LEMMA OnlySysQueueType == ASSUME TypeInv, NEW e \in SysMsgs, OnlySysQueue(e) PROVE StateInv'
<1>1. SysType'
  BY Constants DEF TypeInv, OnlySysQueue, SysType
<1> QED
  BY <1>1
     DEF TypeInv, StateInv, OnlySysQueue, AuthType, SleepInv, UiType, ScreenType,
         EventsType

LEMMA StepType ==
    ASSUME StateInv', TodoType', PowerType', InputsType' PROVE TypeInv'
BY DEF TypeInv, StateInv

\* The programs of the tasks are programs.
LEMMA Programs ==
    /\ <<>> \in Seq(Ops) /\ <<"clear">> \in Seq(Ops) /\ <<"clear_shown">> \in Seq(Ops)
    /\ <<"restart">> \in Seq(Ops) /\ <<"post_shutdown">> \in Seq(Ops)
    /\ <<"power_down">> \in Seq(Ops) /\ <<"clear_touch", "poll", "poll_exit">> \in Seq(Ops)
    /\ <<"timer_stop", "power_start", "on_lock">> \in Seq(Ops)
    /\ <<"timer_stop", "power_start", "on_lock_shown">> \in Seq(Ops)
BY DEF Ops, Waits

LEMMA SetAuthenticatedType == ASSUME TypeInv, NEW t \in Tasks, SetAuthenticated(t) PROVE TypeInv'
<1>1. PICK op \in {"set", "set_enrolled"} :
        /\ Does(t, op, <<>>)
        /\ OnlyAuth([auth EXCEPT !.on = TRUE, !.enrolled = op = "set_enrolled"])
  BY DEF SetAuthenticated
<1>2. [auth EXCEPT !.on = TRUE, !.enrolled = op = "set_enrolled"] \in AuthTypes
  BY DEF TypeInv, AuthType, AuthTypes
<1> QED BY <1>1, <1>2, Programs, DoesType, OnlyAuthType, StepType

LEMMA RestartTimerType == ASSUME TypeInv, NEW t \in Tasks, RestartTimer(t) PROVE TypeInv'
<1> DEFINE a == [auth EXCEPT !.timer = "fresh",
                   !.overtaken = IF t = "matching" THEN At("timer") \in {"on_lock", "on_lock_shown"}
                                                   ELSE @]
<1>1. a \in AuthTypes
  <2>1. CASE t = "matching"
    <3> DEFINE o == At("timer") \in {"on_lock", "on_lock_shown"}
    <3>1. o \in BOOLEAN
      OBVIOUS
    <3>2. a = [auth EXCEPT !.timer = "fresh", !.overtaken = o]
      BY <2>1
    <3> HIDE DEF a, o
    <3> QED BY <3>1, <3>2 DEF TypeInv, AuthType, AuthTypes, Timers
  <2>2. CASE t # "matching"
    <3>1. a = [auth EXCEPT !.timer = "fresh", !.overtaken = auth.overtaken]
      BY <2>2
    <3> HIDE DEF a
    <3> QED BY <3>1 DEF TypeInv, AuthType, AuthTypes, Timers
  <2> QED BY <2>1, <2>2
<1>2. Does(t, "restart", <<>>) /\ OnlyAuth(a)
  BY DEF RestartTimer
<1> HIDE DEF a
<1> QED BY <1>1, <1>2, Programs, DoesType, OnlyAuthType, StepType

LEMMA StopTimerType == ASSUME TypeInv, NEW t \in Tasks, StopTimer(t) PROVE TypeInv'
<1>1. [auth EXCEPT !.timer = "off"] \in AuthTypes
  BY DEF TypeInv, AuthType, AuthTypes, Timers
<1> QED BY <1>1, Programs, DoesType, OnlyAuthType, StepType DEF StopTimer

LEMMA DeauthenticateType == ASSUME TypeInv, NEW t \in Tasks, do_deauthenticate(t) PROVE TypeInv'
<1>1. PICK op \in {"clear", "clear_shown"} :
        /\ Does(t, op, <<"timer_stop", "power_start",
                  IF op = "clear_shown" /\ auth.on THEN "on_lock_shown" ELSE "on_lock">>)
        /\ OnlyAuth([auth EXCEPT !.on = FALSE, !.enrolled = FALSE])
  BY DEF do_deauthenticate
<1> DEFINE next == <<"timer_stop", "power_start",
                     IF op = "clear_shown" /\ auth.on THEN "on_lock_shown" ELSE "on_lock">>
<1>2. next \in Seq(Ops)
  <2>1. CASE op = "clear_shown" /\ auth.on
    BY <2>1, Programs
  <2>2. CASE ~(op = "clear_shown" /\ auth.on)
    BY <2>2, Programs
  <2> QED BY <2>1, <2>2
<1>3. [auth EXCEPT !.on = FALSE, !.enrolled = FALSE] \in AuthTypes
  BY DEF TypeInv, AuthType, AuthTypes
<1>4. Does(t, op, next)
  BY <1>1
<1> HIDE DEF next
<1> QED BY <1>1, <1>2, <1>3, <1>4, DoesType, OnlyAuthType, StepType

\* An operation that only reads.
LEMMA ReadsType ==
    ASSUME TypeInv, NEW t \in Tasks, NEW op, op # "idle",
           NEW next \in Seq(Ops), Does(t, op, next), OnlyAuth(auth)
    PROVE  TypeInv'
BY DoesType, OnlyAuthType, StepType DEF TypeInv, AuthType

LEMMA OnLockType == ASSUME TypeInv, NEW t \in Tasks, on_lock(t) PROVE TypeInv'
<1>1. CASE Does(t, "on_lock_shown", <<>>) /\ OnlyUiQueue("AUTH_LOCKED")
  BY <1>1, Programs, DoesType, OnlyUiQueueType, StepType DEF UiEvents
<1>2. CASE Does(t, "on_lock", <<>>) /\ OnlyAuth(auth)
  BY <1>2, Programs, ReadsType
<1> QED BY <1>1, <1>2 DEF on_lock

LEMMA RefreshAuthType == ASSUME TypeInv, NEW t \in Tasks, refresh_auth(t) PROVE TypeInv'
<1> DEFINE next == IF auth.on THEN <<"restart">> ELSE <<>>
<1>1. next \in Seq(Ops)
  BY Programs
<1>2. Does(t, "refresh_auth", next) /\ OnlyAuth(auth)
  BY DEF refresh_auth
<1> HIDE DEF next
<1> QED BY <1>1, <1>2, ReadsType

LEMMA PowerTimerType == ASSUME TypeInv, NEW t \in Tasks, PowerTimer(t) PROVE TypeInv'
<1>1. Latch(sleep)
  BY DEF TypeInv, SleepInv
<1>2. PICK op, s : op # "idle" /\ Latch(s) /\ Does(t, op, <<>>) /\ OnlySleep(s)
  BY <1>1, SleepOperators DEF PowerTimer
<1> QED BY <1>2, Programs, DoesType, OnlySleepType, StepType

LEMMA MatchFailsType == ASSUME TypeInv, NEW t \in Tasks, MatchFails(t) PROVE TypeInv'
<1> DEFINE next == IF auth.on THEN <<>> ELSE <<"clear_shown">>
<1>1. next \in Seq(Ops)
  BY Programs
<1>2. Does(t, "deauth_if_locked", next) /\ OnlyAuth(auth)
  BY DEF MatchFails
<1> HIDE DEF next
<1> QED BY <1>1, <1>2, ReadsType

LEMMA PostsType == ASSUME TypeInv, NEW t \in Tasks, Posts(t) PROVE TypeInv'
<1>1. [events EXCEPT !.touch = TRUE] \in [touch : BOOLEAN, boot : BOOLEAN, plugged : BOOLEAN]
  BY DEF TypeInv, EventsType
<1>2. StateInv'
  BY <1>1, OnlyUiQueueType, OnlySysQueueType, OnlyEventsType DEF Posts, UiEvents, SysMsgs
<1>3. PICK op : op # "idle" /\ Does(t, op, <<>>)
  BY DEF Posts
<1> QED BY <1>2, <1>3, Programs, DoesType, StepType

LEMMA MarkDeviceLockedType == ASSUME TypeInv, NEW t \in Tasks, mark_device_locked(t) PROVE TypeInv'
<1>1. CASE Does(t, "ui_lock", <<>>) /\ OnlyScreen([locked |-> TRUE, off |-> FALSE])
  <2>1. [locked |-> TRUE, off |-> FALSE] \in [locked : BOOLEAN, off : BOOLEAN]
    OBVIOUS
  <2> QED BY <1>1, <2>1, Programs, DoesType, OnlyScreenType, StepType
<1> DEFINE next == IF auth.on THEN <<"clear">> ELSE <<>>
<1>2. CASE Does(t, "deauth_if_auth", next) /\ OnlyAuth(auth)
  <2>1. next \in Seq(Ops)
    BY Programs
  <2> HIDE DEF next
  <2> QED BY <1>2, <2>1, ReadsType
<1> QED BY <1>1, <1>2 DEF mark_device_locked

LEMMA ScreenChangesType == ASSUME TypeInv, NEW t \in Tasks, ScreenChanges(t) PROVE TypeInv'
<1>1. /\ [screen EXCEPT !.locked = FALSE] \in [locked : BOOLEAN, off : BOOLEAN]
      /\ [screen EXCEPT !.off = TRUE] \in [locked : BOOLEAN, off : BOOLEAN]
  BY DEF TypeInv, ScreenType
<1>2. StateInv'
  BY <1>1, OnlyScreenType, OnlySysQueueType DEF ScreenChanges, SysMsgs
<1>3. PICK op : op # "idle" /\ Does(t, op, <<>>)
  BY DEF ScreenChanges
<1> QED BY <1>2, <1>3, Programs, DoesType, StepType

LEMMA ResetType == ASSUME TypeInv, Reset PROVE TypeInv'
<1>1. events.plugged \in BOOLEAN
  BY DEF TypeInv, EventsType
<1>2. InputsType'
  BY DEF Reset, TypeInv, InputsType
<1> QED BY <1>1, <1>2, BootedType, StepType DEF Reset

LEMMA ShutdownCallbackType == ASSUME TypeInv, NEW t \in Tasks, ShutdownCallback(t) PROVE TypeInv'
<1> DEFINE next == IF sleep.latched THEN <<>> ELSE <<"post_shutdown">>
<1>1. CASE Does(t, "shutdown", next) /\ OnlySleep(sleep_begin_shutdown(sleep))
  <2>1. next \in Seq(Ops)
    BY Programs
  <2>2. Latch(sleep_begin_shutdown(sleep))
    BY SleepOperators DEF TypeInv, SleepInv
  <2> HIDE DEF next
  <2> QED BY <1>1, <2>1, <2>2, DoesType, OnlySleepType, StepType
<1>2. CASE Does(t, "post_shutdown", <<>>) /\ OnlySysQueue("POWER_OFF_REQUESTED")
  BY <1>2, Programs, DoesType, OnlySysQueueType, StepType DEF SysMsgs
<1>3. CASE Reset
  BY <1>3, ResetType
<1> QED BY <1>1, <1>2, <1>3 DEF ShutdownCallback

LEMMA PreparePowerDownType == ASSUME TypeInv, NEW t \in Tasks, PreparePowerDown(t) PROVE TypeInv'
<1> DEFINE next == IF events.plugged THEN <<"clear_touch", "poll", "poll_exit">>
                                     ELSE <<"power_down">>
<1>1. CASE Does(t, "begin_shutdown", <<>>) /\ OnlySleep(sleep_begin_shutdown(sleep))
  <2>1. Latch(sleep_begin_shutdown(sleep))
    BY SleepOperators DEF TypeInv, SleepInv
  <2> QED BY <1>1, <2>1, Programs, DoesType, OnlySleepType, StepType
<1>2. CASE Does(t, "post_power_off", <<>>) /\ OnlyUiQueue("POWER_OFF")
  BY <1>2, Programs, DoesType, OnlyUiQueueType, StepType DEF UiEvents
<1>3. CASE Does(t, "if_plugged", next) /\ OnlyAuth(auth)
  <2>1. next \in Seq(Ops)
    BY Programs
  <2> HIDE DEF next
  <2> QED BY <1>3, <2>1, ReadsType
<1>4. CASE Does(t, "clear_touch", <<>>) /\ OnlyEvents([events EXCEPT !.touch = FALSE])
  <2>1. [events EXCEPT !.touch = FALSE] \in [touch : BOOLEAN, boot : BOOLEAN, plugged : BOOLEAN]
    BY DEF TypeInv, EventsType
  <2> QED BY <1>4, <2>1, Programs, DoesType, OnlyEventsType, StepType
<1>5. CASE Does(t, "poll", <<>>) /\ OnlyAuth(auth)
  BY <1>5, Programs, ReadsType
<1> QED BY <1>1, <1>2, <1>3, <1>4, <1>5 DEF PreparePowerDown

LEMMA PollExitType == ASSUME TypeInv, NEW t \in Tasks, PollExit(t) PROVE TypeInv'
<1>1. Latch(sleep) /\ Latch(sleep_cancel_shutdown(sleep))
  BY SleepOperators DEF TypeInv, SleepInv
<1>2. CASE Does(t, "poll_exit", <<>>) /\ OnlySleep(sleep_cancel_shutdown(sleep))
  BY <1>1, <1>2, Programs, DoesType, OnlySleepType, StepType
<1>3. CASE Does(t, "poll_exit", <<"power_down">>) /\ OnlySleep(sleep)
  BY <1>1, <1>3, Programs, DoesType, OnlySleepType, StepType
<1> QED BY <1>2, <1>3 DEF PollExit

LEMMA PowerDownType == ASSUME TypeInv, NEW t \in Tasks, sysinfo_task_port_power_down(t) PROVE TypeInv'
<1>1. CASE Reset
  BY <1>1, ResetType
<1>2. CASE Booted("off", FALSE) /\ UNCHANGED inputs
  <2>1. InputsType'
    BY <1>2 DEF TypeInv, InputsType
  <2> QED BY <1>2, <2>1, BootedType, StepType
<1> QED BY <1>1, <1>2 DEF sysinfo_task_port_power_down

LEMMA CoprocBootType == ASSUME TypeInv, NEW t \in Tasks, sysinfo_task_handle_coproc_boot(t) PROVE TypeInv'
<1>1. StateInv'
  <2>1. UiType'
    BY DEF sysinfo_task_handle_coproc_boot, TypeInv, UiType, UiEvents
  <2>2. EventsType'
    BY DEF sysinfo_task_handle_coproc_boot, TypeInv, EventsType
  <2> QED
    BY <2>1, <2>2
       DEF sysinfo_task_handle_coproc_boot, TypeInv, StateInv, AuthType, SleepInv, SysType, ScreenType
<1> QED BY <1>1, Programs, DoesType, StepType DEF sysinfo_task_handle_coproc_boot

\* A task begins a program.
LEMMA BeginsType ==
    ASSUME TypeInv, NEW t \in Tasks, NEW program \in Seq(Ops), todo' = [todo EXCEPT ![t] = program]
    PROVE  TodoType'
BY DEF TypeInv, TodoType

LEMMA UiEventType == ASSUME TypeInv, display_controller_handle_ui_event PROVE TypeInv'
<1> DEFINE e == Head(uiq)
<1> DEFINE program ==
          CASE e = "POWER_OFF" -> <<"ui_power_off", "refresh_auth">>
            [] e = "READY" /\ screen.off -> <<"power_start">> \o lock_device
            [] e = "READY" /\ ~screen.off -> <<"refresh_auth">>
            [] e = "ACTION_POWER_OFF" -> <<"post_power_off_requested">>
            [] e \in {"AUTH_LOCKED", "LOCK_DEVICE"} /\ ~screen.off -> lock_device
            [] e = "AUTH_SUCCESS" /\ ~screen.off -> <<"ui_unlock", "refresh_auth">>
            [] OTHER -> <<>>
<1>1. lock_device \in Seq(Ops) /\ <<"power_start">> \in Seq(Ops)
  BY DEF lock_device, Ops, Waits
<1>2. /\ <<"ui_power_off", "refresh_auth">> \in Seq(Ops) /\ <<"refresh_auth">> \in Seq(Ops)
      /\ <<"post_power_off_requested">> \in Seq(Ops) /\ <<"ui_unlock", "refresh_auth">> \in Seq(Ops)
  BY DEF Ops, Waits
<1>3. <<"power_start">> \o lock_device \in Seq(Ops)
  BY <1>1
<1> HIDE DEF e
<1>4. program \in Seq(Ops)
  BY <1>1, <1>2, <1>3, Programs
<1>5. todo' = [todo EXCEPT !["ui"] = program]
  BY DEF display_controller_handle_ui_event, show_ready_screen, show_power_off, e
<1> HIDE DEF program
<1>6. TodoType'
  BY <1>4, <1>5, BeginsType DEF Tasks
<1>7. UiType'
  BY DEF display_controller_handle_ui_event, TypeInv, UiType
<1> QED
  BY <1>6, <1>7
     DEF display_controller_handle_ui_event, TypeInv, AuthType, SleepInv, SysType,
         ScreenType, EventsType, PowerType, InputsType

LEMMA SysinfoThreadType == ASSUME TypeInv, sysinfo_thread PROVE TypeInv'
<1> DEFINE program == CASE Head(sysq) = "LOCK_DEVICE" -> handle_lock_device
                        [] Head(sysq) = "BOOT_STATUS" -> <<"boot_handled">>
                        [] OTHER -> sysinfo_task_port_prepare_power_down
<1>1. handle_lock_device \in Seq(Ops)
  BY Programs DEF handle_lock_device, Thrice
<1>2. <<"boot_handled">> \in Seq(Ops) /\ sysinfo_task_port_prepare_power_down \in Seq(Ops)
  BY DEF sysinfo_task_port_prepare_power_down, Ops, Waits
<1>3. program \in Seq(Ops)
  BY <1>1, <1>2
<1>4. todo' = [todo EXCEPT !["sysinfo"] = program]
  BY DEF sysinfo_thread
<1> HIDE DEF program
<1>5. TodoType'
  BY <1>3, <1>4, BeginsType DEF Tasks
<1>6. SysType'
  BY Constants DEF sysinfo_thread, TypeInv, SysType
<1> QED
  BY <1>5, <1>6
     DEF sysinfo_thread, TypeInv, AuthType, SleepInv, UiType, ScreenType, EventsType,
         PowerType, InputsType

LEMMA TaskStepType == ASSUME TypeInv, TaskStep PROVE TypeInv'
<1>1. ASSUME NEW t \in Tasks, Step(t) PROVE TypeInv'
  BY <1>1, SetAuthenticatedType, RestartTimerType, StopTimerType, DeauthenticateType,
     OnLockType, RefreshAuthType, PowerTimerType, MatchFailsType, PostsType,
     MarkDeviceLockedType, ScreenChangesType, ShutdownCallbackType,
     PreparePowerDownType, PollExitType, PowerDownType, CoprocBootType
     DEF Step
<1> QED BY <1>1, UiEventType, SysinfoThreadType DEF TaskStep

-----------------------------------------------------------------------------
(* Timers and inputs *)
LEMMA TimePassesType == ASSUME TypeInv, TimePasses PROVE TypeInv'
<1>1. AuthType'
  BY DEF AuthTypes, TimePasses, TypeInv, AuthType, Timers
<1>2. SleepInv'
  BY DEF TimePasses, TypeInv, SleepInv, Latch, SleepTypes, Timers
<1> QED
  BY <1>1, <1>2
     DEF TimePasses, TypeInv, TodoType, UiType, SysType, ScreenType, EventsType,
         PowerType, InputsType

LEMMA ExpiresType == ASSUME TypeInv, Expires PROVE TypeInv'
<1>1. AuthType'
  BY DEF AuthTypes, Expires, TypeInv, AuthType, Timers
<1>2. SleepInv'
  BY DEF Expires, TypeInv, SleepInv, Latch, SleepTypes, Timers
<1>3. TodoType'
  <2>1. auth_timer_callback \in Seq(Ops)
    BY Programs DEF auth_timer_callback, Thrice
  <2>2. power_system_down_callback \in Seq(Ops)
    BY DEF power_system_down_callback, Ops
  <2> QED BY <2>1, <2>2, BeginsType DEF Expires, Tasks
<1> QED
  BY <1>1, <1>2, <1>3
     DEF Expires, TypeInv, UiType, SysType, ScreenType, EventsType, PowerType,
         InputsType

LEMMA InputType == ASSUME TypeInv, Input PROVE InputsType'
BY Constants DEF Input, TypeInv, InputsType

LEMMA BeginsKeeps ==
    ASSUME TypeInv, NEW t \in Tasks, NEW program \in Seq(Ops), Begins(t, program) PROVE TypeInv'
BY InputType, BeginsType
   DEF Begins, TypeInv, AuthType, SleepInv, UiType, SysType, ScreenType, EventsType,
       PowerType

LEMMA InputsKeep == ASSUME TypeInv, Inputs PROVE TypeInv'
<1>1. CASE auth_matching_thread
  <2>1. <<"refresh_power", "post_success">> \o do_authenticate \in Seq(Ops)
    <3>1. <<"refresh_power", "post_success">> \in Seq(Ops) /\ do_authenticate \in Seq(Ops)
      BY DEF do_authenticate, Ops
    <3> QED BY <3>1
  <2>2. <<"refresh_power">> \o handle_match_fail \in Seq(Ops)
    <3>1. <<"refresh_power">> \in Seq(Ops) /\ handle_match_fail \in Seq(Ops)
      BY DEF handle_match_fail, Ops
    <3> QED BY <3>1
  <2>3. <<"refresh_power", "set_enrolled", "restart", "power_stop">> \in Seq(Ops)
        /\ <<"refresh_power">> \in Seq(Ops)
    BY DEF Ops
  <2> QED BY <1>1, <2>1, <2>2, <2>3, BeginsKeeps DEF auth_matching_thread, Tasks
<1>2. CASE ipc_proto_route
  <2>1. <<"refresh_power", "refresh_auth">> \in Seq(Ops)
        /\ <<"refresh_power", "refresh_auth", "post_lock_cmd">> \in Seq(Ops)
    BY DEF Ops, Waits
  <2> QED BY <1>2, <2>1, BeginsKeeps DEF ipc_proto_route, Tasks
<1>3. CASE handle_touch_event
  <2>1. <<"touched", "refresh_power", "refresh_auth">> \in Seq(Ops)
    BY DEF Ops
  <2> QED BY <1>3, <2>1, BeginsKeeps DEF handle_touch_event, Tasks
<1>4. CASE handle_display_action
  <2>1. SleepInv'
    BY <1>4, SleepOperators DEF handle_display_action, TypeInv, SleepInv
  <2>2. UiType'
    BY <1>4 DEF handle_display_action, TypeInv, UiType, UiEvents
  <2> QED
    BY <1>4, <2>1, <2>2, InputType
       DEF handle_display_action, TypeInv, AuthType, TodoType, SysType, ScreenType,
           EventsType, PowerType
<1>5. CASE charger_thread
  <2>1. <<"charger">> \in Seq(Ops)
    BY DEF Ops
  <2>2. TodoType'
    BY <1>5, <2>1, BeginsType DEF charger_thread, Tasks
  <2>3. EventsType'
    BY <1>5 DEF charger_thread, TypeInv, EventsType
  <2> QED
    BY <1>5, <2>2, <2>3, InputType
       DEF charger_thread, TypeInv, AuthType, SleepInv, UiType, SysType, ScreenType,
           PowerType
<1>6. CASE UxcReboots
  <2>1. SysType'
    BY <1>6, Constants DEF UxcReboots, TypeInv, SysType, SysMsgs
  <2>2. EventsType'
    BY <1>6 DEF UxcReboots, TypeInv, EventsType
  <2> QED
    BY <1>6, <2>1, <2>2, InputType
       DEF UxcReboots, TypeInv, AuthType, SleepInv, TodoType, UiType, ScreenType,
           PowerType
<1>7. CASE Wakes
  <2>1. InputsType'
    BY <1>7, InputType DEF Wakes
  <2> QED BY <1>7, <2>1, BootedType, StepType DEF Wakes
<1> QED BY <1>1, <1>2, <1>3, <1>4, <1>5, <1>6, <1>7 DEF Inputs

LEMMA NextType == TypeInv /\ [Next]_vars => TypeInv'
<1> SUFFICES ASSUME TypeInv, [Next]_vars PROVE TypeInv'
  OBVIOUS
<1>1. CASE UNCHANGED vars
  BY <1>1
     DEF vars, TypeInv, AuthType, SleepInv, TodoType, UiType, SysType, ScreenType,
         EventsType, PowerType, InputsType
<1> QED BY <1>1, TaskStepType, TimePassesType, ExpiresType, InputsKeep DEF Next

LEMMA SpecTypeInv == Spec => []TypeInv
BY InitType, NextType, PTL DEF Spec

\* Every variable keeps its type, and the queue of the sysinfo task its bound:
\* the callback of the power timer resets the device rather than post to a full
\* queue (power_system_down_callback).
THEOREM TypeCorrect == Spec => []TypeOK
<1>1. TypeInv => TypeOK
  BY DEF AuthTypes, TypeInv, TypeOK, AuthType, SleepInv, Latch, TodoType, UiType, UiEvents,
         SysType, SysMsgs, ScreenType, EventsType, PowerType, InputsType
<1> QED BY <1>1, SpecTypeInv, PTL

\* sleep_start_power_timer, sleep_refresh_power_timer and
\* sleep_set_charger_extension look at the latch under the lock of sleep_ctx:
\* in no step is the timer armed between sleep_begin_shutdown and its
\* cancellation, whichever tasks call them.
THEOREM NothingArmsLatched == Spec => LatchHolds
<1>1. TypeInv /\ [Next]_vars => [sleep.latched /\ sleep'.latched => sleep'.timer = "off"]_vars
  BY NextType DEF TypeInv, SleepInv, Latch
<1> QED BY <1>1, SpecTypeInv, PTL DEF Spec, LatchHolds

-----------------------------------------------------------------------------

-----------------------------------------------------------------------------
(* What the lock screen shows *)
\* Some operation or event of s is in S; all of them are.
Has(s, S) == \E i \in DOMAIN s : s[i] \in S
Among(s, S) == \A i \in DOMAIN s : s[i] \in S

\* What is left of a program after its first operation, which put next in front.
LEMMA RestOf ==
    ASSUME NEW s \in Seq(Ops), s # <<>>, NEW next \in Seq(Ops), NEW r, r = next \o Tail(s)
    PROVE  /\ r \in Seq(Ops) /\ Len(r) = Len(next) + Len(s) - 1
           /\ Len(s) \in Nat \ {0} /\ Len(next) \in Nat
           /\ DOMAIN s = 1 .. Len(s) /\ DOMAIN next = 1 .. Len(next) /\ DOMAIN r = 1 .. Len(r)
           /\ \A i \in DOMAIN next : i \in DOMAIN r /\ r[i] = next[i]
           /\ \A i \in DOMAIN r : i > Len(next) => r[i] = s[i - Len(next) + 1]
<1>1. /\ Tail(s) \in Seq(Ops) /\ Len(Tail(s)) = Len(s) - 1 /\ Len(s) \in Nat \ {0}
      /\ \A i \in 1 .. Len(s) - 1 : Tail(s)[i] = s[i + 1]
  OBVIOUS
<1>2. /\ r \in Seq(Ops) /\ Len(r) = Len(next) + Len(Tail(s))
      /\ \A i \in 1 .. Len(r) : r[i] = IF i <= Len(next) THEN next[i] ELSE Tail(s)[i - Len(next)]
  BY <1>1
<1>3. \A i \in 1 .. Len(r) : i > Len(next) => r[i] = s[i - Len(next) + 1]
  BY <1>1, <1>2
<1> QED BY <1>1, <1>2, <1>3

\* Nothing comes into a program but what is put in front; nothing leaves it but
\* the operation that is done.
LEMMA HasRest ==
    ASSUME NEW s \in Seq(Ops), s # <<>>, NEW next \in Seq(Ops), NEW S
    PROVE  /\ Has(next \o Tail(s), S) => Has(next, S) \/ Has(s, S)
           /\ Has(next, S) => Has(next \o Tail(s), S)
           /\ Has(s, S) /\ Head(s) \notin S => Has(next \o Tail(s), S)
<1> DEFINE r == next \o Tail(s)
<1>0. /\ r \in Seq(Ops) /\ Len(r) = Len(next) + Len(s) - 1
      /\ Len(s) \in Nat \ {0} /\ Len(next) \in Nat
      /\ DOMAIN s = 1 .. Len(s) /\ DOMAIN next = 1 .. Len(next) /\ DOMAIN r = 1 .. Len(r)
      /\ \A i \in DOMAIN next : i \in DOMAIN r /\ r[i] = next[i]
      /\ \A i \in DOMAIN r : i > Len(next) => r[i] = s[i - Len(next) + 1]
  BY RestOf
<1>h. Head(s) = s[1]
  OBVIOUS
<1> HIDE DEF r
<1>1. ASSUME Has(r, S) PROVE Has(next, S) \/ Has(s, S)
  <2>1. PICK i \in DOMAIN r : r[i] \in S
    BY <1>1 DEF Has
  <2>2. CASE i <= Len(next)
    <3>1. i \in DOMAIN next /\ next[i] \in S
      BY <1>0, <2>1, <2>2
    <3> QED BY <3>1 DEF Has
  <2>3. CASE i > Len(next)
    <3>1. i - Len(next) + 1 \in DOMAIN s /\ s[i - Len(next) + 1] \in S
      BY <1>0, <2>1, <2>3
    <3> QED BY <3>1 DEF Has
  <2> QED BY <1>0, <2>1, <2>2, <2>3
<1>2. ASSUME Has(next, S) PROVE Has(r, S)
  BY <1>0, <1>2 DEF Has
<1>3. ASSUME Has(s, S), Head(s) \notin S PROVE Has(r, S)
  <2>1. PICK i \in DOMAIN s : s[i] \in S
    BY <1>3 DEF Has
  <2>2. i # 1
    BY <1>3, <1>h, <2>1
  <2>3. i + Len(next) - 1 \in DOMAIN r /\ r[i + Len(next) - 1] = s[i]
    BY <1>0, <2>1, <2>2, SMTT(60)
  <2> QED BY <2>1, <2>3 DEF Has
<1> QED BY <1>1, <1>2, <1>3 DEF r

LEMMA Joined ==
    ASSUME NEW p \in Seq(Ops), NEW q \in Seq(Ops), NEW r, r = p \o q
    PROVE  /\ Len(r) = Len(p) + Len(q) /\ DOMAIN r = 1 .. Len(p) + Len(q)
           /\ \A i \in 1 .. Len(p) + Len(q) :
                 r[i] = IF i <= Len(p) THEN p[i] ELSE q[i - Len(p)]
OBVIOUS

LEMMA HasJoined ==
    ASSUME NEW p \in Seq(Ops), NEW q \in Seq(Ops), NEW S
    PROVE  Has(p \o q, S) => Has(p, S) \/ Has(q, S)
<1> DEFINE r == p \o q
<1>1. /\ DOMAIN r = 1 .. Len(p) + Len(q) /\ Len(p) \in Nat /\ Len(q) \in Nat
      /\ \A i \in 1 .. Len(p) + Len(q) : r[i] = IF i <= Len(p) THEN p[i] ELSE q[i - Len(p)]
      /\ DOMAIN p = 1 .. Len(p) /\ DOMAIN q = 1 .. Len(q)
  BY Joined
<1> HIDE DEF r
<1>2. ASSUME NEW i \in DOMAIN r, r[i] \in S PROVE Has(p, S) \/ Has(q, S)
  <2>1. CASE i <= Len(p)
    <3>1. i \in DOMAIN p /\ p[i] \in S
      BY <1>1, <1>2, <2>1
    <3> QED BY <3>1 DEF Has
  <2>2. CASE i > Len(p)
    <3>1. i - Len(p) \in DOMAIN q /\ q[i - Len(p)] \in S
      BY <1>1, <1>2, <2>2
    <3> QED BY <3>1 DEF Has
  <2> QED BY <1>1, <2>1, <2>2
<1> QED BY <1>2 DEF Has, r

\* SECURE_DO adds nothing to what it repeats.
LEMMA HasThrice == ASSUME NEW p \in Seq(Ops), NEW S, ~Has(p, S) PROVE ~Has(Thrice(p), S)
<1>1. p \o p \in Seq(Ops)
  OBVIOUS
<1> QED BY <1>1, HasJoined DEF Thrice

LEMMA Longer ==
    ASSUME NEW T, NEW q \in Seq(T), NEW e \in T
    PROVE  /\ Len(q) \in Nat /\ DOMAIN q = 1 .. Len(q) /\ DOMAIN Append(q, e) = 1 .. Len(q) + 1
           /\ \A i \in 1 .. Len(q) : Append(q, e)[i] = q[i]
           /\ Append(q, e)[Len(q) + 1] = e
OBVIOUS

LEMMA HasLonger ==
    ASSUME NEW T, NEW q \in Seq(T), NEW e \in T, NEW S
    PROVE  /\ Has(q, S) => Has(Append(q, e), S)
           /\ e \in S => Has(Append(q, e), S)
<1>1. ASSUME Has(q, S) PROVE Has(Append(q, e), S)
  BY <1>1, Longer DEF Has
<1>2. ASSUME e \in S PROVE Has(Append(q, e), S)
  <2>1. Len(q) + 1 \in DOMAIN Append(q, e)
    BY Longer
  <2> QED BY <1>2, <2>1, Longer DEF Has
<1> QED BY <1>1, <1>2

LEMMA Shorter ==
    ASSUME NEW T, NEW q \in Seq(T), q # <<>>
    PROVE  /\ Len(q) \in Nat \ {0} /\ DOMAIN q = 1 .. Len(q) /\ DOMAIN Tail(q) = 1 .. Len(q) - 1
           /\ \A i \in 1 .. Len(q) - 1 : Tail(q)[i] = q[i + 1]
           /\ Head(q) = q[1]
OBVIOUS

LEMMA HasShorter ==
    ASSUME NEW T, NEW q \in Seq(T), q # <<>>, NEW S, Has(q, S), Head(q) \notin S
    PROVE  Has(Tail(q), S)
<1>1. PICK i \in DOMAIN q : q[i] \in S
  BY DEF Has
<1>2. i - 1 \in DOMAIN Tail(q) /\ Tail(q)[i - 1] = q[i]
  BY <1>1, Shorter
<1> QED BY <1>1, <1>2 DEF Has

-----------------------------------------------------------------------------
\* The programs of a match and of an enrollment.
SuccessOps == {"refresh_power", "post_success", "set", "set_enrolled", "restart", "power_stop"}

\* A match unlocks the device in the matching task alone, and the lock screen is
\* shown by the UI task alone.
OnlyMatchingSets == \A t \in Tasks \ {"matching"} : ~Has(todo[t], {"set"})
OnlyUiLocks == \A t \in Tasks \ {"ui"} : ~Has(todo[t], {"ui_lock"})
\* What is left of a match are the operations of a match: none of them waits.
SuccessRuns == Has(todo["matching"], {"set"}) => Among(todo["matching"], SuccessOps)

\* The UI is told of a match before the device is unlocked; the lock screen is
\* drawn before the device is locked, which then follows at once.
ToldFirst(s, told) ==
    \A i \in DOMAIN s : s[i] = "set" => (i > 1 /\ s[i - 1] = "post_success") \/ told
ThenClears(s) ==
    \A i \in DOMAIN s : s[i] = "ui_lock" => i < Len(s) /\ s[i + 1] = "deauth_if_auth"

Told == Has(uiq, {"AUTH_SUCCESS"})
SuccessTold == ToldFirst(todo["matching"], Told)
LockClears == ThenClears(todo["ui"])

\* A device that a match unlocked behind the lock screen has the event that takes
\* the screen away before it, or is about to be locked.
Unlocking == {"ui_unlock", "deauth_if_auth", "clear"}
Open == auth.on /\ ~auth.enrolled
UnlockShown ==
    screen.locked /\ ~screen.off /\ Open => Told \/ Has(todo["ui"], Unlocking)

\* The UI task does not wait for a shutdown.
Polling == {"if_plugged", "poll"}
UiNeverPolls == ~Has(todo["ui"], Polling)

OrderInv == OnlyMatchingSets /\ OnlyUiLocks /\ UiNeverPolls /\ SuccessRuns /\ SuccessTold /\ LockClears
LockInv == OrderInv /\ UnlockShown

LEMMA DoesFacts ==
    ASSUME TypeInv, NEW t \in Tasks, NEW op, op # "idle",
           NEW next \in Seq(Ops), Does(t, op, next)
    PROVE  /\ todo[t] \in Seq(Ops) /\ todo[t] # <<>> /\ Head(todo[t]) = op /\ Runs(t)
           /\ todo'[t] = next \o Tail(todo[t])
           /\ \A u \in Tasks \ {t} : todo'[u] = todo[u]
BY DEF Does, At, TypeInv, TodoType

\* Doing the first operation of a program keeps the two orders.
LEMMA ToldFirstRest ==
    ASSUME NEW s \in Seq(Ops), s # <<>>, NEW next \in Seq(Ops), ~Has(next, {"set"}),
           NEW told \in BOOLEAN, NEW toldNow \in BOOLEAN, told => toldNow, Head(s) = "post_success" => toldNow,
           next = <<>> \/ ~Has(s, {"set"}), ToldFirst(s, told)
    PROVE  ToldFirst(next \o Tail(s), toldNow)
<1> DEFINE r == next \o Tail(s)
<1>0. /\ r \in Seq(Ops) /\ Len(r) = Len(next) + Len(s) - 1
      /\ Len(s) \in Nat \ {0} /\ Len(next) \in Nat
      /\ DOMAIN s = 1 .. Len(s) /\ DOMAIN next = 1 .. Len(next) /\ DOMAIN r = 1 .. Len(r)
      /\ \A i \in DOMAIN next : i \in DOMAIN r /\ r[i] = next[i]
      /\ \A i \in DOMAIN r : i > Len(next) => r[i] = s[i - Len(next) + 1]
  BY RestOf
<1>h. Head(s) = s[1]
  OBVIOUS
<1> HIDE DEF r
<1> SUFFICES ASSUME ~toldNow, NEW i \in DOMAIN r, r[i] = "set"
             PROVE  i > 1 /\ r[i - 1] = "post_success"
  BY DEF ToldFirst, r
<1>1. Has(r, {"set"})
  BY DEF Has
<1>2. next = <<>>
  BY <1>1, HasRest DEF r
<1>3. Len(next) = 0
  BY <1>2
<1>4. i + 1 \in DOMAIN s /\ r[i] = s[i + 1]
  BY <1>0, <1>3
<1>5. s[i] = "post_success"
  <2>1. ~told
    OBVIOUS
  <2> DEFINE k == i + 1
  <2>2. k \in DOMAIN s /\ s[k] = "set"
    BY <1>4
  <2>3. k - 1 = i
    BY <1>0
  <2> HIDE DEF k
  <2>4. s[k - 1] = "post_success"
    BY <2>1, <2>2 DEF ToldFirst
  <2> QED BY <2>3, <2>4
<1>6. i # 1
  BY <1>5, <1>h
<1>7. i > 1 /\ i - 1 \in DOMAIN r
  BY <1>0, <1>6
<1>8. r[i - 1] = s[i]
  BY <1>0, <1>3, <1>7
<1> QED BY <1>5, <1>7, <1>8

LEMMA ThenClearsRest ==
    ASSUME NEW s \in Seq(Ops), s # <<>>, NEW next \in Seq(Ops), ~Has(next, {"ui_lock"}),
           ThenClears(s)
    PROVE  ThenClears(next \o Tail(s))
<1> DEFINE r == next \o Tail(s)
<1>0. /\ r \in Seq(Ops) /\ Len(r) = Len(next) + Len(s) - 1
      /\ Len(s) \in Nat \ {0} /\ Len(next) \in Nat
      /\ DOMAIN s = 1 .. Len(s) /\ DOMAIN next = 1 .. Len(next) /\ DOMAIN r = 1 .. Len(r)
      /\ \A i \in DOMAIN next : i \in DOMAIN r /\ r[i] = next[i]
      /\ \A i \in DOMAIN r : i > Len(next) => r[i] = s[i - Len(next) + 1]
  BY RestOf
<1> HIDE DEF r
<1> SUFFICES ASSUME NEW i \in DOMAIN r, r[i] = "ui_lock"
             PROVE  i < Len(r) /\ r[i + 1] = "deauth_if_auth"
  BY DEF ThenClears, r
<1>1. i > Len(next)
  BY <1>0 DEF Has
<1>2. i - Len(next) + 1 \in DOMAIN s /\ s[i - Len(next) + 1] = "ui_lock"
  BY <1>0, <1>1
<1>3. i - Len(next) + 1 < Len(s) /\ s[i - Len(next) + 1 + 1] = "deauth_if_auth"
  BY <1>2 DEF ThenClears
<1>4. i + 1 \in DOMAIN r /\ i + 1 > Len(next)
  BY <1>0, <1>1, <1>3
<1>5. r[i + 1] = s[i + 1 - Len(next) + 1]
  BY <1>0, <1>4
<1>6. i + 1 - Len(next) + 1 = i - Len(next) + 1 + 1
  BY <1>0
<1> QED BY <1>0, <1>3, <1>4, <1>5, <1>6

\* Every operation of a task keeps the order of the programs.
LEMMA OrderKept ==
    ASSUME TypeInv, OrderInv, NEW t \in Tasks, NEW op, op # "idle",
           NEW next \in Seq(Ops), Does(t, op, next),
           ~Has(next, {"set"}), ~Has(next, {"ui_lock"}),
           op \in SuccessOps => next = <<>>, op \in Polling \/ ~Has(next, Polling),
           op = "post_success" => Told', Told => Told'
    PROVE  OrderInv'
<1>1. /\ todo[t] \in Seq(Ops) /\ todo[t] # <<>> /\ Head(todo[t]) = op
      /\ todo'[t] = next \o Tail(todo[t])
      /\ \A u \in Tasks \ {t} : todo'[u] = todo[u]
  BY DoesFacts
<1>2. \A S : /\ Has(todo'[t], S) => Has(next, S) \/ Has(todo[t], S)
  BY <1>1, HasRest
<1>3. OnlyMatchingSets' /\ OnlyUiLocks'
  BY <1>1, <1>2 DEF OrderInv, OnlyMatchingSets, OnlyUiLocks
<1>p. UiNeverPolls'
  <2>1. CASE t = "ui"
    <3>1. 1 \in DOMAIN todo[t] /\ todo[t][1] = op
      BY <1>1
    <3>2. op \notin Polling
      BY <2>1, <3>1 DEF OrderInv, UiNeverPolls, Has
    <3> QED BY <1>2, <2>1, <3>2 DEF OrderInv, UiNeverPolls
  <2>2. CASE t # "ui"
    BY <1>1, <2>2 DEF OrderInv, UiNeverPolls, Tasks
  <2> QED BY <2>1, <2>2
<1>4. CASE t = "matching"
  <2>1. ASSUME Has(todo[t], {"set"}) PROVE next = <<>> /\ Among(todo[t], SuccessOps)
    <3>1. Among(todo[t], SuccessOps)
      BY <1>4, <2>1 DEF OrderInv, SuccessRuns
    <3>2. op \in SuccessOps
      <4>1. 1 \in DOMAIN todo[t] /\ Head(todo[t]) = todo[t][1]
        BY <1>1
      <4> QED BY <1>1, <3>1, <4>1 DEF Among
    <3> QED BY <3>1, <3>2
  <2>2. SuccessRuns'
    <3> SUFFICES ASSUME Has(todo'[t], {"set"}) PROVE Among(todo'[t], SuccessOps)
      BY <1>4 DEF SuccessRuns
    <3>1. next = <<>> /\ Among(todo[t], SuccessOps)
      BY <1>2, <2>1
    <3>2. \A i \in DOMAIN todo'[t] : i + 1 \in DOMAIN todo[t] /\ todo'[t][i] = todo[t][i + 1]
      <4>1. Len(next) = 0
        BY <3>1
      <4> QED BY <1>1, <4>1, RestOf
    <3> QED BY <3>1, <3>2 DEF Among
  <2>3. SuccessTold'
    <3>1. ToldFirst(todo[t], Told)
      BY <1>4 DEF OrderInv, SuccessTold
    <3>2. ToldFirst(next \o Tail(todo[t]), Told')
      <4>1. Told \in BOOLEAN /\ Told' \in BOOLEAN
        BY DEF Told, Has
      <4> QED BY <1>1, <2>1, <3>1, <4>1, ToldFirstRest
    <3> QED BY <1>1, <1>4, <3>2 DEF SuccessTold
  <2>4. LockClears'
    BY <1>1, <1>4 DEF OrderInv, LockClears, Tasks
  <2> QED BY <1>3, <1>p, <2>2, <2>3, <2>4 DEF OrderInv
<1>5. CASE t # "matching"
  <2>1. todo'["matching"] = todo["matching"]
    BY <1>1, <1>5 DEF Tasks
  <2>2. SuccessRuns'
    BY <2>1 DEF OrderInv, SuccessRuns
  <2>3. SuccessTold'
    BY <2>1 DEF OrderInv, SuccessTold, ToldFirst
  <2>4. LockClears'
    <3>1. CASE t = "ui"
      BY <1>1, <3>1, ThenClearsRest DEF OrderInv, LockClears
    <3>2. CASE t # "ui"
      BY <1>1, <3>2 DEF OrderInv, LockClears, Tasks
    <3> QED BY <3>1, <3>2
  <2> QED BY <1>3, <1>p, <2>2, <2>3, <2>4 DEF OrderInv
<1> QED BY <1>4, <1>5

\* An operation that neither unlocks nor shows the lock screen.
LEMMA UnlockKept ==
    ASSUME TypeInv, UnlockShown, NEW t \in Tasks, NEW op, op # "idle",
           NEW next \in Seq(Ops), Does(t, op, next), op \notin Unlocking,
           Told => Told', Open' => Open,
           screen'.locked /\ ~screen'.off => screen.locked /\ ~screen.off
    PROVE  UnlockShown'
<1>1. /\ todo[t] \in Seq(Ops) /\ todo[t] # <<>> /\ Head(todo[t]) = op
      /\ todo'[t] = next \o Tail(todo[t])
      /\ \A u \in Tasks \ {t} : todo'[u] = todo[u]
  BY DoesFacts
<1>2. Has(todo["ui"], Unlocking) => Has(todo'["ui"], Unlocking)
  <2>1. CASE t = "ui"
    <3>1. Has(todo[t], Unlocking) => Has(next \o Tail(todo[t]), Unlocking)
      BY <1>1, HasRest
    <3> QED BY <1>1, <2>1, <3>1
  <2>2. CASE t # "ui"
    BY <1>1, <2>2 DEF Tasks
  <2> QED BY <2>1, <2>2
<1> QED BY <1>2 DEF UnlockShown

LEMMA ToldAppend ==
    ASSUME TypeInv, NEW e \in UiEvents, uiq' = Append(uiq, e)
    PROVE  (Told => Told') /\ (e = "AUTH_SUCCESS" => Told')
BY HasLonger DEF TypeInv, UiType, Told

LEMMA HasNothing == \A S : ~Has(<<>>, S)
BY DEF Has

\* The members of short programs.
LEMMA ShortPrograms ==
    /\ \A S : ~Has(<<>>, S)
    /\ \A a, S : a \notin S => ~Has(<<a>>, S)
    /\ \A a, S : a \in S => Has(<<a>>, S)
    /\ \A a, b, S : a \notin S /\ b \notin S => ~Has(<<a, b>>, S)
    /\ \A a, b, S : a \in S \/ b \in S => Has(<<a, b>>, S)
    /\ \A a, b, c, S : a \notin S /\ b \notin S /\ c \notin S => ~Has(<<a, b, c>>, S)
<1>1. \A a, b, S : a \in S \/ b \in S => Has(<<a, b>>, S)
  <2> SUFFICES ASSUME NEW a, NEW b, NEW S, a \in S \/ b \in S PROVE Has(<<a, b>>, S)
    OBVIOUS
  <2>1. 1 \in DOMAIN <<a, b>> /\ 2 \in DOMAIN <<a, b>> /\ <<a, b>>[1] = a /\ <<a, b>>[2] = b
    OBVIOUS
  <2> QED BY <2>1 DEF Has
<1>2. \A a, S : a \in S => Has(<<a>>, S)
  <2> SUFFICES ASSUME NEW a, NEW S, a \in S PROVE Has(<<a>>, S)
    OBVIOUS
  <2>1. 1 \in DOMAIN <<a>> /\ <<a>>[1] = a
    OBVIOUS
  <2> QED BY <2>1 DEF Has
<1> QED BY <1>1, <1>2 DEF Has

\* What an operation puts in front of a program.
Fillers == {<<>>, <<"clear">>, <<"clear_shown">>, <<"restart">>, <<"post_shutdown">>,
            <<"power_down">>, <<"clear_touch", "poll", "poll_exit">>,
            <<"timer_stop", "power_start", "on_lock">>,
            <<"timer_stop", "power_start", "on_lock_shown">>}

LEMMA FillersHarmless ==
    \A next \in Fillers :
        /\ next \in Seq(Ops) /\ ~Has(next, {"set"}) /\ ~Has(next, {"ui_lock"})
        /\ next # <<"clear_touch", "poll", "poll_exit">> => ~Has(next, Polling)
<1> SUFFICES ASSUME NEW next \in Fillers
             PROVE  /\ next \in Seq(Ops) /\ ~Has(next, {"set"}) /\ ~Has(next, {"ui_lock"})
                    /\ next # <<"clear_touch", "poll", "poll_exit">> => ~Has(next, Polling)
  OBVIOUS
<1>1. next \in Seq(Ops)
  BY Programs DEF Fillers
<1>2. \A i \in DOMAIN next : next[i] \notin {"set", "ui_lock"}
  BY DEF Fillers
<1>3. next # <<"clear_touch", "poll", "poll_exit">> =>
        \A i \in DOMAIN next : next[i] \notin {"if_plugged", "poll"}
  BY DEF Fillers
<1> QED BY <1>1, <1>2, <1>3 DEF Has, Polling

\* The order of the operations after an operation that tells the UI nothing.
LEMMA QuietOrder ==
    ASSUME TypeInv, OrderInv, NEW t \in Tasks, NEW op, op # "idle", op # "post_success",
           NEW next \in Seq(Ops), Does(t, op, next), UNCHANGED uiq,
           ~Has(next, {"set"}), ~Has(next, {"ui_lock"}), op \in SuccessOps => next = <<>>,
           op \in Polling \/ ~Has(next, Polling)
    PROVE  OrderInv'
BY OrderKept DEF Told

\* An operation that touches neither the screen nor the authentication.
LEMMA QuietLock ==
    ASSUME TypeInv, LockInv, NEW t \in Tasks, NEW op, op \notin {"idle", "post_success"},
           op \notin Unlocking,
           NEW next \in Seq(Ops), Does(t, op, next), UNCHANGED <<uiq, screen>>,
           (Open' <=> Open),
           ~Has(next, {"set"}), ~Has(next, {"ui_lock"}), op \in SuccessOps => next = <<>>,
           op \in Polling \/ ~Has(next, Polling)
    PROVE  LockInv'
BY QuietOrder, UnlockKept DEF LockInv, Told

LEMMA SetAuthenticatedLock ==
    ASSUME TypeInv, LockInv, NEW t \in Tasks, SetAuthenticated(t) PROVE LockInv'
<1>1. PICK op \in {"set", "set_enrolled"} :
        Does(t, op, <<>>) /\ UNCHANGED uiq /\ (Open' => op = "set")
  BY DEF SetAuthenticated, OnlyAuth, TypeInv, AuthType, AuthTypes, Open
<1>2. OrderInv'
  BY <1>1, Programs, ShortPrograms, QuietOrder DEF LockInv
<1>3. /\ todo[t] \in Seq(Ops) /\ todo[t] # <<>> /\ Head(todo[t]) = op
  BY <1>1, Programs, DoesFacts
<1>4. 1 \in DOMAIN todo[t] /\ todo[t][1] = op
  BY <1>3
<1>5. op = "set" => t = "matching"
  BY <1>4 DEF LockInv, OrderInv, OnlyMatchingSets, Has
<1>6. op = "set" => Told
  BY <1>4, <1>5 DEF LockInv, OrderInv, SuccessTold, ToldFirst
<1>7. UnlockShown'
  BY <1>1, <1>6 DEF UnlockShown, Told
<1> QED BY <1>2, <1>7 DEF LockInv

LEMMA AuthTimerLock ==
    ASSUME TypeInv, LockInv, NEW t \in Tasks, RestartTimer(t) \/ StopTimer(t) PROVE LockInv'
<1>1. PICK op \in {"restart", "timer_stop"} :
        Does(t, op, <<>>) /\ UNCHANGED <<uiq, screen>> /\ (Open' <=> Open)
  BY DEF RestartTimer, StopTimer, OnlyAuth, TypeInv, AuthType, AuthTypes, Open
<1> QED BY <1>1, Programs, ShortPrograms, QuietLock DEF Unlocking

LEMMA DeauthenticateLock ==
    ASSUME TypeInv, LockInv, NEW t \in Tasks, do_deauthenticate(t) PROVE LockInv'
<1>1. PICK op \in {"clear", "clear_shown"}, o \in {"on_lock", "on_lock_shown"} :
        /\ Does(t, op, <<"timer_stop", "power_start", o>>)
        /\ UNCHANGED <<uiq, screen>> /\ auth'.on = FALSE
  BY DEF do_deauthenticate, OnlyAuth, TypeInv, AuthType, AuthTypes
<1>2. <<"timer_stop", "power_start", o>> \in Fillers
  BY DEF Fillers
<1>3. OrderInv'
  BY <1>1, <1>2, FillersHarmless, QuietOrder DEF LockInv, SuccessOps
<1>4. UnlockShown'
  BY <1>1 DEF Open, UnlockShown
<1> QED BY <1>3, <1>4 DEF LockInv

LEMMA OnLockLock ==
    ASSUME TypeInv, LockInv, NEW t \in Tasks, on_lock(t) PROVE LockInv'
<1>1. CASE Does(t, "on_lock_shown", <<>>) /\ OnlyUiQueue("AUTH_LOCKED")
  <2>1. Told => Told'
    BY <1>1, ToldAppend DEF OnlyUiQueue, UiEvents
  <2>2. OrderInv'
    BY <1>1, <2>1, Programs, ShortPrograms, OrderKept DEF LockInv
  <2>3. UnlockShown'
    BY <1>1, <2>1, Programs, UnlockKept DEF Open, LockInv, Unlocking, OnlyUiQueue
  <2> QED BY <2>2, <2>3 DEF LockInv
<1>2. CASE Does(t, "on_lock", <<>>) /\ OnlyAuth(auth)
  BY <1>2, Programs, ShortPrograms, QuietLock DEF Open, Unlocking, OnlyAuth
<1> QED BY <1>1, <1>2 DEF on_lock

LEMMA RefreshAuthLock ==
    ASSUME TypeInv, LockInv, NEW t \in Tasks, refresh_auth(t) PROVE LockInv'
<1>1. PICK next \in {<<"restart">>, <<>>} :
        Does(t, "refresh_auth", next) /\ UNCHANGED <<uiq, screen>> /\ (Open' <=> Open)
  BY DEF Open, refresh_auth, OnlyAuth
<1>2. /\ next \in Seq(Ops) /\ ~Has(next, {"set"}) /\ ~Has(next, {"ui_lock"})
      /\ ~Has(next, Polling)
  BY FillersHarmless DEF Fillers
<1> QED BY <1>1, <1>2, QuietLock DEF Unlocking, SuccessOps

LEMMA PowerTimerLock ==
    ASSUME TypeInv, LockInv, NEW t \in Tasks, PowerTimer(t) PROVE LockInv'
<1>1. PICK op \in {"power_start", "power_stop", "refresh_power", "charger"} :
        Does(t, op, <<>>) /\ UNCHANGED <<uiq, screen>> /\ (Open' <=> Open)
  BY DEF Open, PowerTimer, OnlySleep
<1> QED BY <1>1, Programs, ShortPrograms, QuietLock DEF Unlocking

LEMMA MatchFailsLock ==
    ASSUME TypeInv, LockInv, NEW t \in Tasks, MatchFails(t) PROVE LockInv'
<1>1. PICK next \in {<<"clear_shown">>, <<>>} :
        Does(t, "deauth_if_locked", next) /\ UNCHANGED <<uiq, screen>> /\ (Open' <=> Open)
  BY DEF Open, MatchFails, OnlyAuth
<1>2. /\ next \in Seq(Ops) /\ ~Has(next, {"set"}) /\ ~Has(next, {"ui_lock"})
      /\ ~Has(next, Polling)
  BY FillersHarmless DEF Fillers
<1> QED BY <1>1, <1>2, QuietLock DEF Unlocking, SuccessOps

LEMMA PostsLock ==
    ASSUME TypeInv, LockInv, NEW t \in Tasks, Posts(t) PROVE LockInv'
<1>1. CASE Does(t, "post_success", <<>>) /\ OnlyUiQueue("AUTH_SUCCESS")
  <2>1. Told'
    BY <1>1, ToldAppend DEF OnlyUiQueue, UiEvents
  <2>2. OrderInv'
    BY <1>1, <2>1, Programs, ShortPrograms, OrderKept DEF LockInv
  <2> QED BY <2>1, <2>2 DEF LockInv, UnlockShown
<1>2. CASE Does(t, "post_lock_cmd", <<>>) /\ OnlySysQueue("LOCK_DEVICE")
  BY <1>2, Programs, ShortPrograms, QuietLock DEF Open, Unlocking, OnlySysQueue
<1>3. CASE Does(t, "touched", <<>>) /\ OnlyEvents([events EXCEPT !.touch = TRUE])
  BY <1>3, Programs, ShortPrograms, QuietLock DEF Open, Unlocking, OnlyEvents
<1> QED BY <1>1, <1>2, <1>3 DEF Posts

LEMMA MarkDeviceLockedLock ==
    ASSUME TypeInv, LockInv, NEW t \in Tasks, mark_device_locked(t) PROVE LockInv'
<1>1. CASE Does(t, "ui_lock", <<>>) /\ OnlyScreen([locked |-> TRUE, off |-> FALSE])
  <2>1. OrderInv'
    BY <1>1, Programs, ShortPrograms, QuietOrder DEF LockInv, OnlyScreen, SuccessOps
  <2>2. /\ todo[t] \in Seq(Ops) /\ todo[t] # <<>> /\ Head(todo[t]) = "ui_lock"
        /\ todo'[t] = <<>> \o Tail(todo[t])
    BY <1>1, Programs, DoesFacts
  <2>3. 1 \in DOMAIN todo[t] /\ todo[t][1] = "ui_lock"
    BY <2>2
  <2>4. t = "ui"
    BY <2>3 DEF LockInv, OrderInv, OnlyUiLocks, Has
  <2>5. 2 \in DOMAIN todo[t] /\ todo[t][2] = "deauth_if_auth"
    BY <2>2, <2>3, <2>4 DEF LockInv, OrderInv, LockClears, ThenClears
  <2>6. Has(todo[t], {"deauth_if_auth"})
    BY <2>5 DEF Has
  <2>7. Has(todo'[t], {"deauth_if_auth"})
    <3>1. Head(todo[t]) \notin {"deauth_if_auth"}
      BY <2>2
    <3>2. PICK next \in Seq(Ops) : todo'[t] = next \o Tail(todo[t])
      BY <2>2, Programs
    <3>3. Has(next \o Tail(todo[t]), {"deauth_if_auth"})
      BY <2>2, <2>6, <3>1, HasRest
    <3> QED BY <3>2, <3>3
  <2>8. UnlockShown'
    BY <2>4, <2>7 DEF UnlockShown, Has, Unlocking
  <2> QED BY <2>1, <2>8 DEF LockInv
<1>2. ASSUME NEW next, next = IF auth.on THEN <<"clear">> ELSE <<>>,
             Does(t, "deauth_if_auth", next), OnlyAuth(auth)
      PROVE  LockInv'
  <2>1. /\ next \in Seq(Ops) /\ ~Has(next, {"set"}) /\ ~Has(next, {"ui_lock"})
        /\ ~Has(next, Polling)
    BY <1>2, FillersHarmless DEF Fillers
  <2>2. OrderInv'
    BY <1>2, <2>1, QuietOrder DEF LockInv, OnlyAuth, SuccessOps
  <2>3. UNCHANGED <<auth, screen, uiq>>
    BY <1>2 DEF OnlyAuth
  <2>4. CASE t = "ui"
    <3>1. todo'["ui"] = next \o Tail(todo["ui"]) /\ todo["ui"] \in Seq(Ops) /\ todo["ui"] # <<>>
      BY <1>2, <2>1, <2>4, DoesFacts
    <3>2. auth.on => Has(next, {"clear"})
      BY <1>2, ShortPrograms
    <3>3. auth.on => Has(todo'["ui"], {"clear"})
      BY <2>1, <3>1, <3>2, HasRest
    <3>4. UnlockShown'
      BY <2>3, <3>3 DEF Open, UnlockShown, Has, Unlocking
    <3> QED BY <2>2, <3>4 DEF LockInv
  <2>5. CASE t # "ui"
    <3>1. todo'["ui"] = todo["ui"]
      BY <1>2, <2>1, <2>5, DoesFacts DEF Tasks
    <3> QED BY <2>2, <2>3, <3>1 DEF Open, LockInv, UnlockShown, Told
  <2> QED BY <2>4, <2>5
<1> QED BY <1>1, <1>2 DEF mark_device_locked

LEMMA ScreenChangesLock ==
    ASSUME TypeInv, LockInv, NEW t \in Tasks, ScreenChanges(t) PROVE LockInv'
<1>1. CASE Does(t, "ui_unlock", <<>>) /\ OnlyScreen([screen EXCEPT !.locked = FALSE])
  <2>1. OrderInv'
    BY <1>1, Programs, ShortPrograms, QuietOrder DEF LockInv, OnlyScreen
  <2>2. UnlockShown'
    BY <1>1 DEF UnlockShown, OnlyScreen, TypeInv, ScreenType
  <2> QED BY <2>1, <2>2 DEF LockInv
<1>2. CASE Does(t, "ui_power_off", <<>>) /\ OnlyScreen([screen EXCEPT !.off = TRUE])
  <2>1. OrderInv'
    BY <1>2, Programs, ShortPrograms, QuietOrder DEF LockInv, OnlyScreen
  <2>2. UnlockShown'
    BY <1>2 DEF UnlockShown, OnlyScreen, TypeInv, ScreenType
  <2> QED BY <2>1, <2>2 DEF LockInv
<1>3. CASE Does(t, "post_power_off_requested", <<>>) /\ OnlySysQueue("POWER_OFF_REQUESTED")
  BY <1>3, Programs, ShortPrograms, QuietLock DEF Open, Unlocking, OnlySysQueue
<1> QED BY <1>1, <1>2, <1>3 DEF ScreenChanges

LEMMA BootedLock ==
    ASSUME NEW on, NEW plugged, Booted(on, plugged) PROVE LockInv'
<1>1. \A t \in Tasks : todo'[t] = <<>>
  BY DEF Booted, Idle
<1>2. todo'["ui"] = <<>> /\ todo'["matching"] = <<>>
  BY <1>1 DEF Tasks
<1>3. OnlyMatchingSets' /\ OnlyUiLocks' /\ UiNeverPolls' /\ SuccessRuns'
  BY <1>1, <1>2, ShortPrograms DEF OnlyMatchingSets, OnlyUiLocks, UiNeverPolls, SuccessRuns
<1>4. SuccessTold' /\ LockClears'
  BY <1>2 DEF SuccessTold, ToldFirst, LockClears, ThenClears
<1>5. UnlockShown'
  BY DEF Locked, Open, Booted, UnlockShown
<1> QED BY <1>3, <1>4, <1>5 DEF LockInv, OrderInv

LEMMA ShutdownCallbackLock ==
    ASSUME TypeInv, LockInv, NEW t \in Tasks, ShutdownCallback(t) PROVE LockInv'
<1>1. ASSUME NEW next \in {<<>>, <<"post_shutdown">>}, Does(t, "shutdown", next),
             OnlySleep(sleep_begin_shutdown(sleep))
      PROVE  LockInv'
  <2>1. /\ next \in Seq(Ops) /\ ~Has(next, {"set"}) /\ ~Has(next, {"ui_lock"})
        /\ ~Has(next, Polling)
    BY <1>1, FillersHarmless DEF Fillers
  <2> QED BY <1>1, <2>1, QuietLock DEF Open, Unlocking, SuccessOps, OnlySleep
<1>2. CASE Does(t, "post_shutdown", <<>>) /\ OnlySysQueue("POWER_OFF_REQUESTED")
  BY <1>2, Programs, ShortPrograms, QuietLock DEF Open, Unlocking, OnlySysQueue
<1>3. CASE Reset
  BY <1>3, BootedLock DEF Reset
<1> QED BY <1>1, <1>2, <1>3 DEF ShutdownCallback

LEMMA PowerDownLock ==
    ASSUME TypeInv, LockInv, NEW t \in Tasks,
           PreparePowerDown(t) \/ PollExit(t) \/ sysinfo_task_port_power_down(t)
    PROVE LockInv'
<1>1. CASE Does(t, "post_power_off", <<>>) /\ OnlyUiQueue("POWER_OFF")
  <2>1. Told => Told'
    BY <1>1, ToldAppend DEF OnlyUiQueue, UiEvents
  <2>2. OrderInv'
    BY <1>1, <2>1, Programs, ShortPrograms, OrderKept DEF LockInv
  <2>3. UnlockShown'
    BY <1>1, <2>1, Programs, UnlockKept DEF Open, LockInv, Unlocking, OnlyUiQueue
  <2> QED BY <2>2, <2>3 DEF LockInv
<1>2. CASE sysinfo_task_port_power_down(t)
  BY <1>2, BootedLock DEF sysinfo_task_port_power_down, Reset
<1>3. ASSUME NEW op \in {"begin_shutdown", "if_plugged", "clear_touch", "poll", "poll_exit"},
             NEW next \in {<<>>, <<"power_down">>, <<"clear_touch", "poll", "poll_exit">>},
             op = "if_plugged" \/ next # <<"clear_touch", "poll", "poll_exit">>,
             Does(t, op, next), UNCHANGED <<uiq, screen, auth>>
      PROVE  LockInv'
  <2>1. /\ next \in Seq(Ops) /\ ~Has(next, {"set"}) /\ ~Has(next, {"ui_lock"})
        /\ op \in Polling \/ ~Has(next, Polling)
    BY <1>3, FillersHarmless DEF Fillers, Polling
  <2> QED BY <1>3, <2>1, QuietLock DEF Open, Unlocking, SuccessOps
<1>4. CASE PreparePowerDown(t)
  BY <1>1, <1>3, <1>4 DEF PreparePowerDown, OnlySleep, OnlyAuth, OnlyEvents
<1>5. CASE PollExit(t)
  BY <1>3, <1>5 DEF PollExit, OnlySleep
<1> QED BY <1>2, <1>4, <1>5

LEMMA CoprocBootLock ==
    ASSUME TypeInv, LockInv, NEW t \in Tasks, sysinfo_task_handle_coproc_boot(t) PROVE LockInv'
<1>1. Does(t, "boot_handled", <<>>) /\ uiq' = Append(uiq, "READY") /\ UNCHANGED <<auth, screen>>
  BY DEF sysinfo_task_handle_coproc_boot
<1>2. Told => Told'
  BY <1>1, ToldAppend DEF UiEvents
<1>3. OrderInv'
  BY <1>1, <1>2, Programs, ShortPrograms, OrderKept DEF LockInv
<1>4. UnlockShown'
  BY <1>1, <1>2, Programs, UnlockKept DEF Open, LockInv, Unlocking
<1> QED BY <1>3, <1>4 DEF LockInv

-----------------------------------------------------------------------------
\* While a match has not unlocked the device yet the UI task does not run: the
\* matching task has the higher priority and waits for nothing.
LEMMA MatchRunsFirst ==
    ASSUME TypeInv, OrderInv, Has(todo["matching"], {"set"}) PROVE ~Runs("ui")
<1>1. Among(todo["matching"], SuccessOps)
  BY DEF OrderInv, SuccessRuns
<1>2. todo["matching"] \in Seq(Ops) /\ todo["matching"] # <<>>
  BY DEF TypeInv, TodoType, Tasks, Has
<1>3. 1 \in DOMAIN todo["matching"] /\ Head(todo["matching"]) = todo["matching"][1]
  BY <1>2
<1>4. At("matching") \in SuccessOps
  BY <1>1, <1>2, <1>3 DEF At, Among
<1>5. At("matching") \notin Waits \cup {"idle"} /\ At("matching") # "shutdown"
  BY <1>4 DEF SuccessOps, Waits
<1>6. Priority["matching"] > Priority["ui"]
  BY DEF Priority
<1> QED BY <1>5, <1>6 DEF Runs, Tasks

\* A task begins a program that neither unlocks nor shows the lock screen.
LEMMA BeginsLock ==
    ASSUME TypeInv, LockInv, NEW t \in Tasks \ {"ui"}, NEW program, todo[t] = <<>>,
           todo' = [todo EXCEPT ![t] = program],
           ~Has(program, {"set"}), ~Has(program, {"ui_lock"}),
           UNCHANGED <<uiq, screen>>, (Open' <=> Open)
    PROVE  LockInv'
<1>1. todo'[t] = program /\ \A u \in Tasks \ {t} : todo'[u] = todo[u]
  BY DEF TypeInv, TodoType
<1>2. OnlyMatchingSets' /\ OnlyUiLocks'
  BY <1>1 DEF LockInv, OrderInv, OnlyMatchingSets, OnlyUiLocks
<1>3. SuccessRuns' /\ SuccessTold'
  <2>1. CASE t = "matching"
    BY <1>1, <2>1 DEF SuccessRuns, SuccessTold, ToldFirst, Has
  <2>2. CASE t # "matching"
    BY <1>1, <2>2 DEF LockInv, OrderInv, SuccessRuns, SuccessTold, ToldFirst, Told, Tasks
  <2> QED BY <2>1, <2>2
<1>4. todo'["ui"] = todo["ui"]
  BY <1>1 DEF Tasks
<1>5. LockClears' /\ UiNeverPolls'
  BY <1>4 DEF LockInv, OrderInv, LockClears, UiNeverPolls
<1>6. UnlockShown'
  BY <1>4 DEF LockInv, UnlockShown, Told
<1> QED BY <1>2, <1>3, <1>5, <1>6 DEF LockInv, OrderInv

LEMMA LockDeviceProgram ==
    \A p \in {lock_device, <<"power_start">> \o lock_device} :
        ThenClears(p) /\ ~Has(p, {"set"}) /\ ~Has(p, Polling)
<1>1. ThenClears(lock_device) /\ ~Has(lock_device, {"set"}) /\ ~Has(lock_device, Polling)
  BY DEF lock_device, ThenClears, Has, Polling
<1>2. /\ lock_device \in Seq(Ops) /\ <<"power_start">> \in Seq(Ops)
      /\ ~Has(<<"power_start">>, {"set"}) /\ ~Has(<<"power_start">>, Polling)
  BY ShortPrograms DEF lock_device, Ops, Polling
<1>3. /\ ~Has(<<"power_start">> \o lock_device, {"set"})
      /\ ~Has(<<"power_start">> \o lock_device, Polling)
  BY <1>1, <1>2, HasJoined
<1>4. ThenClears(<<"power_start">> \o lock_device)
  <2> DEFINE r == <<"power_start">> \o lock_device
  <2>1. PICK p \in Seq(Ops), q \in Seq(Ops) :
          p = <<"power_start">> /\ q = lock_device /\ r = p \o q
    BY <1>2
  <2>2. Len(p) = 1 /\ p[1] = "power_start"
    BY <2>1
  <2>3. Len(q) = 3 /\ q[1] = "ui_lock" /\ q[2] = "deauth_if_auth" /\ q[3] = "refresh_auth"
    BY <2>1 DEF lock_device
  <2> HIDE DEF r
  <2>4. /\ Len(r) = Len(p) + Len(q) /\ DOMAIN r = 1 .. Len(p) + Len(q)
        /\ \A i \in 1 .. Len(p) + Len(q) : r[i] = IF i <= Len(p) THEN p[i] ELSE q[i - Len(p)]
    BY <2>1, Joined
  <2>5. /\ Len(r) = 4 /\ DOMAIN r = 1 .. 4
        /\ r[1] = "power_start" /\ r[3] = "deauth_if_auth" /\ r[4] = "refresh_auth"
    BY <2>2, <2>3, <2>4
  <2> QED BY <2>5 DEF ThenClears, r
<1> QED BY <1>1, <1>3, <1>4

\* The event of a match is handled under the power-off screen without effect,
\* but then the screen is not the lock screen; otherwise the unlocking follows.
LEMMA UiEventLock == ASSUME TypeInv, LockInv, display_controller_handle_ui_event PROVE LockInv'
<1> DEFINE e == Head(uiq)
<1> DEFINE program ==
          CASE e = "POWER_OFF" -> <<"ui_power_off", "refresh_auth">>
            [] e = "READY" /\ screen.off -> <<"power_start">> \o lock_device
            [] e = "READY" /\ ~screen.off -> <<"refresh_auth">>
            [] e = "ACTION_POWER_OFF" -> <<"post_power_off_requested">>
            [] e \in {"AUTH_LOCKED", "LOCK_DEVICE"} /\ ~screen.off -> lock_device
            [] e = "AUTH_SUCCESS" /\ ~screen.off -> <<"ui_unlock", "refresh_auth">>
            [] OTHER -> <<>>
<1>1. /\ todo' = [todo EXCEPT !["ui"] = program] /\ uiq' = Tail(uiq) /\ uiq # <<>>
      /\ todo["ui"] = <<>> /\ Runs("ui") /\ UNCHANGED <<auth, screen>>
  BY DEF display_controller_handle_ui_event, show_ready_screen, show_power_off
<1>2. program \in {<<"ui_power_off", "refresh_auth">>, <<"power_start">> \o lock_device,
                   <<"refresh_auth">>, <<"post_power_off_requested">>, lock_device,
                   <<"ui_unlock", "refresh_auth">>, <<>>}
  <2> HIDE DEF e
  <2> QED OBVIOUS
<1>3. e = "AUTH_SUCCESS" /\ ~screen.off => program = <<"ui_unlock", "refresh_auth">>
  <2> HIDE DEF e
  <2> QED OBVIOUS
<1>4. ~Has(program, {"set"}) /\ ~Has(program, Polling) /\ ThenClears(program)
  <2> HIDE DEF program
  <2>1. CASE program \in {lock_device, <<"power_start">> \o lock_device}
    BY <2>1, LockDeviceProgram
  <2>2. CASE program \in {<<"ui_power_off", "refresh_auth">>, <<"refresh_auth">>,
                          <<"post_power_off_requested">>, <<"ui_unlock", "refresh_auth">>, <<>>}
    <3>1. \A i \in DOMAIN program : program[i] \notin {"set", "ui_lock", "if_plugged", "poll"}
      BY <2>2
    <3> QED BY <3>1 DEF Has, ThenClears, Polling
  <2> QED BY <1>2, <2>1, <2>2
<1> HIDE DEF program
<1>5. todo'["ui"] = program /\ \A u \in Tasks \ {"ui"} : todo'[u] = todo[u]
  BY <1>1 DEF TypeInv, TodoType, Tasks
<1>6. ~Has(todo["matching"], {"set"})
  BY <1>1, MatchRunsFirst DEF LockInv
<1>7. OnlyMatchingSets' /\ OnlyUiLocks' /\ UiNeverPolls'
  BY <1>4, <1>5 DEF LockInv, OrderInv, OnlyMatchingSets, OnlyUiLocks, UiNeverPolls
<1>8. SuccessRuns' /\ SuccessTold'
  BY <1>5, <1>6 DEF SuccessRuns, SuccessTold, ToldFirst, Has, Tasks
<1>9. LockClears'
  BY <1>4, <1>5 DEF LockClears
<1>10. UnlockShown'
  <2> SUFFICES ASSUME screen.locked, ~screen.off, Open PROVE Told' \/ Has(todo'["ui"], Unlocking)
    BY <1>1 DEF UnlockShown, Open
  <2>1. Has(uiq, {"AUTH_SUCCESS"})
    BY <1>1, ShortPrograms DEF LockInv, UnlockShown, Told
  <2>2. CASE e = "AUTH_SUCCESS"
    <3>1. program = <<"ui_unlock", "refresh_auth">>
      BY <1>3, <2>2
    <3>2. 1 \in DOMAIN program /\ program[1] = "ui_unlock"
      BY <3>1
    <3> QED BY <1>5, <3>2 DEF Has, Unlocking
  <2>3. CASE e # "AUTH_SUCCESS"
    BY <1>1, <2>1, <2>3, HasShorter DEF TypeInv, UiType, Told
  <2> QED BY <2>2, <2>3
<1> QED BY <1>7, <1>8, <1>9, <1>10 DEF LockInv, OrderInv

LEMMA SysinfoThreadLock == ASSUME TypeInv, LockInv, sysinfo_thread PROVE LockInv'
<1> DEFINE program == CASE Head(sysq) = "LOCK_DEVICE" -> handle_lock_device
                        [] Head(sysq) = "BOOT_STATUS" -> <<"boot_handled">>
                        [] OTHER -> sysinfo_task_port_prepare_power_down
<1>1. /\ todo' = [todo EXCEPT !["sysinfo"] = program] /\ todo["sysinfo"] = <<>>
      /\ UNCHANGED <<uiq, screen, auth>>
  BY DEF sysinfo_thread
<1>2. program \in {handle_lock_device, <<"boot_handled">>, sysinfo_task_port_prepare_power_down}
  OBVIOUS
<1> HIDE DEF program
<1>3. ~Has(handle_lock_device, {"set"}) /\ ~Has(handle_lock_device, {"ui_lock"})
  BY Programs, ShortPrograms, HasThrice DEF handle_lock_device
<1>4. CASE program # handle_lock_device
  <2>1. \A i \in DOMAIN program : program[i] \notin {"set", "ui_lock"}
    BY <1>2, <1>4 DEF sysinfo_task_port_prepare_power_down
  <2> QED BY <1>1, <2>1, BeginsLock DEF Open, Has, Tasks
<1>5. CASE program = handle_lock_device
  BY <1>1, <1>3, <1>5, BeginsLock DEF Open, Tasks
<1> QED BY <1>4, <1>5

LEMMA TaskStepLock == ASSUME TypeInv, LockInv, TaskStep PROVE LockInv'
<1>1. ASSUME NEW t \in Tasks, Step(t) PROVE LockInv'
  BY <1>1, SetAuthenticatedLock, AuthTimerLock, DeauthenticateLock, OnLockLock,
     RefreshAuthLock,
     PowerTimerLock, MatchFailsLock, PostsLock, MarkDeviceLockedLock, ScreenChangesLock,
     ShutdownCallbackLock, PowerDownLock, CoprocBootLock DEF Step
<1> QED BY <1>1, UiEventLock, SysinfoThreadLock DEF TaskStep

LEMMA LockFrame ==
    ASSUME LockInv, UNCHANGED <<todo, screen>>, Told => Told', (Open' <=> Open)
    PROVE  LockInv'
BY DEF LockInv, OrderInv, OnlyMatchingSets, OnlyUiLocks, UiNeverPolls, SuccessRuns,
       SuccessTold,
       ToldFirst, LockClears, UnlockShown

LEMMA TimersLock == ASSUME TypeInv, LockInv, TimePasses \/ Expires PROVE LockInv'
<1>1. CASE TimePasses
  BY <1>1, LockFrame DEF AuthTypes, Open, TimePasses, TypeInv, AuthType, Told
<1>2. CASE Expires
  <2>1. ~Has(auth_timer_callback, {"set"}) /\ ~Has(auth_timer_callback, {"ui_lock"})
    BY Programs, ShortPrograms, HasThrice DEF auth_timer_callback
  <2>2. PICK program \in {auth_timer_callback, power_system_down_callback} :
          todo' = [todo EXCEPT !["timer"] = program]
    BY <1>2 DEF Expires
  <2>3. ~Has(power_system_down_callback, {"set"}) /\ ~Has(power_system_down_callback, {"ui_lock"})
    BY ShortPrograms DEF power_system_down_callback
  <2>4. ~Has(program, {"set"}) /\ ~Has(program, {"ui_lock"})
    BY <2>1, <2>2, <2>3
  <2>5. todo["timer"] = <<>> /\ UNCHANGED <<uiq, screen>> /\ (Open' <=> Open)
    BY <1>2 DEF AuthTypes, Open, Expires, TypeInv, AuthType
  <2> QED BY <2>2, <2>4, <2>5, BeginsLock DEF Tasks
<1> QED BY <1>1, <1>2

LEMMA InputsLock == ASSUME TypeInv, LockInv, Inputs PROVE LockInv'
<1>1. ASSUME NEW t \in Tasks \ {"ui"}, NEW program, Begins(t, program),
             \A i \in DOMAIN program : program[i] \notin {"set", "ui_lock"}
      PROVE  LockInv'
  <2>1. ~Has(program, {"set"}) /\ ~Has(program, {"ui_lock"})
    BY <1>1 DEF Has
  <2> QED BY <1>1, <2>1, BeginsLock DEF Open, Begins
<1>2. CASE Begins("matching", <<"refresh_power", "post_success">> \o do_authenticate)
  <2> DEFINE program == <<"refresh_power", "post_success">> \o do_authenticate
  <2>1. /\ DOMAIN program = 1 .. 5 /\ program[1] = "refresh_power" /\ program[2] = "post_success"
        /\ program[3] = "set" /\ program[4] = "restart" /\ program[5] = "power_stop"
    <3>1. PICK p \in Seq(Ops), q \in Seq(Ops) :
            p = <<"refresh_power", "post_success">> /\ q = do_authenticate /\ program = p \o q
      <4>1. <<"refresh_power", "post_success">> \in Seq(Ops) /\ do_authenticate \in Seq(Ops)
        BY DEF do_authenticate, Ops
      <4> QED BY <4>1
    <3>2. Len(p) = 2 /\ p[1] = "refresh_power" /\ p[2] = "post_success"
      BY <3>1
    <3>3. Len(q) = 3 /\ q[1] = "set" /\ q[2] = "restart" /\ q[3] = "power_stop"
      BY <3>1 DEF do_authenticate
    <3> HIDE DEF program
    <3>4. /\ DOMAIN program = 1 .. Len(p) + Len(q)
          /\ \A i \in 1 .. Len(p) + Len(q) :
                program[i] = IF i <= Len(p) THEN p[i] ELSE q[i - Len(p)]
      BY <3>1, Joined
    <3> QED BY <3>2, <3>3, <3>4
  <2> HIDE DEF program
  <2>2. /\ todo'["matching"] = program /\ \A u \in Tasks \ {"matching"} : todo'[u] = todo[u]
        /\ UNCHANGED <<uiq, screen, auth>>
    BY <1>2 DEF Begins, TypeInv, TodoType, Tasks, program
  <2>3. Among(program, SuccessOps) /\ ~Has(program, {"ui_lock"})
    BY <2>1 DEF Among, Has, SuccessOps
  <2>4. \A told : ToldFirst(program, told)
    BY <2>1 DEF ToldFirst
  <2>5. OnlyMatchingSets' /\ OnlyUiLocks' /\ SuccessRuns' /\ SuccessTold'
    BY <2>2, <2>3, <2>4
       DEF LockInv, OrderInv, OnlyMatchingSets, OnlyUiLocks, SuccessRuns, SuccessTold
  <2>6. LockClears' /\ UnlockShown' /\ UiNeverPolls'
    BY <2>2 DEF Open, LockInv, OrderInv, LockClears, UnlockShown, UiNeverPolls, Told, Tasks
  <2> QED BY <2>5, <2>6 DEF LockInv, OrderInv
<1>3. CASE Begins("matching", <<"refresh_power">> \o handle_match_fail)
  <2>1. <<"refresh_power">> \in Seq(Ops) /\ handle_match_fail \in Seq(Ops)
    BY DEF handle_match_fail, Ops
  <2>2. \A S \in {{"set"}, {"ui_lock"}} : ~Has(<<"refresh_power">>, S) /\ ~Has(handle_match_fail, S)
    BY ShortPrograms DEF handle_match_fail
  <2>3. /\ ~Has(<<"refresh_power">> \o handle_match_fail, {"set"})
        /\ ~Has(<<"refresh_power">> \o handle_match_fail, {"ui_lock"})
    BY <2>1, <2>2, HasJoined
  <2> QED BY <1>3, <2>3, BeginsLock DEF Open, Begins, Tasks
<1>4. CASE \/ Begins("matching", <<"refresh_power", "set_enrolled", "restart", "power_stop">>)
           \/ Begins("matching", <<"refresh_power">>)
  BY <1>1, <1>4 DEF Tasks
<1>5. CASE ipc_proto_route \/ handle_touch_event
  BY <1>1, <1>5 DEF ipc_proto_route, handle_touch_event, Tasks
<1>6. CASE handle_display_action
  <2>1. Told => Told'
    BY <1>6, ToldAppend DEF handle_display_action, UiEvents
  <2> QED BY <1>6, <2>1, LockFrame DEF Open, handle_display_action
<1>7. CASE charger_thread
  <2>1. ~Has(<<"charger">>, {"set"}) /\ ~Has(<<"charger">>, {"ui_lock"})
    BY ShortPrograms
  <2> QED BY <1>7, <2>1, BeginsLock DEF Open, charger_thread, Tasks
<1>8. CASE UxcReboots
  BY <1>8, LockFrame DEF Open, UxcReboots, Told
<1>9. CASE Wakes
  BY <1>9, BootedLock DEF Wakes
<1> QED BY <1>2, <1>3, <1>4, <1>5, <1>6, <1>7, <1>8, <1>9 DEF Inputs, auth_matching_thread

LEMMA InitLock == Init => LockInv
<1> SUFFICES ASSUME Init PROVE LockInv
  OBVIOUS
<1>1. \A t \in Tasks : todo[t] = <<>>
  BY DEF Init, Idle
<1>2. todo["ui"] = <<>> /\ todo["matching"] = <<>>
  BY <1>1 DEF Tasks
<1>3. OnlyMatchingSets /\ OnlyUiLocks /\ UiNeverPolls /\ SuccessRuns
  BY <1>1, <1>2, ShortPrograms DEF OnlyMatchingSets, OnlyUiLocks, UiNeverPolls, SuccessRuns
<1>4. SuccessTold /\ LockClears
  BY <1>2 DEF SuccessTold, ToldFirst, LockClears, ThenClears
<1>5. UnlockShown
  BY DEF Locked, Open, Init, UnlockShown
<1> QED BY <1>3, <1>4, <1>5 DEF LockInv, OrderInv

LEMMA NextLock == TypeInv /\ LockInv /\ [Next]_vars => LockInv'
<1> SUFFICES ASSUME TypeInv, LockInv, [Next]_vars PROVE LockInv'
  OBVIOUS
<1>1. CASE UNCHANGED vars
  BY <1>1, LockFrame DEF Open, vars, Told
<1> QED BY <1>1, TaskStepLock, TimersLock, InputsLock DEF Next

\* Behind a lock screen the device is locked once the tasks have come to rest:
\* mark_device_locked draws the screen before it locks, and do_authenticate
\* unlocks after it has told the UI, but no interleaving of the two leaves the
\* device unlocked. The priorities matter: were the UI task to run between the
\* event and the unlocking it would find the device still locked. An enrollment
\* unlocks without telling the UI, which the property excepts.
THEOREM ShownLockedIsLocked == Spec => []LockScreenMeansLocked
<1>1. Spec => []LockInv
  BY SpecTypeInv, InitLock, NextLock, PTL DEF Spec
<1>2. TypeInv /\ LockInv => LockScreenMeansLocked
  <2> SUFFICES ASSUME TypeInv, LockInv, AtRest, screen.locked, ~screen.off, ~auth.enrolled
               PROVE  ~auth.on
    BY DEF LockScreenMeansLocked
  <2>1. ~Told
    BY ShortPrograms DEF AtRest, Told
  <2>2. ~Has(todo["ui"], Unlocking)
    <3>1. At("ui") \in {"idle", "poll"}
      BY DEF AtRest, Tasks
    <3>2. todo["ui"] \in Seq(Ops)
      BY DEF TypeInv, TodoType, Tasks
    <3>3. CASE todo["ui"] = <<>>
      BY <3>3, ShortPrograms
    <3>4. CASE todo["ui"] # <<>>
      <4>1. 1 \in DOMAIN todo["ui"] /\ todo["ui"][1] = At("ui")
        BY <3>2, <3>4 DEF At
      <4>2. todo["ui"][1] # "poll"
        BY <4>1 DEF LockInv, OrderInv, UiNeverPolls, Has, Polling
      <4>3. todo["ui"][1] = "idle" /\ todo["ui"][1] \in Ops
        BY <3>1, <3>2, <4>1, <4>2
      <4> QED BY <4>3 DEF Ops, Waits
    <3> QED BY <3>3, <3>4
  <2> QED BY <2>1, <2>2 DEF LockInv, UnlockShown, Open
<1> QED BY <1>1, <1>2, SpecTypeInv, PTL

-----------------------------------------------------------------------------
(* A timer is left running *)
\* Who stops the expiry timer starts the power timer next.
ThenStarts(s) ==
    \A i \in DOMAIN s : s[i] = "timer_stop" => i < Len(s) /\ s[i + 1] = "power_start"

LEMMA ThenRest ==
    ASSUME NEW s \in Seq(Ops), s # <<>>, NEW next \in Seq(Ops),
           ThenStarts(s), ThenStarts(next)
    PROVE  ThenStarts(next \o Tail(s))
<1> DEFINE r == next \o Tail(s)
<1>0. /\ r \in Seq(Ops) /\ Len(r) = Len(next) + Len(s) - 1
      /\ Len(s) \in Nat \ {0} /\ Len(next) \in Nat
      /\ DOMAIN s = 1 .. Len(s) /\ DOMAIN next = 1 .. Len(next) /\ DOMAIN r = 1 .. Len(r)
      /\ \A i \in DOMAIN next : i \in DOMAIN r /\ r[i] = next[i]
      /\ \A i \in DOMAIN r : i > Len(next) => r[i] = s[i - Len(next) + 1]
  BY RestOf
<1> HIDE DEF r
<1> SUFFICES ASSUME NEW i \in DOMAIN r, r[i] = "timer_stop" PROVE i < Len(r) /\ r[i + 1] = "power_start"
  BY DEF ThenStarts, r
<1>1. CASE i <= Len(next)
  <2>1. i \in DOMAIN next /\ next[i] = "timer_stop"
    BY <1>0, <1>1
  <2>2. i < Len(next) /\ next[i + 1] = "power_start"
    BY <2>1 DEF ThenStarts
  <2>3. i + 1 \in DOMAIN next
    BY <1>0, <2>1, <2>2
  <2> QED BY <1>0, <2>2, <2>3
<1>2. CASE i > Len(next)
  <2> DEFINE k == i - Len(next) + 1
  <2>1. k \in DOMAIN s /\ s[k] = "timer_stop"
    BY <1>0, <1>2
  <2>2. k < Len(s) /\ s[k + 1] = "power_start"
    BY <2>1 DEF ThenStarts
  <2>3. i + 1 \in DOMAIN r /\ i + 1 > Len(next)
    BY <1>0, <1>2, <2>2
  <2>4. r[i + 1] = s[i + 1 - Len(next) + 1]
    BY <1>0, <2>3
  <2>5. i + 1 - Len(next) + 1 = k + 1
    BY <1>0
  <2> QED BY <1>0, <2>2, <2>3, <2>4, <2>5
<1> QED BY <1>0, <1>1, <1>2

LEMMA AmongRest ==
    ASSUME NEW s \in Seq(Ops), s # <<>>, NEW next \in Seq(Ops), NEW S, Among(s, S), Among(next, S)
    PROVE  Among(next \o Tail(s), S)
<1> DEFINE r == next \o Tail(s)
<1>0. /\ Len(r) = Len(next) + Len(s) - 1
      /\ Len(s) \in Nat \ {0} /\ Len(next) \in Nat
      /\ DOMAIN s = 1 .. Len(s) /\ DOMAIN next = 1 .. Len(next) /\ DOMAIN r = 1 .. Len(r)
      /\ \A i \in DOMAIN next : i \in DOMAIN r /\ r[i] = next[i]
      /\ \A i \in DOMAIN r : i > Len(next) => r[i] = s[i - Len(next) + 1]
  BY RestOf
<1> HIDE DEF r
<1> SUFFICES ASSUME NEW i \in DOMAIN r PROVE r[i] \in S
  BY DEF Among, r
<1>1. CASE i <= Len(next)
  <2>1. i \in DOMAIN next
    BY <1>0, <1>1
  <2> QED BY <1>0, <2>1 DEF Among
<1>2. CASE i > Len(next)
  <2>1. i - Len(next) + 1 \in DOMAIN s
    BY <1>0, <1>2
  <2> QED BY <1>0, <1>2, <2>1 DEF Among
<1> QED BY <1>0, <1>1, <1>2

\* The programs, by task.
ShutOps == {"shutdown", "post_shutdown"}
TimerOps == {"clear_shown", "timer_stop", "power_start", "on_lock", "on_lock_shown"}
NfcOps == {"refresh_power", "refresh_auth", "restart", "post_lock_cmd"}
MatchPrograms ==
    {<<"refresh_power", "post_success", "set", "restart", "power_stop">>,
     <<"post_success", "set", "restart", "power_stop">>, <<"set", "restart", "power_stop">>,
     <<"refresh_power", "set_enrolled", "restart", "power_stop">>,
     <<"set_enrolled", "restart", "power_stop">>, <<"restart", "power_stop">>, <<"power_stop">>}
PollOps == {"if_plugged", "clear_touch", "poll", "poll_exit"}
LatchedOps == PollOps \cup {"post_power_off"}
SysOps == LatchedOps \cup {"begin_shutdown", "power_down", "boot_handled"}
SysPrograms ==
    {<<"begin_shutdown", "post_power_off", "if_plugged">>, <<"post_power_off", "if_plugged">>,
     <<"if_plugged">>, <<"clear_touch", "poll", "poll_exit">>, <<"poll", "poll_exit">>,
     <<"poll_exit">>, <<"power_down">>, <<"boot_handled">>}
UiOps == {"ui_lock", "ui_power_off"}

TimerRuns == Among(todo["timer"], TimerOps) \/ Among(todo["timer"], ShutOps)
NfcRuns == Among(todo["nfc"], NfcOps)
MatchRuns == Has(todo["matching"], {"power_stop"}) => todo["matching"] \in MatchPrograms
OnlyMatchingStops == \A t \in Tasks \ {"matching"} : ~Has(todo[t], {"power_stop"})
StopStarts == \A t \in Tasks : ThenStarts(todo[t])
OnlySysinfo == \A t \in Tasks \ {"sysinfo"} : ~Has(todo[t], SysOps)
SysRuns == Has(todo["sysinfo"], SysOps) => todo["sysinfo"] \in SysPrograms
OnlyUi == \A t \in Tasks \ {"ui"} : ~Has(todo[t], UiOps)
UiRuns == Has(todo["ui"], {"ui_power_off"}) => ~Has(todo["ui"], {"ui_lock"})
ProgInv == /\ TimerRuns /\ NfcRuns /\ MatchRuns /\ OnlyMatchingStops /\ StopStarts
           /\ OnlySysinfo /\ SysRuns /\ OnlyUi /\ UiRuns

\* Before a match stops the power timer the expiry timer runs, and nobody is
\* about to stop that one.
MatchStops == todo["matching"] = <<"power_stop">> =>
                 auth.timer = "fresh" /\ Among(todo["timer"], ShutOps)

\* The power-off screen is shown, or will be, and no lock screen replaces it.
OffNow == \/ Has(todo["ui"], {"ui_power_off"})
          \/ screen.off /\ ~Has(todo["ui"], {"ui_lock"})
\* It will be when the events of q are handled.
LastOff(q, now) == \/ \E j \in DOMAIN q : /\ q[j] = "POWER_OFF"
                                         /\ \A k \in DOMAIN q : k > j => q[k] # "READY"
                   \/ now /\ ~Has(q, {"READY"})
\* One of them is READY, and comes to the power-off screen.
OffReady(q, now) == \E i \in DOMAIN q : /\ q[i] = "READY"
                                        /\ now \/ \E j \in DOMAIN q : j < i /\ q[j] = "POWER_OFF"
OffLast == LastOff(uiq, OffNow)
BootPending == Has(sysq, {"BOOT_STATUS"}) \/ Has(todo["sysinfo"], {"boot_handled"})
BootTold == events.boot => BootPending
PollLatched == At("sysinfo") \in LatchedOps => sleep.latched
PollOff == At("sysinfo") \in PollOps => OffLast
PollInv == BootTold /\ PollLatched /\ PollOff

\* After a cancelled shutdown it is the UXC's report that its display is ready,
\* handled under the power-off screen, that starts the power timer.
ReadyOff == OffReady(uiq, OffNow)
ReadyComes == ReadyOff \/ (BootPending /\ (OffNow \/ Has(uiq, {"POWER_OFF"})))
Arming == {"power_start", "clear", "clear_shown", "shutdown"}
WillArm == \E t \in Tasks : Has(todo[t], Arming)
Armed == auth.timer # "off" \/ sleep.timer # "off" \/ sleep.latched \/ WillArm \/ ReadyComes

\* A match that overtook a lock is the exception: it may stop the power timer of
\* a device whose expiry timer the lock stops after it was restarted.
ArmInv == ProgInv /\ PollInv /\ (auth.overtaken \/ (MatchStops /\ Armed))

-----------------------------------------------------------------------------
(* One operation of a task, seen from the timers *)
\* What an operation puts in front of the program.
LockFillers == {<<"timer_stop", "power_start", "on_lock">>,
                <<"timer_stop", "power_start", "on_lock_shown">>}
Follows(op, next) ==
    \/ next = <<>> /\ op \notin {"clear", "clear_shown", "if_plugged"}
    \/ op \in {"clear", "clear_shown"} /\ next \in LockFillers
    \/ op = "refresh_auth" /\ next = <<"restart">>
    \/ op = "deauth_if_locked" /\ next = <<"clear_shown">>
    \/ op = "deauth_if_auth" /\ next = <<"clear">>
    \/ op = "shutdown" /\ next = <<"post_shutdown">>
    \/ op = "if_plugged" /\ next = <<"clear_touch", "poll", "poll_exit">>
    \/ op \in {"if_plugged", "poll_exit"} /\ next = <<"power_down">>

Cancels(op, next) == op = "poll_exit" /\ next = <<>>
TimerEffect(op) == auth'.timer = IF op = "restart" THEN "fresh"
                                 ELSE IF op = "timer_stop" THEN "off" ELSE auth.timer
SleepEffect(op, next) ==
    /\ op \in {"shutdown", "begin_shutdown"} => sleep'.latched
    /\ sleep.latched => sleep'.latched \/ Cancels(op, next)
    /\ sleep.timer # "off" => sleep'.timer # "off" \/ op \in {"power_stop", "shutdown", "begin_shutdown"}
    /\ op = "power_start" => sleep'.timer # "off" \/ sleep'.latched
UiEffect(op) ==
    CASE op = "boot_handled" -> uiq' = Append(uiq, "READY")
      [] op = "post_power_off" -> uiq' = Append(uiq, "POWER_OFF")
      [] OTHER -> uiq' = uiq \/ \E e \in UiEvents \ {"READY"} : uiq' = Append(uiq, e)
SysEffect(op, next) ==
    /\ sysq' = sysq \/ \E e \in SysMsgs : sysq' = Append(sysq, e)
    /\ events'.boot => events.boot /\ op # "boot_handled"
    /\ Cancels(op, next) => events.boot /\ UNCHANGED uiq
ScreenEffect(op) == screen'.off = IF op = "ui_lock" THEN FALSE
                                  ELSE IF op = "ui_power_off" THEN TRUE ELSE screen.off
Effect(op, next) ==
    /\ op # "idle" /\ Follows(op, next) /\ TimerEffect(op) /\ SleepEffect(op, next)
    /\ UiEffect(op) /\ SysEffect(op, next) /\ ScreenEffect(op)

\* An operation that touches neither the screen nor a queue.
LEMMA LocalEffect ==
    ASSUME NEW op, NEW next, op \notin {"idle", "boot_handled", "post_power_off", "ui_lock",
                                        "ui_power_off"},
           Follows(op, next), UNCHANGED <<uiq, sysq, screen, events>>, ~Cancels(op, next),
           TimerEffect(op), SleepEffect(op, next)
    PROVE  Effect(op, next)
BY DEF Effect, UiEffect, SysEffect, ScreenEffect

LEMMA AuthEffects ==
    ASSUME TypeInv, NEW t \in Tasks,
           \/ SetAuthenticated(t) \/ RestartTimer(t) \/ StopTimer(t) \/ do_deauthenticate(t)
           \/ refresh_auth(t) \/ MatchFails(t)
    PROVE  \E op, next : Does(t, op, next) /\ Effect(op, next)
<1>1. PICK op, next : 
        /\ Does(t, op, next) /\ Follows(op, next) /\ TimerEffect(op)
        /\ op \in {"set", "set_enrolled", "restart", "timer_stop", "clear", "clear_shown", "refresh_auth",
                   "deauth_if_locked"}
  <2>1. CASE SetAuthenticated(t)
    BY <2>1 DEF SetAuthenticated, OnlyAuth, TypeInv, AuthType, AuthTypes, Follows, TimerEffect
  <2>2. CASE RestartTimer(t)
    BY <2>2 DEF RestartTimer, OnlyAuth, TypeInv, AuthType, AuthTypes, Follows, TimerEffect
  <2>3. CASE StopTimer(t)
    BY <2>3 DEF StopTimer, OnlyAuth, TypeInv, AuthType, AuthTypes, Follows, TimerEffect
  <2>4. CASE do_deauthenticate(t)
    BY <2>4 DEF do_deauthenticate, OnlyAuth, TypeInv, AuthType, AuthTypes, Follows, TimerEffect, LockFillers
  <2>5. CASE refresh_auth(t)
    BY <2>5 DEF refresh_auth, OnlyAuth, Follows, TimerEffect
  <2>6. CASE MatchFails(t)
    BY <2>6 DEF MatchFails, OnlyAuth, Follows, TimerEffect
  <2> QED BY <2>1, <2>2, <2>3, <2>4, <2>5, <2>6
<1>2. UNCHANGED <<sleep, uiq, sysq, screen, events>>
  BY DEF SetAuthenticated, RestartTimer, StopTimer, do_deauthenticate, refresh_auth, MatchFails,
         OnlyAuth
<1>3. SleepEffect(op, next) /\ ~Cancels(op, next)
  BY <1>1, <1>2 DEF SleepEffect, Cancels
<1> QED BY <1>1, <1>2, <1>3, LocalEffect

LEMMA SleepEffects ==
    ASSUME TypeInv, NEW t \in Tasks, PowerTimer(t)
    PROVE  \E op, next : Does(t, op, next) /\ Effect(op, next)
<1>1. PICK op \in {"power_start", "power_stop", "refresh_power", "charger"} :
        /\ Does(t, op, <<>>) /\ UNCHANGED <<auth, uiq, sysq, screen, events>>
        /\ sleep' = CASE op = "power_start" -> sleep_start_power_timer(sleep)
                      [] op = "power_stop" -> sleep_stop_power_timer(sleep)
                      [] OTHER -> sleep_refresh_power_timer(sleep)
  BY DEF PowerTimer, OnlySleep, sleep_set_charger_extension
<1>2. SleepEffect(op, <<>>)
  <2>1. sleep \in SleepTypes
    BY DEF TypeInv, SleepInv, Latch
  <2>2. CASE op = "power_start"
    BY <1>1, <2>1, <2>2 DEF SleepEffect, SleepTypes, sleep_start_power_timer
  <2>3. CASE op = "power_stop"
    BY <1>1, <2>1, <2>3 DEF SleepEffect, SleepTypes, sleep_stop_power_timer
  <2>4. CASE op \notin {"power_start", "power_stop"}
    <3>1. sleep' = sleep_refresh_power_timer(sleep)
      BY <1>1, <2>4
    <3>2. op \in {"refresh_power", "charger"}
      BY <2>4
    <3> QED BY <2>1, <3>1, <3>2 DEF SleepEffect, SleepTypes, sleep_refresh_power_timer
  <2> QED BY <2>2, <2>3, <2>4
<1>3. Follows(op, <<>>) /\ TimerEffect(op) /\ ~Cancels(op, <<>>)
  BY <1>1 DEF Follows, TimerEffect, Cancels
<1> QED BY <1>1, <1>2, <1>3, LocalEffect

\* An operation that leaves both timers alone and puts nothing in front.
LEMMA PostEffect ==
    ASSUME NEW op, op \notin {"idle", "clear", "clear_shown", "if_plugged", "restart", "timer_stop",
                              "power_start", "power_stop", "shutdown", "begin_shutdown", "poll_exit"},
           UNCHANGED <<auth, sleep>>, UiEffect(op), ScreenEffect(op),
           sysq' = sysq \/ \E e \in SysMsgs : sysq' = Append(sysq, e),
           events'.boot => events.boot /\ op # "boot_handled"
    PROVE  Effect(op, <<>>)
BY DEF Effect, Follows, TimerEffect, SleepEffect, SysEffect, Cancels

LEMMA PostEffects ==
    ASSUME TypeInv, NEW t \in Tasks,
           on_lock(t) \/ Posts(t) \/ ScreenChanges(t) \/ sysinfo_task_handle_coproc_boot(t)
    PROVE  \E op, next : Does(t, op, next) /\ Effect(op, next)
<1>1. events \in [touch : BOOLEAN, boot : BOOLEAN, plugged : BOOLEAN]
      /\ screen \in [locked : BOOLEAN, off : BOOLEAN]
  BY DEF TypeInv, EventsType, ScreenType
<1>2. CASE on_lock(t)
  <2>1. CASE Does(t, "on_lock_shown", <<>>) /\ OnlyUiQueue("AUTH_LOCKED")
    <3>1. Effect("on_lock_shown", <<>>)
      BY <2>1, PostEffect DEF OnlyUiQueue, UiEffect, ScreenEffect, UiEvents
    <3> QED BY <2>1, <3>1
  <2>2. CASE Does(t, "on_lock", <<>>) /\ OnlyAuth(auth)
    <3>1. Effect("on_lock", <<>>)
      BY <2>2, PostEffect DEF OnlyAuth, UiEffect, ScreenEffect
    <3> QED BY <2>2, <3>1
  <2> QED BY <1>2, <2>1, <2>2 DEF on_lock
<1>3. CASE Posts(t)
  <2>1. CASE Does(t, "post_success", <<>>) /\ OnlyUiQueue("AUTH_SUCCESS")
    <3>1. Effect("post_success", <<>>)
      BY <2>1, PostEffect DEF OnlyUiQueue, UiEffect, ScreenEffect, UiEvents
    <3> QED BY <2>1, <3>1
  <2>2. CASE Does(t, "post_lock_cmd", <<>>) /\ OnlySysQueue("LOCK_DEVICE")
    <3>1. Effect("post_lock_cmd", <<>>)
      BY <2>2, PostEffect DEF OnlySysQueue, UiEffect, ScreenEffect, SysMsgs
    <3> QED BY <2>2, <3>1
  <2>3. CASE Does(t, "touched", <<>>) /\ OnlyEvents([events EXCEPT !.touch = TRUE])
    <3>1. Effect("touched", <<>>)
      BY <1>1, <2>3, PostEffect DEF OnlyEvents, UiEffect, ScreenEffect
    <3> QED BY <2>3, <3>1
  <2> QED BY <1>3, <2>1, <2>2, <2>3 DEF Posts
<1>4. CASE ScreenChanges(t)
  <2>1. CASE Does(t, "ui_unlock", <<>>) /\ OnlyScreen([screen EXCEPT !.locked = FALSE])
    <3>1. Effect("ui_unlock", <<>>)
      BY <1>1, <2>1, PostEffect DEF OnlyScreen, UiEffect, ScreenEffect
    <3> QED BY <2>1, <3>1
  <2>2. CASE Does(t, "ui_power_off", <<>>) /\ OnlyScreen([screen EXCEPT !.off = TRUE])
    <3>1. Effect("ui_power_off", <<>>)
      BY <1>1, <2>2, PostEffect DEF OnlyScreen, UiEffect, ScreenEffect
    <3> QED BY <2>2, <3>1
  <2>3. CASE Does(t, "post_power_off_requested", <<>>) /\ OnlySysQueue("POWER_OFF_REQUESTED")
    <3>1. Effect("post_power_off_requested", <<>>)
      BY <2>3, PostEffect DEF OnlySysQueue, UiEffect, ScreenEffect, SysMsgs
    <3> QED BY <2>3, <3>1
  <2> QED BY <1>4, <2>1, <2>2, <2>3 DEF ScreenChanges
<1>5. CASE sysinfo_task_handle_coproc_boot(t)
  <2>1. Effect("boot_handled", <<>>)
    BY <1>1, <1>5, PostEffect DEF sysinfo_task_handle_coproc_boot, UiEffect, ScreenEffect
  <2> QED BY <1>5, <2>1 DEF sysinfo_task_handle_coproc_boot
<1> QED BY <1>2, <1>3, <1>4, <1>5

LEMMA MarkLockedEffects ==
    ASSUME TypeInv, NEW t \in Tasks, mark_device_locked(t)
    PROVE  \E op, next : Does(t, op, next) /\ Effect(op, next)
<1>1. CASE Does(t, "ui_lock", <<>>) /\ OnlyScreen([locked |-> TRUE, off |-> FALSE])
  <2>1. Effect("ui_lock", <<>>)
    BY <1>1, PostEffect DEF OnlyScreen, UiEffect, ScreenEffect
  <2> QED BY <1>1, <2>1
<1>2. ASSUME NEW next \in {<<"clear">>, <<>>}, Does(t, "deauth_if_auth", next), OnlyAuth(auth)
      PROVE  Effect("deauth_if_auth", next)
  BY <1>2, LocalEffect DEF OnlyAuth, Follows, TimerEffect, SleepEffect, Cancels
<1> QED BY <1>1, <1>2 DEF mark_device_locked

LEMMA ShutdownEffects ==
    ASSUME TypeInv, NEW t \in Tasks, ShutdownCallback(t), ~Reset
    PROVE  \E op, next : Does(t, op, next) /\ Effect(op, next)
<1>1. ASSUME NEW next \in {<<"post_shutdown">>, <<>>}, Does(t, "shutdown", next),
             OnlySleep(sleep_begin_shutdown(sleep))
      PROVE  Effect("shutdown", next)
  <2>1. SleepEffect("shutdown", next)
    BY <1>1 DEF OnlySleep, SleepEffect, sleep_begin_shutdown
  <2> QED BY <1>1, <2>1, LocalEffect DEF OnlySleep, Follows, TimerEffect, Cancels
<1>2. CASE Does(t, "post_shutdown", <<>>) /\ OnlySysQueue("POWER_OFF_REQUESTED")
  <2>1. Effect("post_shutdown", <<>>)
    BY <1>2, PostEffect DEF OnlySysQueue, UiEffect, ScreenEffect, SysMsgs
  <2> QED BY <1>2, <2>1
<1> QED BY <1>1, <1>2 DEF ShutdownCallback

LEMMA PowerDownEffects ==
    ASSUME TypeInv, NEW t \in Tasks, PreparePowerDown(t) \/ PollExit(t)
    PROVE  \E op, next : Does(t, op, next) /\ Effect(op, next)
<1>1. CASE Does(t, "begin_shutdown", <<>>) /\ OnlySleep(sleep_begin_shutdown(sleep))
  <2>1. SleepEffect("begin_shutdown", <<>>)
    BY <1>1 DEF OnlySleep, SleepEffect, sleep_begin_shutdown
  <2>2. Effect("begin_shutdown", <<>>)
    BY <1>1, <2>1, LocalEffect DEF OnlySleep, Follows, TimerEffect, Cancels
  <2> QED BY <1>1, <2>2
<1>2. CASE Does(t, "post_power_off", <<>>) /\ OnlyUiQueue("POWER_OFF")
  <2>1. Effect("post_power_off", <<>>)
    BY <1>2, PostEffect DEF OnlyUiQueue, UiEffect, ScreenEffect
  <2> QED BY <1>2, <2>1
<1>3. ASSUME NEW next \in {<<"clear_touch", "poll", "poll_exit">>, <<"power_down">>},
             Does(t, "if_plugged", next), OnlyAuth(auth)
      PROVE  Effect("if_plugged", next)
  BY <1>3, LocalEffect DEF OnlyAuth, Follows, TimerEffect, SleepEffect, Cancels
<1>4. CASE Does(t, "clear_touch", <<>>) /\ OnlyEvents([events EXCEPT !.touch = FALSE])
  <2>1. events'.boot = events.boot
    BY <1>4 DEF OnlyEvents, TypeInv, EventsType
  <2>2. Effect("clear_touch", <<>>)
    BY <1>4, <2>1, PostEffect DEF OnlyEvents, UiEffect, ScreenEffect
  <2> QED BY <1>4, <2>2
<1>5. CASE Does(t, "poll", <<>>) /\ OnlyAuth(auth)
  <2>1. Effect("poll", <<>>)
    BY <1>5, PostEffect DEF OnlyAuth, UiEffect, ScreenEffect
  <2> QED BY <1>5, <2>1
<1>6. CASE /\ Does(t, "poll_exit", <<>>) /\ events.boot
           /\ OnlySleep(sleep_cancel_shutdown(sleep))
  <2>1. SleepEffect("poll_exit", <<>>)
    BY <1>6
       DEF OnlySleep, SleepEffect, sleep_cancel_shutdown, Cancels, TypeInv, SleepInv, Latch,
           SleepTypes
  <2>2. Effect("poll_exit", <<>>)
    BY <1>6, <2>1 DEF OnlySleep, Effect, Follows, TimerEffect, UiEffect, SysEffect, ScreenEffect
  <2> QED BY <1>6, <2>2
<1>7. CASE Does(t, "poll_exit", <<"power_down">>) /\ OnlySleep(sleep)
  <2>1. ~Cancels("poll_exit", <<"power_down">>)
    BY DEF Cancels
  <2>2. Effect("poll_exit", <<"power_down">>)
    BY <1>7, <2>1, LocalEffect DEF OnlySleep, Follows, TimerEffect, SleepEffect
  <2> QED BY <1>7, <2>2
<1>8. CASE PreparePowerDown(t)
  <2>1. ASSUME NEW next \in {<<"clear_touch", "poll", "poll_exit">>, <<"power_down">>},
               Does(t, "if_plugged", next), OnlyAuth(auth)
        PROVE  \E op, n : Does(t, op, n) /\ Effect(op, n)
    BY <1>3, <2>1
  <2> QED BY <1>1, <1>2, <1>4, <1>5, <1>8, <2>1 DEF PreparePowerDown
<1>9. CASE PollExit(t)
  BY <1>6, <1>7, <1>9 DEF PollExit
<1> QED BY <1>8, <1>9

\* Every step of a task is a reset or one operation with its effect.
LEMMA StepEffect ==
    ASSUME TypeInv, NEW t \in Tasks, Step(t)
    PROVE  \/ \E on \in {"on", "off"} : \E plugged : Booted(on, plugged)
           \/ \E op, next : Does(t, op, next) /\ Effect(op, next)
<1>1. CASE Reset \/ sysinfo_task_port_power_down(t)
  BY <1>1 DEF Reset, sysinfo_task_port_power_down
<1> QED
  BY <1>1, AuthEffects, SleepEffects, PostEffects, MarkLockedEffects, ShutdownEffects,
     PowerDownEffects DEF Step

\* Only the match itself decides whether it overtook a lock.
Overtakes(t) ==
    auth'.overtaken = IF t = "matching" /\ At(t) = "restart"
                      THEN At("timer") \in {"on_lock", "on_lock_shown"} ELSE auth.overtaken

LEMMA StepOvertakes ==
    ASSUME TypeInv, NEW t \in Tasks, Step(t)
    PROVE  Overtakes(t) \/ \E on \in {"on", "off"} : \E plugged : Booted(on, plugged)
<1>1. CASE Reset \/ sysinfo_task_port_power_down(t)
  BY <1>1 DEF Reset, sysinfo_task_port_power_down
<1>2. CASE RestartTimer(t)
  BY <1>2 DEF RestartTimer, Does, OnlyAuth, TypeInv, AuthType, AuthTypes, Overtakes
<1>3. CASE SetAuthenticated(t) \/ StopTimer(t) \/ do_deauthenticate(t)
  <2>1. At(t) # "restart"
    BY <1>3 DEF SetAuthenticated, StopTimer, do_deauthenticate, Does
  <2>2. auth'.overtaken = auth.overtaken
    BY <1>3
       DEF SetAuthenticated, StopTimer, do_deauthenticate, OnlyAuth, TypeInv, AuthType, AuthTypes
  <2> QED BY <2>1, <2>2 DEF Overtakes
<1>4. CASE on_lock(t) \/ refresh_auth(t) \/ PowerTimer(t) \/ MatchFails(t) \/ Posts(t)
           \/ mark_device_locked(t) \/ ScreenChanges(t)
  BY <1>4
     DEF on_lock, refresh_auth, PowerTimer, MatchFails, Posts, mark_device_locked, ScreenChanges,
         Does, OnlyAuth, OnlySleep, OnlyEvents, OnlyScreen, OnlyUiQueue, OnlySysQueue, Overtakes
<1>5. CASE (ShutdownCallback(t) /\ ~Reset) \/ PreparePowerDown(t) \/ PollExit(t)
           \/ sysinfo_task_handle_coproc_boot(t)
  BY <1>5
     DEF ShutdownCallback, PreparePowerDown, PollExit, sysinfo_task_handle_coproc_boot,
         Does, OnlyAuth, OnlySleep, OnlyEvents, OnlyUiQueue, OnlySysQueue, Overtakes
<1> QED BY <1>1, <1>2, <1>3, <1>4, <1>5 DEF Step

-----------------------------------------------------------------------------
(* The programs *)
\* What an operation puts in front, by what it is allowed to be.
LEMMA FollowsFacts ==
    ASSUME NEW op, NEW next, Follows(op, next)
    PROVE  /\ next \in Seq(Ops) /\ ~Has(next, {"power_stop"}) /\ ~Has(next, UiOps)
           /\ ~Has(next, {"boot_handled"}) /\ ThenStarts(next)
           /\ op \in SysOps \/ ~Has(next, SysOps)
           /\ op \in TimerOps => Among(next, TimerOps)
           /\ op \in ShutOps => Among(next, ShutOps)
           /\ op \in NfcOps => Among(next, NfcOps)
           /\ op \in SuccessOps => next = <<>>
           /\ op \in {"clear", "clear_shown"} => Has(next, {"power_start"})
<1>1. next \in Fillers
  BY DEF Follows, Fillers, LockFillers
<1>2. /\ next \in Seq(Ops)
      /\ \A i \in DOMAIN next : next[i] \notin {"power_stop", "ui_lock", "ui_power_off", "boot_handled"}
  <2>1. next \in Seq(Ops)
    BY <1>1, FillersHarmless
  <2>2. \A i \in DOMAIN next : next[i] \notin {"power_stop", "ui_lock", "ui_power_off", "boot_handled"}
    BY <1>1 DEF Fillers
  <2> QED BY <2>1, <2>2
<1>3. ~Has(next, {"power_stop"}) /\ ~Has(next, UiOps) /\ ~Has(next, {"boot_handled"})
  BY <1>2 DEF Has, UiOps
<1>4. ThenStarts(next)
  BY <1>1 DEF Fillers, ThenStarts
<1>5. op \in SysOps \/ ~Has(next, SysOps)
  <2> SUFFICES ASSUME op \notin SysOps, NEW i \in DOMAIN next PROVE next[i] \notin SysOps
    BY DEF Has
  <2>1. op \notin {"if_plugged", "poll_exit"}
    BY DEF SysOps, LatchedOps, PollOps
  <2>2. next \in {<<>>, <<"restart">>, <<"clear_shown">>, <<"clear">>, <<"post_shutdown">>} \cup LockFillers
    BY <2>1 DEF Follows
  <2> QED BY <2>2 DEF LockFillers, SysOps, LatchedOps, PollOps
<1>6. op \in TimerOps => Among(next, TimerOps)
  <2> SUFFICES ASSUME op \in TimerOps, NEW i \in DOMAIN next PROVE next[i] \in TimerOps
    BY DEF Among
  <2>1. next \in {<<>>} \cup LockFillers
    BY DEF Follows, TimerOps
  <2> QED BY <2>1 DEF LockFillers, TimerOps
<1>7. op \in ShutOps => Among(next, ShutOps)
  <2> SUFFICES ASSUME op \in ShutOps, NEW i \in DOMAIN next PROVE next[i] \in ShutOps
    BY DEF Among
  <2>1. next \in {<<>>, <<"post_shutdown">>}
    BY DEF Follows, ShutOps
  <2> QED BY <2>1 DEF ShutOps
<1>8. op \in NfcOps => Among(next, NfcOps)
  <2> SUFFICES ASSUME op \in NfcOps, NEW i \in DOMAIN next PROVE next[i] \in NfcOps
    BY DEF Among
  <2>1. next \in {<<>>, <<"restart">>}
    BY DEF Follows, NfcOps
  <2> QED BY <2>1 DEF NfcOps
<1>9. op \in SuccessOps => next = <<>>
  BY DEF Follows, SuccessOps
<1>10. op \in {"clear", "clear_shown"} => Has(next, {"power_start"})
  <2> SUFFICES ASSUME op \in {"clear", "clear_shown"} PROVE 2 \in DOMAIN next /\ next[2] = "power_start"
    BY DEF Has
  <2>1. next \in LockFillers
    BY DEF Follows
  <2> QED BY <2>1 DEF LockFillers
<1> QED BY <1>2, <1>3, <1>4, <1>5, <1>6, <1>7, <1>8, <1>9, <1>10

\* The program of a task before and after an operation.
LEMMA DoesProgram ==
    ASSUME TypeInv, NEW t \in Tasks, NEW op, op # "idle", NEW next, Follows(op, next),
           Does(t, op, next)
    PROVE  /\ todo[t] \in Seq(Ops) /\ todo[t] # <<>> /\ Head(todo[t]) = op
           /\ 1 \in DOMAIN todo[t] /\ todo[t][1] = op /\ next \in Seq(Ops)
           /\ todo'[t] = next \o Tail(todo[t])
           /\ \A u \in Tasks \ {t} : todo'[u] = todo[u]
           /\ \A S : Has(todo'[t], S) => Has(next, S) \/ Has(todo[t], S)
           /\ \A S : Has(next, S) => Has(todo'[t], S)
           /\ \A S : Has(todo[t], S) /\ op \notin S => Has(todo'[t], S)
<1>1. next \in Seq(Ops)
  BY FollowsFacts
<1>2. /\ todo[t] \in Seq(Ops) /\ todo[t] # <<>> /\ Head(todo[t]) = op
      /\ todo'[t] = next \o Tail(todo[t])
      /\ \A u \in Tasks \ {t} : todo'[u] = todo[u]
  BY <1>1, DoesFacts
<1>3. 1 \in DOMAIN todo[t] /\ todo[t][1] = op
  BY <1>2
<1>4. ASSUME NEW S
      PROVE  /\ Has(todo'[t], S) => Has(next, S) \/ Has(todo[t], S)
             /\ Has(next, S) => Has(todo'[t], S)
             /\ Has(todo[t], S) /\ op \notin S => Has(todo'[t], S)
  BY <1>1, <1>2, HasRest
<1> QED BY <1>1, <1>2, <1>3, <1>4

\* What is left of the program of a match, and of one of the sysinfo task.
LEMMA MatchRest ==
    ASSUME NEW s \in MatchPrograms
    PROVE  /\ s = <<"power_stop">> \/ <<>> \o Tail(s) \in MatchPrograms
           /\ <<>> \o Tail(s) = <<"power_stop">> => Head(s) = "restart"
           /\ Head(s) = "power_stop" => s = <<"power_stop">>
           /\ Head(s) \in SuccessOps
<1>1. CASE s = <<"refresh_power", "post_success", "set", "restart", "power_stop">>
  <2>1. <<>> \o Tail(s) = <<"post_success", "set", "restart", "power_stop">>
    BY <1>1
  <2> QED BY <1>1, <2>1 DEF MatchPrograms, SuccessOps
<1>2. CASE s = <<"post_success", "set", "restart", "power_stop">>
  <2>1. <<>> \o Tail(s) = <<"set", "restart", "power_stop">>
    BY <1>2
  <2> QED BY <1>2, <2>1 DEF MatchPrograms, SuccessOps
<1>3. CASE s = <<"set", "restart", "power_stop">>
  <2>1. <<>> \o Tail(s) = <<"restart", "power_stop">>
    BY <1>3
  <2> QED BY <1>3, <2>1 DEF MatchPrograms, SuccessOps
<1>4. CASE s = <<"restart", "power_stop">>
  <2>1. <<>> \o Tail(s) = <<"power_stop">>
    BY <1>4
  <2> QED BY <1>4, <2>1 DEF MatchPrograms, SuccessOps
<1>5. CASE s = <<"power_stop">>
  <2>1. <<>> \o Tail(s) = <<>>
    BY <1>5
  <2> QED BY <1>5, <2>1 DEF SuccessOps
<1>6. CASE s = <<"refresh_power", "set_enrolled", "restart", "power_stop">>
  <2>1. <<>> \o Tail(s) = <<"set_enrolled", "restart", "power_stop">>
    BY <1>6
  <2> QED BY <1>6, <2>1 DEF MatchPrograms, SuccessOps
<1>7. CASE s = <<"set_enrolled", "restart", "power_stop">>
  <2>1. <<>> \o Tail(s) = <<"restart", "power_stop">>
    BY <1>7
  <2> QED BY <1>7, <2>1 DEF MatchPrograms, SuccessOps
<1> QED BY <1>1, <1>2, <1>3, <1>4, <1>5, <1>6, <1>7 DEF MatchPrograms

LEMMA SysRest ==
    ASSUME NEW s \in SysPrograms, NEW next, Follows(Head(s), next)
    PROVE  /\ Head(s) \in SysOps
           /\ \/ next \o Tail(s) = <<>>
              \/ next \o Tail(s) \in SysPrograms
           /\ next \o Tail(s) # <<>> =>
                /\ Head(next \o Tail(s)) \in LatchedOps =>
                      Head(s) = "begin_shutdown" \/ (Head(s) \in LatchedOps /\ Head(s) # "poll_exit")
                /\ Head(next \o Tail(s)) \in PollOps => Head(s) \in PollOps \cup {"post_power_off"}
           /\ Head(s) \in {"poll_exit", "boot_handled"} => s = <<Head(s)>>
<1> USE DEF SysOps, LatchedOps, PollOps
<1>1. CASE s = <<"begin_shutdown", "post_power_off", "if_plugged">>
  <2> DEFINE r == next \o Tail(s)
  <2>1. r = <<"post_power_off", "if_plugged">>
    BY <1>1 DEF Follows
  <2>2. Head(s) = "begin_shutdown"
    BY <1>1
  <2> HIDE DEF r
  <2>3. Head(r) = "post_power_off"
    BY <2>1
  <2> QED BY <2>1, <2>2, <2>3 DEF SysPrograms, r
<1>2. CASE s = <<"post_power_off", "if_plugged">>
  <2>1. next \o Tail(s) = <<"if_plugged">>
    BY <1>2 DEF Follows
  <2> QED BY <1>2, <2>1 DEF SysPrograms
<1>3. CASE s = <<"if_plugged">>
  <2>1. \/ next \o Tail(s) = <<"clear_touch", "poll", "poll_exit">>
        \/ next \o Tail(s) = <<"power_down">>
    BY <1>3 DEF Follows
  <2> QED BY <1>3, <2>1 DEF SysPrograms
<1>4. CASE s = <<"clear_touch", "poll", "poll_exit">>
  <2>1. next \o Tail(s) = <<"poll", "poll_exit">>
    BY <1>4 DEF Follows
  <2> QED BY <1>4, <2>1 DEF SysPrograms
<1>5. CASE s = <<"poll", "poll_exit">>
  <2>1. next \o Tail(s) = <<"poll_exit">>
    BY <1>5 DEF Follows
  <2> QED BY <1>5, <2>1 DEF SysPrograms
<1>6. CASE s = <<"poll_exit">>
  <2>1. next \o Tail(s) = <<>> \/ next \o Tail(s) = <<"power_down">>
    BY <1>6 DEF Follows
  <2> QED BY <1>6, <2>1 DEF SysPrograms
<1>7. CASE s = <<"power_down">>
  <2>1. next \o Tail(s) = <<>>
    BY <1>7 DEF Follows
  <2> QED BY <1>7, <2>1
<1>8. CASE s = <<"boot_handled">>
  <2>1. next \o Tail(s) = <<>>
    BY <1>8 DEF Follows
  <2> QED BY <1>8, <2>1
<1> QED BY <1>1, <1>2, <1>3, <1>4, <1>5, <1>6, <1>7, <1>8 DEF SysPrograms

LEMMA ProgKept ==
    ASSUME TypeInv, ProgInv, NEW t \in Tasks, NEW op, op # "idle", NEW next, Follows(op, next),
           Does(t, op, next)
    PROVE  ProgInv'
<1>1. /\ todo[t] \in Seq(Ops) /\ todo[t] # <<>> /\ Head(todo[t]) = op
      /\ 1 \in DOMAIN todo[t] /\ todo[t][1] = op /\ next \in Seq(Ops)
      /\ todo'[t] = next \o Tail(todo[t])
      /\ \A u \in Tasks \ {t} : todo'[u] = todo[u]
      /\ \A S : Has(todo'[t], S) => Has(next, S) \/ Has(todo[t], S)
  BY DoesProgram
<1>2. /\ ~Has(next, {"power_stop"}) /\ ~Has(next, UiOps)
      /\ ThenStarts(next)
      /\ op \in SysOps \/ ~Has(next, SysOps)
      /\ op \in TimerOps => Among(next, TimerOps)
      /\ op \in ShutOps => Among(next, ShutOps)
      /\ op \in NfcOps => Among(next, NfcOps)
      /\ op \in SuccessOps => next = <<>>
  BY FollowsFacts
<1>3. ASSUME NEW S, Among(todo[t], S), op \in S => Among(next, S) PROVE Among(todo'[t], S)
  <2>1. op \in S
    BY <1>1, <1>3 DEF Among
  <2> QED BY <1>1, <1>3, <2>1, AmongRest
<1>4. TimerRuns'
  <2>1. CASE t = "timer"
    BY <1>2, <1>3, <2>1 DEF ProgInv, TimerRuns
  <2>2. CASE t # "timer"
    BY <1>1, <2>2 DEF ProgInv, TimerRuns, Tasks
  <2> QED BY <2>1, <2>2
<1>5. NfcRuns'
  <2>1. CASE t = "nfc"
    BY <1>2, <1>3, <2>1 DEF ProgInv, NfcRuns
  <2>2. CASE t # "nfc"
    BY <1>1, <2>2 DEF ProgInv, NfcRuns, Tasks
  <2> QED BY <2>1, <2>2
<1>6. MatchRuns'
  <2>1. CASE t = "matching"
    <3> SUFFICES ASSUME Has(todo'[t], {"power_stop"}) PROVE todo'[t] \in MatchPrograms
      BY <2>1 DEF MatchRuns
    <3>1. todo[t] \in MatchPrograms
      BY <1>1, <1>2, <2>1 DEF ProgInv, MatchRuns
    <3>2. next = <<>>
      BY <1>1, <1>2, <3>1, MatchRest
    <3>3. todo[t] # <<"power_stop">>
      <4> SUFFICES ASSUME todo[t] = <<"power_stop">> PROVE FALSE
        OBVIOUS
      <4>1. todo'[t] = <<>>
        BY <1>1, <3>2
      <4> QED BY <4>1, ShortPrograms
    <3> QED BY <1>1, <3>1, <3>2, <3>3, MatchRest
  <2>2. CASE t # "matching"
    BY <1>1, <2>2 DEF ProgInv, MatchRuns, Tasks
  <2> QED BY <2>1, <2>2
<1>7. OnlyMatchingStops' /\ OnlyUi'
  BY <1>1, <1>2 DEF ProgInv, OnlyMatchingStops, OnlyUi
<1>8. StopStarts'
  <2> SUFFICES ASSUME NEW u \in Tasks PROVE ThenStarts(todo'[u])
    BY DEF StopStarts
  <2>1. CASE u = t
    <3>1. ThenStarts(todo[t])
      BY DEF ProgInv, StopStarts
    <3>2. ThenStarts(next \o Tail(todo[t]))
      BY <1>1, <1>2, <3>1, ThenRest
    <3> QED BY <1>1, <2>1, <3>2
  <2>2. CASE u # t
    BY <1>1, <2>2 DEF ProgInv, StopStarts
  <2> QED BY <2>1, <2>2
<1>9. OnlySysinfo'
  <2> SUFFICES ASSUME NEW u \in Tasks \ {"sysinfo"} PROVE ~Has(todo'[u], SysOps)
    BY DEF OnlySysinfo
  <2>1. CASE u = t
    <3>1. ~Has(todo[t], SysOps)
      BY <2>1 DEF ProgInv, OnlySysinfo
    <3>2. op \notin SysOps
      BY <1>1, <3>1 DEF Has
    <3> QED BY <1>1, <1>2, <2>1, <3>1, <3>2
  <2>2. CASE u # t
    BY <1>1, <2>2 DEF ProgInv, OnlySysinfo
  <2> QED BY <2>1, <2>2
<1>10. SysRuns'
  <2>1. CASE t = "sysinfo"
    <3> SUFFICES ASSUME Has(todo'[t], SysOps) PROVE todo'[t] \in SysPrograms
      BY <2>1 DEF SysRuns
    <3>1. todo'[t] # <<>>
      BY ShortPrograms
    <3>2. Has(todo[t], SysOps)
      <4>1. CASE Has(next, SysOps)
        BY <1>1, <1>2, <4>1 DEF Has
      <4> QED BY <1>1, <4>1
    <3>3. todo[t] \in SysPrograms
      BY <2>1, <3>2 DEF ProgInv, SysRuns
    <3> QED BY <1>1, <3>1, <3>3, SysRest
  <2>2. CASE t # "sysinfo"
    BY <1>1, <2>2 DEF ProgInv, SysRuns, Tasks
  <2> QED BY <2>1, <2>2
<1>11. UiRuns'
  <2>1. CASE t = "ui"
    <3>1. ~Has(next, {"ui_power_off"}) /\ ~Has(next, {"ui_lock"})
      BY <1>2 DEF Has, UiOps
    <3> QED BY <1>1, <2>1, <3>1 DEF ProgInv, UiRuns
  <2>2. CASE t # "ui"
    BY <1>1, <2>2 DEF ProgInv, UiRuns, Tasks
  <2> QED BY <2>1, <2>2
<1> QED BY <1>4, <1>5, <1>6, <1>7, <1>8, <1>9, <1>10, <1>11 DEF ProgInv

-----------------------------------------------------------------------------
(* The queues *)
\* An event is posted.
LEMMA QueueGrows ==
    ASSUME NEW q \in Seq(UiEvents), NEW e \in UiEvents, NEW a \in BOOLEAN, NEW b \in BOOLEAN, a => b
    PROVE  /\ LastOff(q, a) /\ e # "READY" => LastOff(Append(q, e), b)
           /\ e = "POWER_OFF" => LastOff(Append(q, e), b)
           /\ OffReady(q, a) => OffReady(Append(q, e), b)
           /\ e = "READY" /\ (b \/ Has(q, {"POWER_OFF"})) => OffReady(Append(q, e), b)
           /\ LastOff(q, a) => LastOff(q, b)
           /\ OffReady(q, a) => OffReady(q, b)
<1> DEFINE r == Append(q, e)
<1>1. /\ Len(q) \in Nat /\ DOMAIN q = 1 .. Len(q) /\ DOMAIN r = 1 .. Len(q) + 1
      /\ \A i \in 1 .. Len(q) : r[i] = q[i]
      /\ r[Len(q) + 1] = e
  BY Longer
<1> HIDE DEF r
<1>2. ASSUME LastOff(q, a), e # "READY" PROVE LastOff(r, b)
  <2>1. CASE a /\ ~Has(q, {"READY"})
    <3>1. ~Has(r, {"READY"})
      BY <1>1, <1>2, <2>1 DEF Has
    <3> QED BY <2>1, <3>1 DEF LastOff
  <2>2. CASE \E j \in DOMAIN q : /\ q[j] = "POWER_OFF"
                                 /\ \A k \in DOMAIN q : k > j => q[k] # "READY"
    BY <1>1, <1>2, <2>2 DEF LastOff
  <2> QED BY <1>2, <2>1, <2>2 DEF LastOff
<1>3. ASSUME e = "POWER_OFF" PROVE LastOff(r, b)
  <2>1. Len(q) + 1 \in DOMAIN r /\ \A k \in DOMAIN r : ~(k > Len(q) + 1)
    BY <1>1
  <2> QED BY <1>1, <1>3, <2>1 DEF LastOff
<1>4. ASSUME OffReady(q, a) PROVE OffReady(r, b)
  BY <1>1, <1>4 DEF OffReady
<1>5. ASSUME e = "READY", b \/ Has(q, {"POWER_OFF"}) PROVE OffReady(r, b)
  <2>1. Len(q) + 1 \in DOMAIN r
    BY <1>1
  <2>2. CASE b
    BY <1>1, <1>5, <2>1, <2>2 DEF OffReady
  <2>3. CASE Has(q, {"POWER_OFF"})
    <3>1. PICK j \in DOMAIN q : q[j] = "POWER_OFF"
      BY <2>3 DEF Has
    <3>2. j \in DOMAIN r /\ j < Len(q) + 1 /\ r[j] = "POWER_OFF"
      BY <1>1, <3>1
    <3> QED BY <1>1, <1>5, <2>1, <3>2 DEF OffReady
  <2> QED BY <1>5, <2>2, <2>3
<1>6. (LastOff(q, a) => LastOff(q, b)) /\ (OffReady(q, a) => OffReady(q, b))
  BY DEF LastOff, OffReady
<1> QED BY <1>2, <1>3, <1>4, <1>5, <1>6 DEF r

\* An event is taken out.
LEMMA QueueShrinks ==
    ASSUME NEW q \in Seq(UiEvents), q # <<>>, NEW a \in BOOLEAN, NEW b \in BOOLEAN,
           Head(q) = "POWER_OFF" => b, a /\ Head(q) # "READY" => b
    PROVE  /\ LastOff(q, a) => LastOff(Tail(q), b)
           /\ OffReady(q, a) /\ ~(a /\ Head(q) = "READY") => OffReady(Tail(q), b)
<1> DEFINE r == Tail(q)
<1>1. /\ Len(q) \in Nat \ {0} /\ DOMAIN q = 1 .. Len(q) /\ DOMAIN r = 1 .. Len(q) - 1
      /\ \A i \in 1 .. Len(q) - 1 : r[i] = q[i + 1]
      /\ Head(q) = q[1]
  BY Shorter
<1> HIDE DEF r
<1>2. ASSUME NEW j \in DOMAIN q, j # 1 PROVE j - 1 \in DOMAIN r /\ r[j - 1] = q[j]
  BY <1>1, <1>2
<1>3. ASSUME LastOff(q, a) PROVE LastOff(r, b)
  <2>1. CASE a /\ ~Has(q, {"READY"})
    <3>1. q[1] # "READY" /\ ~Has(r, {"READY"})
      BY <1>1, <2>1 DEF Has
    <3> QED BY <1>1, <2>1, <3>1 DEF LastOff
  <2>2. ASSUME NEW j \in DOMAIN q, q[j] = "POWER_OFF", \A k \in DOMAIN q : k > j => q[k] # "READY"
        PROVE  LastOff(r, b)
    <3>1. CASE j = 1
      <4>1. ~Has(r, {"READY"})
        <5> SUFFICES ASSUME NEW k \in DOMAIN r, r[k] = "READY" PROVE FALSE
          BY DEF Has
        <5>1. k + 1 \in DOMAIN q /\ k + 1 > j /\ q[k + 1] = "READY"
          BY <1>1, <3>1
        <5> QED BY <2>2, <5>1
      <4> QED BY <1>1, <2>2, <3>1, <4>1 DEF LastOff
    <3>2. CASE j # 1
      <4>1. j - 1 \in DOMAIN r /\ r[j - 1] = "POWER_OFF"
        BY <1>2, <2>2, <3>2
      <4>2. ASSUME NEW k \in DOMAIN r, k > j - 1 PROVE r[k] # "READY"
        <5>1. k + 1 \in DOMAIN q /\ k + 1 > j /\ r[k] = q[k + 1]
          BY <1>1, <4>2
        <5> QED BY <2>2, <5>1
      <4> QED BY <4>1, <4>2 DEF LastOff
    <3> QED BY <3>1, <3>2
  <2> QED BY <1>3, <2>1, <2>2 DEF LastOff
<1>4. ASSUME OffReady(q, a), ~(a /\ q[1] = "READY") PROVE OffReady(r, b)
  <2>1. PICK i \in DOMAIN q : q[i] = "READY" /\ (a \/ \E j \in DOMAIN q : j < i /\ q[j] = "POWER_OFF")
    BY <1>4 DEF OffReady
  <2>2. i # 1
    BY <1>1, <1>4, <2>1
  <2>3. i - 1 \in DOMAIN r /\ r[i - 1] = "READY"
    BY <1>2, <2>1, <2>2
  <2>4. CASE b
    BY <2>3, <2>4 DEF OffReady
  <2>5. CASE ~b
    <3>1. ~a /\ q[1] # "POWER_OFF"
      BY <1>1, <1>4, <2>5
    <3>2. PICK j \in DOMAIN q : j < i /\ q[j] = "POWER_OFF"
      BY <2>1, <3>1
    <3>3. j - 1 \in DOMAIN r /\ r[j - 1] = "POWER_OFF" /\ j - 1 < i - 1
      BY <1>1, <1>2, <3>1, <3>2
    <3> QED BY <2>3, <3>3 DEF OffReady
  <2> QED BY <2>4, <2>5
<1> QED BY <1>1, <1>3, <1>4 DEF r

-----------------------------------------------------------------------------
(* One operation of a task keeps the invariant *)
\* A task runs an operation of its own program.
LEMMA OpOf ==
    ASSUME TypeInv, ProgInv, NEW t \in Tasks, NEW op, NEW next, Does(t, op, next), Effect(op, next)
    PROVE  /\ op = "power_stop" => t = "matching"
           /\ op \in SysOps => t = "sysinfo"
           /\ op \in UiOps => t = "ui"
           /\ At(t) = op
<1>1. 1 \in DOMAIN todo[t] /\ todo[t][1] = op
  BY DoesProgram DEF Effect
<1>2. \A S : op \in S => Has(todo[t], S)
  BY <1>1 DEF Has
<1>3. op = "power_stop" => Has(todo[t], {"power_stop"})
  BY <1>2
<1> QED BY <1>2, <1>3 DEF ProgInv, OnlyMatchingStops, OnlySysinfo, OnlyUi, Does

\* A match that does not overtake a lock finds the timer task outside of one;
\* when it is about to stop the power timer it has restarted the expiry timer, and
\* of the others only the NFC task may run.
LEMMA MatchStopsKept ==
    ASSUME TypeInv, ProgInv, auth.overtaken \/ MatchStops, NEW t \in Tasks, NEW op, NEW next,
           Does(t, op, next), Effect(op, next), Overtakes(t), ~auth'.overtaken
    PROVE  MatchStops'
<1>0. op # "idle" /\ Follows(op, next) /\ TimerEffect(op)
  BY DEF Effect
<1>1. /\ todo[t] \in Seq(Ops) /\ todo[t] # <<>> /\ Head(todo[t]) = op
      /\ 1 \in DOMAIN todo[t] /\ todo[t][1] = op /\ next \in Seq(Ops)
      /\ todo'[t] = next \o Tail(todo[t])
      /\ \A u \in Tasks \ {t} : todo'[u] = todo[u]
      /\ Has(todo'[t], {"power_stop"}) => Has(next, {"power_stop"}) \/ Has(todo[t], {"power_stop"})
  BY <1>0, DoesProgram
<1>2. /\ ~Has(next, {"power_stop"})
      /\ op \in ShutOps => Among(next, ShutOps)
      /\ op \in SuccessOps => next = <<>>
  BY <1>0, FollowsFacts
<1>3. Runs(t)
  BY DEF Does
<1> SUFFICES ASSUME todo'["matching"] = <<"power_stop">>
             PROVE  auth'.timer = "fresh" /\ Among(todo'["timer"], ShutOps)
  BY DEF MatchStops
<1>4. CASE t = "matching"
  <2>1. Has(todo[t], {"power_stop"})
    <3>1. Has(<<"power_stop">>, {"power_stop"})
      BY ShortPrograms
    <3>2. Has(todo'[t], {"power_stop"})
      BY <1>4, <3>1
    <3> QED BY <1>1, <1>2, <3>2
  <2>2. todo[t] \in MatchPrograms
    BY <1>4, <2>1 DEF ProgInv, MatchRuns
  <2>3. next = <<>>
    BY <1>1, <1>2, <2>2, MatchRest
  <2>4. op = "restart"
    BY <1>1, <1>4, <2>2, <2>3, MatchRest
  <2>5. auth'.timer = "fresh"
    BY <1>0, <2>4 DEF TimerEffect
  <2>6. todo'["timer"] = todo["timer"] /\ todo["timer"] \in Seq(Ops)
    BY <1>1, <1>4 DEF Tasks, TypeInv, TodoType
  <2>7. Among(todo["timer"], ShutOps)
    <3>1. CASE todo["timer"] = <<>>
      BY <3>1 DEF Among
    <3>2. CASE todo["timer"] # <<>>
      <4>1. 1 \in DOMAIN todo["timer"] /\ todo["timer"][1] = At("timer")
        BY <2>6, <3>2 DEF At
      <4>2. At("timer") \in Waits \cup {"idle", "shutdown"}
        <5>1. Priority["timer"] > Priority["matching"]
          BY DEF Priority
        <5> QED BY <1>3, <1>4, <5>1 DEF Runs, Tasks
      <4>3. At("timer") \notin TimerOps
        <5>1. At("timer") \notin {"on_lock", "on_lock_shown"}
          BY <1>4, <2>4 DEF Overtakes, Does
        <5> QED BY <4>2, <5>1 DEF Waits, TimerOps
      <4> QED BY <4>1, <4>3 DEF ProgInv, TimerRuns, Among
    <3> QED BY <3>1, <3>2
  <2> QED BY <2>5, <2>6, <2>7
<1>5. CASE t # "matching"
  <2>1. todo["matching"] = <<"power_stop">>
    BY <1>1, <1>5 DEF Tasks
  <2>2. auth.timer = "fresh" /\ Among(todo["timer"], ShutOps)
    BY <1>5, <2>1 DEF MatchStops, Overtakes
  <2>3. CASE t = "timer"
    <3>1. op \in ShutOps
      BY <1>1, <2>2, <2>3 DEF Among
    <3>2. auth'.timer = "fresh"
      BY <1>0, <2>2, <3>1 DEF TimerEffect, ShutOps
    <3> QED BY <1>1, <1>2, <2>2, <2>3, <3>1, <3>2, AmongRest
  <2>4. CASE t # "timer"
    <3>1. At("matching") = "power_stop"
      BY <2>1 DEF At
    <3>2. At("matching") \notin Waits \cup {"idle"} /\ At("matching") # "shutdown"
      BY <3>1 DEF Waits
    <3>3. ~(Priority["matching"] > Priority[t])
      BY <1>3, <3>2 DEF Runs, Tasks
    <3>4. t = "nfc"
      BY <1>5, <2>4, <3>3 DEF Tasks, Priority
    <3>5. op \in NfcOps
      BY <1>1, <3>4 DEF ProgInv, NfcRuns, Among
    <3>6. auth'.timer = "fresh"
      BY <1>0, <2>2, <3>5 DEF TimerEffect, NfcOps
    <3>7. todo'["timer"] = todo["timer"]
      BY <1>1, <2>4 DEF Tasks
    <3> QED BY <2>2, <3>6, <3>7
  <2> QED BY <2>3, <2>4
<1> QED BY <1>4, <1>5

LEMMA OffNowKept ==
    ASSUME TypeInv, ProgInv, NEW t \in Tasks, NEW op, NEW next, Does(t, op, next), Effect(op, next),
           OffNow
    PROVE  OffNow'
<1>0. op # "idle" /\ Follows(op, next) /\ ScreenEffect(op)
  BY DEF Effect
<1>1. /\ 1 \in DOMAIN todo[t] /\ todo[t][1] = op
      /\ \A u \in Tasks \ {t} : todo'[u] = todo[u]
      /\ \A S : Has(todo'[t], S) => Has(next, S) \/ Has(todo[t], S)
      /\ \A S : Has(todo[t], S) /\ op \notin S => Has(todo'[t], S)
  BY <1>0, DoesProgram
<1>2. CASE t # "ui"
  <2>1. op \notin UiOps
    BY <1>2, OpOf
  <2>2. screen'.off = screen.off
    BY <1>0, <2>1 DEF ScreenEffect, UiOps
  <2>3. todo'["ui"] = todo["ui"]
    BY <1>1, <1>2 DEF Tasks
  <2> QED BY <2>2, <2>3 DEF OffNow
<1>3. CASE t = "ui"
  <2>1. ~Has(next, {"ui_lock"})
    <3>1. ~Has(next, UiOps)
      BY <1>0, FollowsFacts
    <3> QED BY <3>1 DEF Has, UiOps
  <2>2. CASE Has(todo["ui"], {"ui_power_off"})
    <3>1. ~Has(todo["ui"], {"ui_lock"})
      BY <2>2 DEF ProgInv, UiRuns
    <3>2. ~Has(todo'["ui"], {"ui_lock"})
      BY <1>1, <1>3, <2>1, <3>1
    <3>3. op = "ui_power_off" => screen'.off
      BY <1>0 DEF ScreenEffect
    <3>4. op # "ui_power_off" => Has(todo'["ui"], {"ui_power_off"})
      BY <1>1, <1>3, <2>2
    <3> QED BY <3>2, <3>3, <3>4 DEF OffNow
  <2>3. CASE screen.off /\ ~Has(todo["ui"], {"ui_lock"})
    <3>1. op # "ui_lock"
      BY <1>1, <1>3, <2>3 DEF Has
    <3>2. screen'.off
      BY <1>0, <2>3, <3>1 DEF ScreenEffect
    <3>3. ~Has(todo'["ui"], {"ui_lock"})
      BY <1>1, <1>3, <2>1, <2>3
    <3> QED BY <3>2, <3>3 DEF OffNow
  <2> QED BY <2>2, <2>3 DEF OffNow
<1> QED BY <1>2, <1>3

\* A reboot of the UXC stays known until it is handled.
LEMMA BootPendingKept ==
    ASSUME TypeInv, ProgInv, NEW t \in Tasks, NEW op, NEW next, Does(t, op, next), Effect(op, next),
           BootPending, op # "boot_handled"
    PROVE  BootPending'
<1>0. op # "idle" /\ Follows(op, next) /\ SysEffect(op, next)
  BY DEF Effect
<1>1. /\ \A u \in Tasks \ {t} : todo'[u] = todo[u]
      /\ Has(todo[t], {"boot_handled"}) /\ op \notin {"boot_handled"} => Has(todo'[t], {"boot_handled"})
  BY <1>0, DoesProgram
<1>2. CASE Has(sysq, {"BOOT_STATUS"})
  <2>1. sysq \in Seq(SysMsgs)
    BY DEF TypeInv, SysType
  <2>2. Has(sysq', {"BOOT_STATUS"})
    <3>1. CASE sysq' = sysq
      BY <1>2, <3>1
    <3>2. ASSUME NEW e \in SysMsgs, sysq' = Append(sysq, e) PROVE Has(sysq', {"BOOT_STATUS"})
      BY <1>2, <2>1, <3>2, HasLonger
    <3> QED BY <1>0, <3>1, <3>2 DEF SysEffect
  <2> QED BY <2>2 DEF BootPending
<1>3. CASE Has(todo["sysinfo"], {"boot_handled"})
  BY <1>1, <1>3 DEF BootPending, Tasks
<1> QED BY <1>2, <1>3 DEF BootPending

\* What is posted to the UI.
LEMMA Posted ==
    ASSUME TypeInv, NEW op, NEW next, Effect(op, next)
    PROVE  /\ uiq' = uiq \/ \E e \in UiEvents : uiq' = Append(uiq, e)
           /\ op # "boot_handled" => uiq' = uiq \/ \E e \in UiEvents \ {"READY"} : uiq' = Append(uiq, e)
BY DEF Effect, UiEffect, UiEvents

LEMMA OffBoolean == OffNow \in BOOLEAN /\ OffNow' \in BOOLEAN
BY DEF OffNow

LEMMA OffLastKept ==
    ASSUME TypeInv, ProgInv, NEW t \in Tasks, NEW op, NEW next, Does(t, op, next), Effect(op, next),
           OffLast, op # "boot_handled"
    PROVE  OffLast'
<1>1. OffNow => OffNow'
  BY OffNowKept
<1>2. uiq \in Seq(UiEvents)
  BY DEF TypeInv, UiType
<1>3. CASE uiq' = uiq
  <2>1. PICK e : e \in UiEvents
    BY DEF UiEvents
  <2>2. LastOff(uiq, OffNow')
    BY <1>1, <1>2, <2>1, OffBoolean, QueueGrows DEF OffLast
  <2> QED BY <1>3, <2>2 DEF OffLast
<1>4. ASSUME NEW e \in UiEvents \ {"READY"}, uiq' = Append(uiq, e) PROVE OffLast'
  BY <1>1, <1>2, <1>4, OffBoolean, QueueGrows DEF OffLast
<1> QED BY <1>3, <1>4, Posted

LEMMA PollKept ==
    ASSUME TypeInv, ProgInv, PollInv, NEW t \in Tasks, NEW op, NEW next, Does(t, op, next),
           Effect(op, next)
    PROVE  PollInv'
<1>0. /\ op # "idle" /\ Follows(op, next) /\ SleepEffect(op, next) /\ SysEffect(op, next)
      /\ UiEffect(op)
  BY DEF Effect
<1>1. /\ todo[t] \in Seq(Ops) /\ todo[t] # <<>> /\ Head(todo[t]) = op
      /\ 1 \in DOMAIN todo[t] /\ todo[t][1] = op /\ next \in Seq(Ops)
      /\ todo'[t] = next \o Tail(todo[t])
      /\ \A u \in Tasks \ {t} : todo'[u] = todo[u]
  BY <1>0, DoesProgram
<1>2. BootTold'
  <2> SUFFICES ASSUME events'.boot PROVE BootPending'
    BY DEF BootTold
  <2>1. events.boot /\ op # "boot_handled"
    BY <1>0 DEF SysEffect
  <2> QED BY <2>1, BootPendingKept DEF PollInv, BootTold
<1>3. CASE t # "sysinfo"
  <2>1. op \notin SysOps
    BY <1>3, OpOf
  <2>2. ~Cancels(op, next) /\ op # "boot_handled"
    BY <2>1 DEF Cancels, SysOps, LatchedOps, PollOps
  <2>3. At("sysinfo")' = At("sysinfo")
    BY <1>1, <1>3 DEF At, Tasks
  <2>4. sleep.latched => sleep'.latched
    BY <1>0, <2>2 DEF SleepEffect
  <2>5. OffLast => OffLast'
    BY <2>2, OffLastKept
  <2> QED BY <1>2, <2>3, <2>4, <2>5 DEF PollInv, PollLatched, PollOff
<1>4. CASE t = "sysinfo"
  <2>1. At("sysinfo") = op
    BY <1>4, OpOf
  <2>2. SUFFICES ASSUME At("sysinfo")' \in LatchedOps
                 PROVE  sleep'.latched /\ (At("sysinfo")' \in PollOps => OffLast')
    BY <1>2 DEF PollInv, PollLatched, PollOff, LatchedOps
  <2>3. todo'[t] # <<>> /\ Head(todo'[t]) = At("sysinfo")'
    BY <1>4, <2>2 DEF At, LatchedOps, PollOps
  <2>4. Has(todo[t], SysOps)
    <3>1. todo'[t] \in Seq(Ops)
      BY <1>1
    <3>2. 1 \in DOMAIN todo'[t] /\ todo'[t][1] = At("sysinfo")'
      BY <2>3, <3>1
    <3>3. Has(todo'[t], SysOps)
      BY <2>2, <3>2 DEF Has, SysOps
    <3>4. Has(next, SysOps) \/ Has(todo[t], SysOps)
      BY <1>0, <3>3, DoesProgram
    <3>5. op \in SysOps => Has(todo[t], SysOps)
      BY <1>1 DEF Has
    <3> QED BY <1>0, <3>4, <3>5, FollowsFacts
  <2>5. todo[t] \in SysPrograms
    BY <1>4, <2>4 DEF ProgInv, SysRuns
  <2>6. /\ op = "begin_shutdown" \/ (op \in LatchedOps /\ op # "poll_exit")
        /\ At("sysinfo")' \in PollOps => op \in PollOps \cup {"post_power_off"}
    <3>1. Follows(Head(todo[t]), next)
      BY <1>0, <1>1
    <3>2. next \o Tail(todo[t]) # <<>> /\ Head(next \o Tail(todo[t])) = At("sysinfo")'
      BY <1>1, <2>3, Zenon
    <3>3. /\ At("sysinfo")' \in LatchedOps =>
               op = "begin_shutdown" \/ (op \in LatchedOps /\ op # "poll_exit")
          /\ At("sysinfo")' \in PollOps => op \in PollOps \cup {"post_power_off"}
      BY <1>1, <2>5, <3>1, <3>2, SysRest, Zenon
    <3> QED BY <2>2, <3>3
  <2>7. sleep'.latched
    BY <1>0, <2>1, <2>6 DEF SleepEffect, Cancels, PollInv, PollLatched
  <2>8. ASSUME At("sysinfo")' \in PollOps PROVE OffLast'
    <3>1. CASE op \in PollOps
      BY <2>1, <3>1, OffLastKept DEF PollInv, PollOff, PollOps
    <3>2. CASE op = "post_power_off"
      <4>1. uiq' = Append(uiq, "POWER_OFF") /\ uiq \in Seq(UiEvents) /\ "POWER_OFF" \in UiEvents
        BY <1>0, <3>2 DEF UiEffect, TypeInv, UiType, UiEvents
      <4>2. LastOff(Append(uiq, "POWER_OFF"), OffNow')
        BY <4>1, OffBoolean, OffNowKept, QueueGrows
      <4> QED BY <4>1, <4>2 DEF OffLast
    <3> QED BY <2>6, <2>8, <3>1, <3>2
  <2> QED BY <2>7, <2>8
<1> QED BY <1>3, <1>4

LEMMA ReadyComesKept ==
    ASSUME TypeInv, ProgInv, NEW t \in Tasks, NEW op, NEW next, Does(t, op, next), Effect(op, next),
           ReadyComes
    PROVE  ReadyComes'
<1>1. OffNow => OffNow'
  BY OffNowKept
<1>2. uiq \in Seq(UiEvents)
  BY DEF TypeInv, UiType
<1>3. CASE ReadyOff
  <2>1. CASE uiq' = uiq
    <3>1. PICK e : e \in UiEvents
      BY DEF UiEvents
    <3>2. OffReady(uiq, OffNow')
      BY <1>1, <1>2, <1>3, <3>1, OffBoolean, QueueGrows DEF ReadyOff
    <3> QED BY <2>1, <3>2 DEF ReadyComes, ReadyOff
  <2>2. ASSUME NEW e \in UiEvents, uiq' = Append(uiq, e) PROVE ReadyComes'
    <3>1. OffReady(Append(uiq, e), OffNow')
      BY <1>1, <1>2, <1>3, OffBoolean, QueueGrows DEF ReadyOff
    <3> QED BY <2>2, <3>1 DEF ReadyComes, ReadyOff
  <2> QED BY <2>1, <2>2, Posted
<1>4. CASE BootPending /\ (OffNow \/ Has(uiq, {"POWER_OFF"}))
  <2>1. CASE op = "boot_handled"
    <3>1. uiq' = Append(uiq, "READY") /\ "READY" \in UiEvents
      BY <2>1 DEF Effect, UiEffect, UiEvents
    <3>2. OffReady(Append(uiq, "READY"), OffNow')
      BY <1>1, <1>2, <1>4, <3>1, OffBoolean, QueueGrows
    <3> QED BY <3>1, <3>2 DEF ReadyComes, ReadyOff
  <2>2. CASE op # "boot_handled"
    <3>1. BootPending'
      BY <1>4, <2>2, BootPendingKept
    <3>2. Has(uiq, {"POWER_OFF"}) => Has(uiq', {"POWER_OFF"})
      <4>1. ASSUME NEW e \in UiEvents, uiq' = Append(uiq, e), Has(uiq, {"POWER_OFF"})
            PROVE  Has(uiq', {"POWER_OFF"})
        BY <1>2, <4>1, HasLonger
      <4> QED BY <4>1, Posted
    <3> QED BY <1>1, <1>4, <3>1, <3>2 DEF ReadyComes
  <2> QED BY <2>1, <2>2
<1> QED BY <1>3, <1>4 DEF ReadyComes

\* What arms a timer is done, or stays to be done.
LEMMA WillArmKept ==
    ASSUME TypeInv, NEW t \in Tasks, NEW op, NEW next, Does(t, op, next), Effect(op, next), WillArm
    PROVE  sleep'.timer # "off" \/ sleep'.latched \/ WillArm'
<1>0. op # "idle" /\ Follows(op, next) /\ SleepEffect(op, next)
  BY DEF Effect
<1>1. /\ \A u \in Tasks \ {t} : todo'[u] = todo[u]
      /\ Has(todo[t], Arming) /\ op \notin Arming => Has(todo'[t], Arming)
      /\ Has(next, Arming) => Has(todo'[t], Arming)
  BY <1>0, DoesProgram
<1>2. PICK u \in Tasks : Has(todo[u], Arming)
  BY DEF WillArm
<1>3. CASE u # t \/ op \notin Arming
  BY <1>1, <1>2, <1>3 DEF WillArm
<1>4. CASE op \in {"power_start", "shutdown"}
  BY <1>0, <1>4 DEF SleepEffect
<1>5. CASE op \in {"clear", "clear_shown"}
  <2>1. Has(next, {"power_start"})
    BY <1>0, <1>5, FollowsFacts
  <2>2. Has(next, Arming)
    BY <2>1 DEF Has, Arming
  <2> QED BY <1>1, <2>2 DEF WillArm
<1> QED BY <1>3, <1>4, <1>5 DEF Arming

LEMMA ArmedKept ==
    ASSUME TypeInv, ProgInv, MatchStops, PollInv, Armed, NEW t \in Tasks, NEW op, NEW next,
           Does(t, op, next), Effect(op, next)
    PROVE  Armed'
<1>0. /\ op # "idle" /\ Follows(op, next) /\ TimerEffect(op) /\ SleepEffect(op, next)
      /\ SysEffect(op, next)
  BY DEF Effect
<1>1. /\ todo[t] \in Seq(Ops) /\ todo[t] # <<>> /\ Head(todo[t]) = op
      /\ 1 \in DOMAIN todo[t] /\ todo[t][1] = op
      /\ Has(todo[t], {"power_start"}) /\ op \notin {"power_start"} => Has(todo'[t], {"power_start"})
  BY <1>0, DoesProgram
<1>2. CASE auth.timer # "off"
  <2>1. CASE op = "timer_stop"
    <3>1. 1 < Len(todo[t]) /\ todo[t][2] = "power_start"
      <4>1. ThenStarts(todo[t])
        BY DEF ProgInv, StopStarts
      <4>2. 1 < Len(todo[t]) /\ todo[t][1 + 1] = "power_start"
        BY <1>1, <2>1, <4>1, Zenon DEF ThenStarts
      <4> QED BY <4>2
    <3>2. 2 \in DOMAIN todo[t]
      BY <1>1, <3>1
    <3>3. Has(todo'[t], {"power_start"})
      BY <1>1, <2>1, <3>1, <3>2 DEF Has
    <3>4. WillArm'
      BY <3>3 DEF WillArm, Has, Arming
    <3> QED BY <3>4 DEF Armed
  <2>2. CASE op # "timer_stop"
    BY <1>0, <1>2, <2>2 DEF TimerEffect, Armed
  <2> QED BY <2>1, <2>2
<1>3. CASE sleep.timer # "off"
  <2>1. CASE op = "power_stop"
    <3>1. t = "matching"
      BY <2>1, OpOf
    <3>2. Has(todo[t], {"power_stop"})
      BY <1>1, <2>1 DEF Has
    <3>3. todo[t] = <<"power_stop">>
      BY <1>1, <2>1, <3>1, <3>2, MatchRest DEF ProgInv, MatchRuns
    <3>4. auth.timer # "off"
      BY <3>1, <3>3 DEF MatchStops
    <3> QED BY <1>2, <3>4
  <2>2. CASE op # "power_stop"
    BY <1>0, <1>3, <2>2 DEF SleepEffect, Armed
  <2> QED BY <2>1, <2>2
<1>4. CASE sleep.latched
  <2>1. CASE Cancels(op, next)
    <3>1. t = "sysinfo" /\ op = "poll_exit" /\ events.boot /\ UNCHANGED uiq
      BY <1>0, <2>1, OpOf DEF Cancels, SysEffect, SysOps, LatchedOps, PollOps
    <3>2. BootPending'
      BY <3>1, BootPendingKept DEF PollInv, BootTold
    <3>3. OffLast'
      BY <3>1, OffLastKept, OpOf DEF PollInv, PollOff, PollOps
    <3>4. OffNow' \/ Has(uiq', {"POWER_OFF"})
      BY <3>3 DEF OffLast, LastOff, Has
    <3> QED BY <3>2, <3>4 DEF Armed, ReadyComes
  <2>2. CASE ~Cancels(op, next)
    BY <1>0, <1>4, <2>2 DEF SleepEffect, Armed
  <2> QED BY <2>1, <2>2
<1>5. CASE WillArm
  BY <1>5, WillArmKept DEF Armed
<1>6. CASE ReadyComes
  BY <1>6, ReadyComesKept DEF Armed
<1> QED BY <1>2, <1>3, <1>4, <1>5, <1>6 DEF Armed

-----------------------------------------------------------------------------
(* A task begins a program *)
\* What the program of a task may be.
Fit(t, p) ==
    /\ p \in Seq(Ops) /\ ~Has(p, {"timer_stop"})
    /\ t = "timer" => Among(p, TimerOps) \/ Among(p, ShutOps)
    /\ t = "nfc" => Among(p, NfcOps)
    /\ IF t = "matching" THEN Has(p, {"power_stop"}) => p \in MatchPrograms \ {<<"power_stop">>}
                         ELSE ~Has(p, {"power_stop"})
    /\ IF t = "sysinfo" THEN /\ Has(p, SysOps) => p \in SysPrograms
                             /\ p # <<>> => Head(p) \notin LatchedOps
                        ELSE ~Has(p, SysOps)
    /\ IF t = "ui" THEN Has(p, {"ui_power_off"}) => ~Has(p, {"ui_lock"}) ELSE ~Has(p, UiOps)

LEMMA ProgBegins ==
    ASSUME TypeInv, ProgInv, NEW t \in Tasks, NEW p, Fit(t, p), todo' = [todo EXCEPT ![t] = p]
    PROVE  ProgInv'
<1>1. todo'[t] = p /\ \A u \in Tasks \ {t} : todo'[u] = todo[u]
  BY DEF TypeInv, TodoType
<1>2. TimerRuns' /\ NfcRuns'
  BY <1>1 DEF ProgInv, TimerRuns, NfcRuns, Fit, Tasks
<1>3. MatchRuns' /\ OnlyMatchingStops'
  BY <1>1 DEF ProgInv, MatchRuns, OnlyMatchingStops, Fit, Tasks
<1>4. StopStarts'
  <2>1. ThenStarts(p)
    BY DEF Fit, ThenStarts, Has
  <2> QED BY <1>1, <2>1 DEF ProgInv, StopStarts
<1>5. OnlySysinfo' /\ SysRuns'
  BY <1>1 DEF ProgInv, OnlySysinfo, SysRuns, Fit, Tasks
<1>6. OnlyUi' /\ UiRuns'
  BY <1>1 DEF ProgInv, OnlyUi, UiRuns, Fit, Tasks
<1> QED BY <1>2, <1>3, <1>4, <1>5, <1>6 DEF ProgInv

\* A program of operations that are given by name.
LEMMA FitAmong ==
    ASSUME NEW t \in Tasks, NEW p \in Seq(Ops), NEW S, Among(p, S),
           S \cap ({"timer_stop", "power_stop"} \cup SysOps \cup UiOps) = {},
           t = "timer" => S = {"clear_shown"} \/ S = {"shutdown"}, t = "nfc" => S = NfcOps
    PROVE  Fit(t, p)
<1>1. /\ ~Has(p, {"timer_stop"}) /\ ~Has(p, {"power_stop"}) /\ ~Has(p, SysOps) /\ ~Has(p, UiOps)
      /\ ~Has(p, {"ui_power_off"})
  BY DEF Among, Has, UiOps
<1>2. t = "timer" => Among(p, TimerOps) \/ Among(p, ShutOps)
  BY DEF Among, TimerOps, ShutOps
<1>3. p # <<>> => Head(p) \notin LatchedOps
  <2>1. p # <<>> => 1 \in DOMAIN p /\ p[1] = Head(p)
    OBVIOUS
  <2> QED BY <1>1, <2>1 DEF Has, SysOps
<1> QED BY <1>1, <1>2, <1>3 DEF Fit

\* Another program than the UI task's begins; nothing is lost of what arms a timer.
LEMMA BeginsArm ==
    ASSUME TypeInv, ArmInv, NEW t \in Tasks \ {"ui"}, NEW p, Fit(t, p), todo[t] = <<>>,
           todo' = [todo EXCEPT ![t] = p], UNCHANGED <<uiq, screen>>,
           events'.boot => events.boot, BootPending => BootPending',
           sleep.latched => sleep'.latched,
           auth.timer # "off" => auth'.timer # "off" \/ Has(p, Arming),
           sleep.timer # "off" => sleep'.timer # "off" \/ Has(p, Arming),
           auth'.timer = auth.timer \/ auth.timer # "fresh", auth'.overtaken = auth.overtaken,
           t = "timer" /\ auth.timer = "fresh" => Among(p, ShutOps)
    PROVE  ArmInv'
<1>1. todo'[t] = p /\ \A u \in Tasks \ {t} : todo'[u] = todo[u]
  BY DEF TypeInv, TodoType
<1>2. ProgInv'
  BY ProgBegins DEF ArmInv
<1>3. ASSUME ~auth.overtaken PROVE MatchStops'
  <2> SUFFICES ASSUME todo'["matching"] = <<"power_stop">>
               PROVE  auth'.timer = "fresh" /\ Among(todo'["timer"], ShutOps)
    BY DEF MatchStops
  <2>1. t # "matching"
    <3>1. Has(<<"power_stop">>, {"power_stop"})
      BY ShortPrograms
    <3> QED BY <1>1, <3>1 DEF Fit
  <2>2. auth.timer = "fresh" /\ Among(todo["timer"], ShutOps)
    BY <1>1, <1>3, <2>1 DEF ArmInv, MatchStops, Tasks
  <2> QED BY <1>1, <2>2 DEF Tasks
<1>4. OffNow' <=> OffNow
  BY <1>1 DEF OffNow, Tasks
<1>5. OffLast => OffLast'
  BY <1>4 DEF OffLast, LastOff
<1>6. PollInv'
  <2>1. At("sysinfo")' \in LatchedOps => At("sysinfo")' = At("sysinfo")
    <3>1. CASE t = "sysinfo"
      BY <1>1, <3>1 DEF At, Fit, LatchedOps, PollOps
    <3>2. CASE t # "sysinfo"
      BY <1>1, <3>2 DEF At, Tasks
    <3> QED BY <3>1, <3>2
  <2> QED BY <1>5, <2>1 DEF ArmInv, PollInv, BootTold, PollLatched, PollOff, LatchedOps
<1>7. WillArm => WillArm'
  <2> SUFFICES ASSUME NEW u \in Tasks, Has(todo[u], Arming) PROVE WillArm'
    BY DEF WillArm
  <2>1. u # t
    BY ShortPrograms
  <2> QED BY <1>1, <2>1 DEF WillArm
<1>8. Has(p, Arming) => WillArm'
  BY <1>1 DEF WillArm
<1>9. ReadyComes => ReadyComes'
  BY <1>4 DEF ReadyComes, ReadyOff, OffReady
<1>10. ASSUME ~auth.overtaken PROVE Armed'
  BY <1>7, <1>8, <1>9, <1>10 DEF ArmInv, Armed
<1> QED BY <1>2, <1>3, <1>6, <1>10 DEF ArmInv

\* No program begins or goes on.
LEMMA StillArm ==
    ASSUME TypeInv, ArmInv, UNCHANGED <<todo, screen>>,
           uiq' = uiq \/ \E e \in UiEvents \ {"READY"} : uiq' = Append(uiq, e),
           events'.boot => events.boot \/ BootPending', BootPending => BootPending',
           sleep.latched => sleep'.latched,
           auth.timer # "off" => auth'.timer # "off",
           sleep.timer # "off" => sleep'.timer # "off",
           auth'.timer = auth.timer \/ todo["matching"] # <<"power_stop">>,
           auth'.overtaken = auth.overtaken
    PROVE  ArmInv'
<1>1. ProgInv'
  BY DEF ArmInv, ProgInv, TimerRuns, NfcRuns, MatchRuns, OnlyMatchingStops, StopStarts, OnlySysinfo,
         SysRuns, OnlyUi, UiRuns
<1>2. ASSUME ~auth.overtaken PROVE MatchStops'
  BY <1>2 DEF ArmInv, MatchStops
<1>3. OffNow' <=> OffNow
  BY DEF OffNow
<1>4. /\ OffLast => OffLast'
      /\ ReadyOff => ReadyOff'
      /\ Has(uiq, {"POWER_OFF"}) => Has(uiq', {"POWER_OFF"})
  <2>1. CASE uiq' = uiq
    BY <1>3, <2>1 DEF OffLast, LastOff, ReadyOff, OffReady
  <2>2. ASSUME NEW e \in UiEvents \ {"READY"}, uiq' = Append(uiq, e)
        PROVE  /\ OffLast => OffLast'
               /\ ReadyOff => ReadyOff'
               /\ Has(uiq, {"POWER_OFF"}) => Has(uiq', {"POWER_OFF"})
    <3>1. uiq \in Seq(UiEvents)
      BY DEF TypeInv, UiType
    <3>2. /\ LastOff(uiq, OffNow) => LastOff(Append(uiq, e), OffNow')
          /\ OffReady(uiq, OffNow) => OffReady(Append(uiq, e), OffNow')
      BY <1>3, <2>2, <3>1, OffBoolean, QueueGrows
    <3>3. Has(uiq, {"POWER_OFF"}) => Has(Append(uiq, e), {"POWER_OFF"})
      BY <3>1, HasLonger
    <3> QED BY <2>2, <3>2, <3>3 DEF OffLast, ReadyOff
  <2> QED BY <2>1, <2>2
<1>5. PollInv'
  <2>1. At("sysinfo")' = At("sysinfo")
    BY DEF At
  <2> QED BY <1>4, <2>1 DEF ArmInv, PollInv, BootTold, PollLatched, PollOff
<1>6. ASSUME ~auth.overtaken PROVE Armed'
  <2>1. ReadyComes => ReadyComes'
    BY <1>3, <1>4 DEF ReadyComes
  <2> QED BY <1>6, <2>1 DEF ArmInv, Armed, WillArm
<1> QED BY <1>1, <1>2, <1>5, <1>6 DEF ArmInv

\* Nothing is under way, and the power timer runs.
Fresh == (\A t \in Tasks : todo[t] = <<>>) /\ sleep.timer # "off" /\ ~events.boot

LEMMA FreshArm == Fresh => ArmInv
<1> SUFFICES ASSUME Fresh PROVE ArmInv
  OBVIOUS
<1>1. \A t \in Tasks : todo[t] = <<>> /\ (\A S : ~Has(todo[t], S) /\ Among(todo[t], S)) /\ ThenStarts(todo[t])
  BY ShortPrograms DEF Fresh, Among, ThenStarts
<1>2. ProgInv
  BY <1>1 DEF ProgInv, TimerRuns, NfcRuns, MatchRuns, OnlyMatchingStops, StopStarts, OnlySysinfo,
         SysRuns, OnlyUi, UiRuns, Tasks
<1>3. MatchStops
  <2>1. ~Has(todo["matching"], {"power_stop"}) /\ Has(<<"power_stop">>, {"power_stop"})
    BY <1>1, ShortPrograms DEF Tasks
  <2> QED BY <2>1 DEF MatchStops
<1>4. At("sysinfo") = "idle"
  BY <1>1 DEF At, Tasks
<1>5. PollInv
  BY <1>4 DEF Fresh, PollInv, BootTold, PollLatched, PollOff, LatchedOps, PollOps
<1>6. Armed
  BY DEF Fresh, Armed
<1> QED BY <1>2, <1>3, <1>5, <1>6 DEF ArmInv

LEMMA BootTimer == sleep_start_power_timer(sleep_init).timer = "fresh"
BY DEF sleep_start_power_timer, sleep_init

LEMMA BootedArm == ASSUME NEW on, NEW plugged, Booted(on, plugged) PROVE ArmInv'
<1>1. Fresh'
  BY BootTimer DEF Booted, Idle, Fresh
<1> QED BY <1>1, FreshArm, PTL

LEMMA InitArm == Init => ArmInv
<1>1. Init => Fresh
  BY BootTimer DEF Init, Idle, Fresh
<1> QED BY <1>1, FreshArm

LEMMA StepArm == ASSUME TypeInv, ArmInv, NEW t \in Tasks, Step(t) PROVE ArmInv'
<1>1. ASSUME NEW on, NEW plugged, Booted(on, plugged) PROVE ArmInv'
  BY <1>1, BootedArm
<1>2. ASSUME NEW op, NEW next, Does(t, op, next), Effect(op, next), Overtakes(t) PROVE ArmInv'
  <2>1. ProgInv'
    BY <1>2, ProgKept DEF Effect, ArmInv
  <2>2. ASSUME ~auth'.overtaken PROVE MatchStops'
    BY <1>2, <2>2, MatchStopsKept DEF ArmInv
  <2>3. PollInv'
    BY <1>2, PollKept DEF ArmInv
  <2>4. ASSUME ~auth'.overtaken PROVE Armed'
    <3>1. CASE auth.overtaken
      <4>1. op = "restart"
        BY <1>2, <2>4, <3>1 DEF Overtakes, Does
      <4>2. auth'.timer = "fresh"
        BY <1>2, <4>1 DEF Effect, TimerEffect
      <4> QED BY <4>2 DEF Armed
    <3>2. CASE ~auth.overtaken
      BY <1>2, <3>2, ArmedKept DEF ArmInv
    <3> QED BY <3>1, <3>2
  <2> QED BY <2>1, <2>2, <2>3, <2>4 DEF ArmInv
<1> QED BY <1>1, <1>2, StepEffect, StepOvertakes

LEMMA JoinedHas ==
    ASSUME NEW p \in Seq(Ops), NEW q \in Seq(Ops), NEW S
    PROVE  /\ p \o q \in Seq(Ops)
           /\ Has(p, S) => Has(p \o q, S)
           /\ Among(p, S) /\ Among(q, S) => Among(p \o q, S)
<1> DEFINE r == p \o q
<1>0. r \in Seq(Ops)
  OBVIOUS
<1>1. /\ DOMAIN r = 1 .. Len(p) + Len(q) /\ Len(p) \in Nat /\ Len(q) \in Nat
      /\ \A i \in 1 .. Len(p) + Len(q) : r[i] = IF i <= Len(p) THEN p[i] ELSE q[i - Len(p)]
      /\ DOMAIN p = 1 .. Len(p) /\ DOMAIN q = 1 .. Len(q)
  BY Joined
<1> HIDE DEF r
<1>2. ASSUME Has(p, S) PROVE Has(r, S)
  <2>1. PICK i \in DOMAIN p : p[i] \in S
    BY <1>2 DEF Has
  <2>2. i \in DOMAIN r /\ r[i] = p[i]
    BY <1>1, <2>1
  <2> QED BY <2>1, <2>2 DEF Has
<1>3. ASSUME Among(p, S), Among(q, S) PROVE Among(r, S)
  <2> SUFFICES ASSUME NEW i \in DOMAIN r PROVE r[i] \in S
    BY DEF Among
  <2>1. CASE i <= Len(p)
    BY <1>1, <1>3, <2>1 DEF Among
  <2>2. CASE i > Len(p)
    <3>1. i - Len(p) \in DOMAIN q /\ r[i] = q[i - Len(p)]
      BY <1>1, <2>2
    <3> QED BY <1>3, <3>1 DEF Among
  <2> QED BY <1>1, <2>1, <2>2
<1> QED BY <1>0, <1>2, <1>3 DEF r

\* SECURE_DO(lock): the program of the expiry timer and of a lock command.
LEMMA LockThriceFits ==
    /\ \A t \in {"timer", "sysinfo"} : Fit(t, Thrice(<<"clear_shown">>))
    /\ Has(Thrice(<<"clear_shown">>), Arming)
<1> DEFINE c == <<"clear_shown">>
<1> DEFINE p == Thrice(c)
<1>1. c \in Seq(Ops) /\ Among(c, {"clear_shown"}) /\ Has(c, Arming)
  BY Programs, ShortPrograms DEF Among, Arming
<1> HIDE DEF c
<1>2. c \o c \in Seq(Ops) /\ Among(c \o c, {"clear_shown"}) /\ Has(c \o c, Arming)
  BY <1>1, JoinedHas
<1>3. p \in Seq(Ops) /\ Among(p, {"clear_shown"}) /\ Has(p, Arming)
  BY <1>1, <1>2, JoinedHas DEF Thrice
<1>4. Has(p, Arming)
  BY <1>3
<1> HIDE DEF p
<1>5. \A t \in {"timer", "sysinfo"} : Fit(t, p)
  BY <1>3, FitAmong DEF Tasks, SysOps, LatchedOps, PollOps, UiOps
<1> QED BY <1>4, <1>5 DEF p, c

-----------------------------------------------------------------------------
(* The steps that are no operation of a task *)
LEMMA UiEventArm == ASSUME TypeInv, ArmInv, display_controller_handle_ui_event PROVE ArmInv'
<1> DEFINE e == Head(uiq)
<1> DEFINE program ==
          CASE e = "POWER_OFF" -> <<"ui_power_off", "refresh_auth">>
            [] e = "READY" /\ screen.off -> <<"power_start">> \o lock_device
            [] e = "READY" /\ ~screen.off -> <<"refresh_auth">>
            [] e = "ACTION_POWER_OFF" -> <<"post_power_off_requested">>
            [] e \in {"AUTH_LOCKED", "LOCK_DEVICE"} /\ ~screen.off -> lock_device
            [] e = "AUTH_SUCCESS" /\ ~screen.off -> <<"ui_unlock", "refresh_auth">>
            [] OTHER -> <<>>
<1>1. /\ todo' = [todo EXCEPT !["ui"] = program] /\ uiq' = Tail(uiq) /\ uiq # <<>>
      /\ todo["ui"] = <<>> /\ UNCHANGED <<auth, sleep, sysq, screen, events>>
  BY DEF display_controller_handle_ui_event, show_ready_screen, show_power_off
<1>2. program \in {<<"ui_power_off", "refresh_auth">>, <<"power_start">> \o lock_device,
                   <<"refresh_auth">>, <<"post_power_off_requested">>, lock_device,
                   <<"ui_unlock", "refresh_auth">>, <<>>}
  <2> HIDE DEF e
  <2> QED OBVIOUS
<1>3. /\ e = "POWER_OFF" => program = <<"ui_power_off", "refresh_auth">>
      /\ e = "READY" /\ screen.off => program = <<"power_start">> \o lock_device
      /\ screen.off /\ e # "READY" =>
            program \in {<<"ui_power_off", "refresh_auth">>, <<"post_power_off_requested">>, <<>>}
  <2> HIDE DEF e
  <2> QED OBVIOUS
<1> HIDE DEF program
<1>4. uiq \in Seq(UiEvents) /\ screen.off \in BOOLEAN
  BY DEF TypeInv, UiType, ScreenType
<1>5. todo'["ui"] = program /\ \A u \in Tasks \ {"ui"} : todo'[u] = todo[u]
  BY <1>1 DEF TypeInv, TodoType, Tasks
<1>6. Fit("ui", program)
  <2>0. /\ lock_device \in Seq(Ops) /\ <<"power_start">> \in Seq(Ops)
        /\ \A i \in DOMAIN lock_device : lock_device[i] \in {"ui_lock", "deauth_if_auth", "refresh_auth"}
    BY DEF lock_device, Ops
  <2>1. program \in Seq(Ops)
    <3>1. <<"power_start">> \o lock_device \in Seq(Ops)
      BY <2>0
    <3>2. /\ <<"ui_power_off", "refresh_auth">> \in Seq(Ops) /\ <<"refresh_auth">> \in Seq(Ops)
          /\ <<"post_power_off_requested">> \in Seq(Ops) /\ <<"ui_unlock", "refresh_auth">> \in Seq(Ops)
      BY DEF Ops, Waits
    <3> QED BY <1>2, <2>0, <3>1, <3>2, Programs
  <2>2. \A S : Has(<<"power_start">> \o lock_device, S) => "power_start" \in S \/ Has(lock_device, S)
    BY <2>0, HasJoined, ShortPrograms
  <2>3. CASE program \in {lock_device, <<"power_start">> \o lock_device}
    <3>1. \A S \in {{"timer_stop"}, {"power_stop"}, {"ui_power_off"}, SysOps} : ~Has(lock_device, S)
      BY <2>0 DEF Has, SysOps, LatchedOps, PollOps
    <3>2. ~Has(program, {"timer_stop"}) /\ ~Has(program, {"power_stop"}) /\ ~Has(program, {"ui_power_off"})
      BY <2>2, <2>3, <3>1
    <3>3. ~Has(program, SysOps)
      BY <2>2, <2>3, <3>1 DEF SysOps, LatchedOps, PollOps
    <3> QED BY <2>1, <3>2, <3>3 DEF Fit
  <2>4. CASE program \in {<<"ui_power_off", "refresh_auth">>, <<"refresh_auth">>,
                          <<"post_power_off_requested">>, <<"ui_unlock", "refresh_auth">>, <<>>}
    <3>1. \A i \in DOMAIN program :
            program[i] \in {"ui_power_off", "refresh_auth", "post_power_off_requested", "ui_unlock"}
      BY <2>4
    <3> QED BY <2>1, <3>1 DEF Fit, Has, SysOps, LatchedOps, PollOps
  <2> QED BY <1>2, <2>3, <2>4
<1>7. ProgInv'
  BY <1>1, <1>6, ProgBegins DEF ArmInv, Tasks
<1>8. ASSUME ~auth.overtaken PROVE MatchStops'
  BY <1>1, <1>5, <1>8 DEF ArmInv, MatchStops, Tasks
<1>9. OffNow <=> screen.off
  BY <1>1, ShortPrograms DEF OffNow
<1>10. (e = "POWER_OFF" => OffNow') /\ (OffNow /\ e # "READY" => OffNow')
  <2>1. ASSUME e = "POWER_OFF" PROVE OffNow'
    <3>1. Has(<<"ui_power_off", "refresh_auth">>, {"ui_power_off"})
      BY ShortPrograms
    <3> QED BY <1>3, <1>5, <2>1, <3>1 DEF OffNow
  <2>2. ASSUME OffNow, e # "READY" PROVE OffNow'
    <3>1. program \in {<<"ui_power_off", "refresh_auth">>, <<"post_power_off_requested">>, <<>>}
      BY <1>3, <1>9, <2>2
    <3>2. ~Has(program, {"ui_lock"})
      BY <3>1, ShortPrograms
    <3> QED BY <1>1, <1>5, <1>9, <2>2, <3>2 DEF OffNow
  <2> QED BY <2>1, <2>2
<1>11. /\ LastOff(uiq, OffNow) => LastOff(Tail(uiq), OffNow')
       /\ OffReady(uiq, OffNow) /\ ~(OffNow /\ e = "READY") => OffReady(Tail(uiq), OffNow')
  BY <1>1, <1>4, <1>10, OffBoolean, QueueShrinks
<1>12. PollInv'
  <2>1. At("sysinfo")' = At("sysinfo") /\ (BootPending' <=> BootPending)
    BY <1>1, <1>5 DEF At, BootPending, Tasks
  <2>2. OffLast => OffLast'
    BY <1>1, <1>11 DEF OffLast
  <2> QED BY <1>1, <2>1, <2>2 DEF ArmInv, PollInv, BootTold, PollLatched, PollOff
<1>13. ASSUME ~auth.overtaken PROVE Armed'
  <2>1. WillArm => WillArm'
    <3> SUFFICES ASSUME NEW u \in Tasks, Has(todo[u], Arming) PROVE WillArm'
      BY DEF WillArm
    <3>1. u # "ui"
      BY <1>1, ShortPrograms
    <3> QED BY <1>5, <3>1 DEF WillArm
  <2>2. ASSUME ReadyComes PROVE WillArm' \/ ReadyComes'
    <3>1. CASE OffNow /\ e = "READY"
      <4>1. program = <<"power_start">> \o lock_device
        BY <1>3, <1>9, <3>1
      <4>2. 1 \in DOMAIN program /\ program[1] = "power_start"
        BY <4>1 DEF lock_device
      <4>3. Has(todo'["ui"], Arming)
        BY <1>5, <4>2 DEF Has, Arming
      <4> QED BY <4>3 DEF WillArm, Tasks
    <3>2. CASE ~(OffNow /\ e = "READY")
      <4>1. ReadyOff => ReadyOff'
        BY <1>1, <1>11, <3>2 DEF ReadyOff
      <4>2. BootPending' <=> BootPending
        BY <1>1, <1>5 DEF BootPending, Tasks
      <4>3. Has(uiq, {"POWER_OFF"}) => OffNow' \/ Has(uiq', {"POWER_OFF"})
        BY <1>1, <1>4, <1>10, HasShorter
      <4>4. OffNow => OffNow'
        BY <1>10, <3>2
      <4> QED BY <2>2, <4>1, <4>2, <4>3, <4>4 DEF ReadyComes
    <3> QED BY <3>1, <3>2
  <2> QED BY <1>1, <1>13, <2>1, <2>2 DEF ArmInv, Armed
<1> QED BY <1>1, <1>7, <1>8, <1>12, <1>13 DEF ArmInv

LEMMA SysinfoThreadArm == ASSUME TypeInv, ArmInv, sysinfo_thread PROVE ArmInv'
<1> DEFINE m == Head(sysq)
<1> DEFINE program == CASE m = "LOCK_DEVICE" -> handle_lock_device
                        [] m = "BOOT_STATUS" -> <<"boot_handled">>
                        [] OTHER -> sysinfo_task_port_prepare_power_down
<1>1. /\ todo' = [todo EXCEPT !["sysinfo"] = program] /\ todo["sysinfo"] = <<>>
      /\ sysq # <<>> /\ sysq' = Tail(sysq) /\ UNCHANGED <<auth, sleep, uiq, screen, events>>
  BY DEF sysinfo_thread
<1>2. /\ program \in {handle_lock_device, <<"boot_handled">>, sysinfo_task_port_prepare_power_down}
      /\ m = "BOOT_STATUS" => program = <<"boot_handled">>
  OBVIOUS
<1> HIDE DEF program
<1>3. Fit("sysinfo", program)
  <2>1. CASE program = handle_lock_device
    BY <2>1, LockThriceFits DEF handle_lock_device, Tasks
  <2>2. CASE program = <<"boot_handled">>
    <3>1. program \in Seq(Ops) /\ program \in SysPrograms /\ Head(program) = "boot_handled"
      BY <2>2 DEF Ops, SysPrograms
    <3>2. ~Has(program, {"timer_stop"}) /\ ~Has(program, {"power_stop"}) /\ ~Has(program, UiOps)
      BY <2>2, ShortPrograms DEF UiOps
    <3> QED BY <3>1, <3>2 DEF Fit, LatchedOps, PollOps
  <2>3. CASE program = sysinfo_task_port_prepare_power_down
    <3>1. program \in Seq(Ops) /\ program \in SysPrograms /\ Head(program) = "begin_shutdown"
      BY <2>3 DEF Ops, Waits, SysPrograms, sysinfo_task_port_prepare_power_down
    <3>2. ~Has(program, {"timer_stop"}) /\ ~Has(program, {"power_stop"}) /\ ~Has(program, UiOps)
      BY <2>3, ShortPrograms DEF UiOps, sysinfo_task_port_prepare_power_down
    <3> QED BY <3>1, <3>2 DEF Fit, LatchedOps, PollOps
  <2> QED BY <1>2, <2>1, <2>2, <2>3
<1>4. BootPending => BootPending'
  <2>1. todo'["sysinfo"] = program
    BY <1>1 DEF TypeInv, TodoType, Tasks
  <2>2. CASE m = "BOOT_STATUS"
    BY <1>2, <2>1, <2>2, ShortPrograms DEF BootPending
  <2>3. CASE m # "BOOT_STATUS"
    <3>1. sysq \in Seq(SysMsgs) /\ ~Has(todo["sysinfo"], {"boot_handled"})
      BY <1>1, ShortPrograms DEF TypeInv, SysType
    <3>2. Has(sysq, {"BOOT_STATUS"}) => Has(Tail(sysq), {"BOOT_STATUS"})
      BY <1>1, <2>3, <3>1, HasShorter
    <3> QED BY <1>1, <3>1, <3>2 DEF BootPending
  <2> QED BY <2>2, <2>3
<1> QED BY <1>1, <1>3, <1>4, BeginsArm DEF Tasks

LEMMA ExpiresArm == ASSUME TypeInv, ArmInv, Expires PROVE ArmInv'
<1>1. /\ todo["timer"] = <<>> /\ UNCHANGED <<uiq, screen, events, sysq>>
  BY DEF Expires
<1>2. CASE /\ auth.timer = "due" /\ auth' = [auth EXCEPT !.timer = "off"]
           /\ todo' = [todo EXCEPT !["timer"] = auth_timer_callback]
           /\ UNCHANGED sleep
  <2>1. Fit("timer", auth_timer_callback) /\ Has(auth_timer_callback, Arming)
    BY LockThriceFits DEF auth_timer_callback, Tasks
  <2>2. BootPending => BootPending'
    BY <1>1, <1>2 DEF BootPending, TypeInv, TodoType, Tasks
  <2>3. auth'.overtaken = auth.overtaken
    BY <1>2 DEF TypeInv, AuthType, AuthTypes
  <2> QED BY <1>1, <1>2, <2>1, <2>2, <2>3, BeginsArm DEF Tasks
<1>3. CASE /\ sleep.timer = "due" /\ sleep' = [sleep EXCEPT !.timer = "off"]
           /\ todo' = [todo EXCEPT !["timer"] = power_system_down_callback]
           /\ UNCHANGED auth
  <2>1. /\ power_system_down_callback \in Seq(Ops) /\ Among(power_system_down_callback, {"shutdown"})
        /\ Among(power_system_down_callback, ShutOps)
    BY DEF power_system_down_callback, Ops, Among, ShutOps
  <2>2. Has(power_system_down_callback, Arming)
    BY ShortPrograms DEF power_system_down_callback, Arming
  <2>3. Fit("timer", power_system_down_callback)
    BY <2>1, FitAmong DEF Tasks, SysOps, LatchedOps, PollOps, UiOps
  <2>4. BootPending => BootPending'
    BY <1>1, <1>3 DEF BootPending, TypeInv, TodoType, Tasks
  <2>5. sleep'.latched = sleep.latched
    BY <1>3 DEF TypeInv, SleepInv, Latch, SleepTypes
  <2> QED BY <1>1, <1>3, <2>1, <2>2, <2>3, <2>4, <2>5, BeginsArm DEF Tasks
<1> QED BY <1>2, <1>3 DEF Expires

LEMMA TimePassesArm == ASSUME TypeInv, ArmInv, TimePasses PROVE ArmInv'
<1>1. todo["matching"] # <<"power_stop">>
  <2> SUFFICES ASSUME todo["matching"] = <<"power_stop">> PROVE FALSE
    OBVIOUS
  <2>1. At("matching") = "power_stop"
    BY DEF At
  <2> QED BY <2>1 DEF TimePasses, AtRest, Tasks
<1>2. /\ auth.timer # "off" => auth'.timer # "off"
      /\ sleep.timer # "off" => sleep'.timer # "off"
      /\ sleep'.latched = sleep.latched /\ auth'.overtaken = auth.overtaken
  BY DEF TimePasses, TypeInv, AuthType, AuthTypes, SleepInv, Latch, SleepTypes
<1>3. UNCHANGED <<todo, uiq, sysq, screen, events>>
  BY DEF TimePasses
<1> QED BY <1>1, <1>2, <1>3, StillArm DEF BootPending

\* Two programs of the same operations in the same order are one program.
LEMMA SameProgram ==
    ASSUME NEW a \in Seq(Ops), NEW b \in Seq(Ops), Len(a) = Len(b), NEW n, n = Len(a),
           \A i \in 1 .. n : a[i] = b[i]
    PROVE  a = b
OBVIOUS

\* An input begins a program.
LEMMA InputArm ==
    ASSUME TypeInv, ArmInv, NEW t \in Tasks \ {"timer", "ui", "sysinfo"}, NEW p, Fit(t, p), todo[t] = <<>>,
           todo' = [todo EXCEPT ![t] = p], UNCHANGED <<auth, sleep, uiq, sysq, screen>>,
           events'.boot = events.boot
    PROVE  ArmInv'
<1>1. BootPending => BootPending'
  BY DEF BootPending, TypeInv, TodoType, Tasks
<1> QED BY <1>1, BeginsArm

LEMMA InputsArm == ASSUME TypeInv, ArmInv, Inputs PROVE ArmInv'
<1>1. CASE Begins("matching", <<"refresh_power", "post_success">> \o do_authenticate)
  <2> DEFINE p == <<"refresh_power", "post_success">> \o do_authenticate
  <2> DEFINE s == <<"refresh_power", "post_success", "set", "restart", "power_stop">>
  <2>1. p = s
    <3>1. PICK f \in Seq(Ops), g \in Seq(Ops) :
            f = <<"refresh_power", "post_success">> /\ g = do_authenticate /\ p = f \o g
      <4>1. <<"refresh_power", "post_success">> \in Seq(Ops) /\ do_authenticate \in Seq(Ops)
        BY DEF do_authenticate, Ops
      <4> QED BY <4>1
    <3>2. Len(f) = 2 /\ f[1] = "refresh_power" /\ f[2] = "post_success"
      BY <3>1
    <3>3. Len(g) = 3 /\ g[1] = "set" /\ g[2] = "restart" /\ g[3] = "power_stop"
      BY <3>1 DEF do_authenticate
    <3>4. p \in Seq(Ops) /\ s \in Seq(Ops) /\ Len(s) = 5
      BY <3>1, JoinedHas DEF Ops
    <3>5. /\ s[1] = "refresh_power" /\ s[2] = "post_success" /\ s[3] = "set" /\ s[4] = "restart"
          /\ s[5] = "power_stop"
      OBVIOUS
    <3> HIDE DEF p, s
    <3>6. /\ Len(p) = Len(f) + Len(g)
          /\ \A i \in 1 .. Len(f) + Len(g) : p[i] = IF i <= Len(f) THEN f[i] ELSE g[i - Len(f)]
      BY <3>1, Joined
    <3>7. Len(p) = 5 /\ \A i \in 1 .. 5 : p[i] = s[i]
      BY <3>2, <3>3, <3>5, <3>6
    <3> QED BY <3>4, <3>7, SameProgram
  <2>2. s \in Seq(Ops) /\ s \in MatchPrograms /\ \A i \in DOMAIN s : s[i] \in SuccessOps
    BY DEF Ops, MatchPrograms, SuccessOps
  <2>s. Len(s) = 5 /\ Len(<<"power_stop">>) = 1
    OBVIOUS
  <2> HIDE DEF s, p
  <2>3. /\ p \in Seq(Ops) /\ p \in MatchPrograms \ {<<"power_stop">>}
        /\ \A i \in DOMAIN p : p[i] \in SuccessOps
    BY <2>1, <2>2, <2>s
  <2>4. Fit("matching", p)
    BY <2>3 DEF Fit, Has, SuccessOps, SysOps, LatchedOps, PollOps, UiOps
  <2> QED BY <1>1, <2>4, InputArm DEF Begins, Tasks, p
<1>2. CASE Begins("matching", <<"refresh_power">> \o handle_match_fail)
  <2> DEFINE p == <<"refresh_power">> \o handle_match_fail
  <2>1. /\ <<"refresh_power">> \in Seq(Ops) /\ handle_match_fail \in Seq(Ops)
        /\ Among(<<"refresh_power">>, {"refresh_power", "deauth_if_locked"})
        /\ Among(handle_match_fail, {"refresh_power", "deauth_if_locked"})
    BY DEF handle_match_fail, Ops, Among
  <2>2. p \in Seq(Ops) /\ Among(p, {"refresh_power", "deauth_if_locked"})
    BY <2>1, JoinedHas
  <2> HIDE DEF p
  <2>3. Fit("matching", p)
    BY <2>2, FitAmong DEF Tasks, SysOps, LatchedOps, PollOps, UiOps
  <2> QED BY <1>2, <2>3, InputArm DEF Begins, Tasks, p
<1>3. CASE ipc_proto_route
  <2>1. PICK p \in {<<"refresh_power", "refresh_auth">>, <<"refresh_power", "refresh_auth", "post_lock_cmd">>} :
          Begins("nfc", p)
    BY <1>3 DEF ipc_proto_route
  <2>2. p \in Seq(Ops) /\ Among(p, NfcOps)
    <3>1. CASE p = <<"refresh_power", "refresh_auth">>
      BY <3>1 DEF Ops, Among, NfcOps
    <3>2. CASE p = <<"refresh_power", "refresh_auth", "post_lock_cmd">>
      BY <3>2 DEF Ops, Waits, Among, NfcOps
    <3> QED BY <3>1, <3>2
  <2>3. Fit("nfc", p)
    BY <2>2, FitAmong DEF Tasks, SysOps, LatchedOps, PollOps, UiOps, NfcOps
  <2> QED BY <2>1, <2>3, InputArm DEF Begins, Tasks
<1>4. CASE handle_touch_event
  <2> DEFINE p == <<"touched", "refresh_power", "refresh_auth">>
  <2>1. p \in Seq(Ops) /\ Among(p, {"touched", "refresh_power", "refresh_auth"})
    BY DEF Ops, Among
  <2> HIDE DEF p
  <2>2. Fit("usart", p)
    BY <2>1, FitAmong DEF Tasks, SysOps, LatchedOps, PollOps, UiOps
  <2> QED BY <1>4, <2>2, InputArm DEF handle_touch_event, Begins, Tasks, p
<1>5. CASE charger_thread
  <2>1. <<"charger">> \in Seq(Ops) /\ Among(<<"charger">>, {"charger"})
    BY DEF Ops, Among
  <2>2. Fit("charger", <<"charger">>)
    BY <2>1, FitAmong DEF Tasks, SysOps, LatchedOps, PollOps, UiOps
  <2>3. events'.boot = events.boot
    BY <1>5 DEF charger_thread, TypeInv, EventsType
  <2> QED BY <1>5, <2>2, <2>3, InputArm DEF charger_thread, Tasks
<1>6. CASE handle_display_action
  <2>1. /\ UNCHANGED <<auth, todo, sysq, screen, events>>
        /\ \E e \in UiEvents \ {"READY"} : uiq' = Append(uiq, e)
        /\ sleep' = sleep_refresh_power_timer(sleep)
    BY <1>6 DEF handle_display_action, UiEvents
  <2>2. sleep'.latched = sleep.latched /\ (sleep.timer # "off" => sleep'.timer # "off")
    BY <2>1 DEF TypeInv, SleepInv, Latch, SleepTypes, sleep_refresh_power_timer
  <2> QED BY <2>1, <2>2, StillArm DEF BootPending
<1>7. CASE UxcReboots
  <2>1. UNCHANGED <<auth, sleep, todo, uiq, screen>> /\ sysq' = Append(sysq, "BOOT_STATUS")
    BY <1>7 DEF UxcReboots
  <2>2. Has(sysq', {"BOOT_STATUS"})
    BY <2>1, HasLonger DEF TypeInv, SysType, SysMsgs
  <2> QED BY <2>1, <2>2, StillArm DEF BootPending
<1>8. CASE Wakes
  BY <1>8, BootedArm DEF Wakes
<1>9. CASE Begins("matching", <<"refresh_power", "set_enrolled", "restart", "power_stop">>)
  <2> DEFINE p == <<"refresh_power", "set_enrolled", "restart", "power_stop">>
  <2>1. /\ p \in Seq(Ops) /\ p \in MatchPrograms /\ Len(p) = 4 /\ Len(<<"power_stop">>) = 1
        /\ \A i \in DOMAIN p : p[i] \in SuccessOps
    BY DEF Ops, MatchPrograms, SuccessOps
  <2> HIDE DEF p
  <2>2. p # <<"power_stop">>
    BY <2>1
  <2>3. Fit("matching", p)
    BY <2>1, <2>2 DEF Fit, Has, SuccessOps, SysOps, LatchedOps, PollOps, UiOps
  <2> QED BY <1>9, <2>3, InputArm DEF Begins, Tasks, p
<1>10. CASE Begins("matching", <<"refresh_power">>)
  <2>1. <<"refresh_power">> \in Seq(Ops) /\ Among(<<"refresh_power">>, {"refresh_power"})
    BY DEF Ops, Among
  <2>2. Fit("matching", <<"refresh_power">>)
    BY <2>1, FitAmong DEF Tasks, SysOps, LatchedOps, PollOps, UiOps
  <2> QED BY <1>10, <2>2, InputArm DEF Begins, Tasks
<1> QED
  BY <1>1, <1>2, <1>3, <1>4, <1>5, <1>6, <1>7, <1>8, <1>9, <1>10 DEF Inputs, auth_matching_thread

LEMMA NextArm == TypeInv /\ ArmInv /\ [Next]_vars => ArmInv'
<1> SUFFICES ASSUME TypeInv, ArmInv, [Next]_vars PROVE ArmInv'
  OBVIOUS
<1>1. CASE UNCHANGED vars
  BY <1>1, StillArm DEF vars, BootPending
<1>2. CASE TaskStep
  BY <1>2, StepArm, UiEventArm, SysinfoThreadArm DEF TaskStep
<1> QED BY <1>1, <1>2, TimePassesArm, ExpiresArm, InputsArm DEF Next

\* At rest nothing is left that would arm a timer.
LEMMA RestArm == TypeInv /\ ArmInv => SomeTimerRuns
<1> SUFFICES ASSUME TypeInv, ArmInv, AtRest, auth.timer = "off", sleep.timer = "off", ~sleep.latched,
                    ~auth.overtaken
             PROVE  FALSE
  BY DEF SomeTimerRuns
<1>1. ASSUME NEW t \in Tasks PROVE todo[t] = <<>>
  <2> SUFFICES ASSUME todo[t] # <<>> PROVE FALSE
    OBVIOUS
  <2>1. todo[t] \in Seq(Ops) /\ At(t) \in {"idle", "poll"}
    BY DEF TypeInv, TodoType, AtRest
  <2>2. 1 \in DOMAIN todo[t] /\ todo[t][1] = At(t) /\ At(t) \in Ops
    BY <2>1 DEF At
  <2>3. At(t) = "poll"
    BY <2>1, <2>2 DEF Ops, Waits
  <2>4. At(t) \in SysOps /\ At(t) \in LatchedOps
    BY <2>3 DEF SysOps, LatchedOps, PollOps
  <2>5. t = "sysinfo"
    BY <2>2, <2>4 DEF ArmInv, ProgInv, OnlySysinfo, Has
  <2> QED BY <2>4, <2>5 DEF ArmInv, PollInv, PollLatched
<1>2. ~WillArm
  BY <1>1, ShortPrograms DEF WillArm
<1>3. ~ReadyOff /\ ~BootPending
  <2>1. uiq = <<>> /\ sysq = <<>> /\ todo["sysinfo"] = <<>>
    BY <1>1 DEF AtRest, Tasks
  <2> QED BY <2>1, ShortPrograms DEF ReadyOff, OffReady, BootPending
<1> QED BY <1>2, <1>3 DEF ArmInv, Armed, ReadyComes

\* The device is never left at rest with both timers off and no shutdown begun:
\* do_deauthenticate starts the power timer after it has stopped the expiry timer,
\* do_authenticate stops the power timer after it has started the expiry timer,
\* the latch of sleep_begin_shutdown takes the place of the timer, and a shutdown
\* called off by a reboot of the UXC has a READY event coming to the power-off
\* screen, whose handling starts the power timer. The one exception is in the
\* property: a match that restarted the expiry timer while the timer task waited
\* in on_lock, before the last of its three locks, stops the power timer after it.
THEOREM SomethingSwitchesOff == Spec => []SomeTimerRuns
<1>1. Spec => []ArmInv
  BY NextArm, SpecTypeInv, InitArm, PTL DEF Spec
<1> QED BY <1>1, SpecTypeInv, RestArm, PTL

=============================================================================
