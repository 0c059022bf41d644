------------------------------- MODULE Auth -------------------------------
(***************************************************************************)
(* The authentication state of Core (lib/auth), the power timer            *)
(* (lib/sleep), the shutdown (sysinfo task) and the lock screen (display   *)
(* controller), which tasks of different priorities use together.          *)
(*                                                                         *)
(* A task has a program: the operations it still has to do, each of them   *)
(* one critical section or one command to a timer.  What it does next may  *)
(* depend on what it read, so an operation may put further ones in front.  *)
(* FreeRTOS runs a task only while every task of a higher priority waits;  *)
(* tasks of the same priority are time-sliced.                             *)
(***************************************************************************)
EXTENDS Integers, Sequences, Sleep

CONSTANTS
    QueueSize,   \* slots of the queue of the sysinfo task
    MaxInputs    \* bound on what the user, the app and the UXC do

ASSUME ConstantsAssumption ==
    QueueSize \in Nat \ {0} /\ MaxInputs \in Nat

VARIABLES
    auth,     \* auth_ctx_t: on is authenticated, timer the expiry timer;
              \* and of its past: enrolled, the authentication came from an
              \* enrollment; overtaken, the last match restarted the expiry
              \* timer while the timer task waited in the callback of a lock
    sleep,    \* sleep_ctx
    todo,     \* the program of each task
    uiq,      \* events in the queue of the UI task
    sysq,     \* messages in the queue of the sysinfo task
    screen,   \* the display controller: is_locked, current_flow is POWER_OFF
    events,   \* sysevents TOUCH and COPROC_BOOT; USB power
    power,    \* is the device on?
    inputs

vars == <<auth, sleep, todo, uiq, sysq, screen, events, power, inputs>>

Tasks == {"timer", "matching", "nfc", "usart", "charger", "sysinfo", "ui"}

Priority == [timer |-> 4, matching |-> 3, nfc |-> 3, usart |-> 2, charger |-> 2,
             sysinfo |-> 2, ui |-> 1]

\* Operations at which a task may wait, so that others run.
Waits == {"post_lock_cmd", "post_power_off", "post_power_off_requested",
          "post_shutdown", "clear_touch", "poll", "on_lock", "on_lock_shown"}

Ops == Waits \cup
       {"set", "set_enrolled", "restart", "power_stop", "clear", "clear_shown", "timer_stop",
        "power_start", "refresh_power", "refresh_auth", "post_success",
        "deauth_if_locked", "ui_lock", "ui_unlock", "ui_power_off", "ui_ready",
        "deauth_if_auth", "touched", "charger", "shutdown", "if_plugged",
        "begin_shutdown", "poll_exit", "power_down", "boot_handled"}

TypeOK ==
    /\ auth \in [on : BOOLEAN, timer : Timers, enrolled : BOOLEAN, overtaken : BOOLEAN]
    /\ sleep \in SleepTypes
    /\ todo \in [Tasks -> Seq(Ops)]
    /\ uiq \in Seq({"AUTH_LOCKED", "AUTH_SUCCESS", "POWER_OFF", "READY", "LOCK_DEVICE",
                    "ACTION_POWER_OFF"})
    /\ sysq \in Seq({"LOCK_DEVICE", "POWER_OFF_REQUESTED", "BOOT_STATUS"})
    /\ Len(sysq) <= QueueSize
    /\ screen \in [locked : BOOLEAN, off : BOOLEAN]
    /\ events \in [touch : BOOLEAN, boot : BOOLEAN, plugged : BOOLEAN]
    /\ power \in {"on", "off"}
    /\ inputs \in 0 .. MaxInputs

-----------------------------------------------------------------------------
(* Programs *)

do_authenticate == <<"set", "restart", "power_stop">>

\* SECURE_DO runs its argument three times.
Thrice(p) == p \o p \o p

auth_timer_callback == Thrice(<<"clear_shown">>)
power_system_down_callback == <<"shutdown">>
handle_lock_device == Thrice(<<"clear_shown">>)
handle_match_fail == <<"deauth_if_locked">>
lock_device == <<"ui_lock", "deauth_if_auth", "refresh_auth">>
show_ready_screen == <<"power_start">> \o lock_device   \* under the power-off screen
show_power_off == <<"ui_power_off", "refresh_auth">>
sysinfo_task_port_prepare_power_down ==
    <<"begin_shutdown", "post_power_off", "if_plugged">>

Idle == [t \in Tasks |-> <<>>]

Locked == [on |-> FALSE, timer |-> "off", enrolled |-> FALSE, overtaken |-> FALSE]

\* Core after a reset: locked, the power timer started by the sysinfo task.
\* Nothing of this survives while the device is off.
Booted(on, plugged) ==
    /\ auth' = Locked
    /\ sleep' = sleep_start_power_timer(sleep_init)
    /\ todo' = Idle /\ uiq' = <<>> /\ sysq' = <<>>
    /\ screen' = [locked |-> TRUE, off |-> FALSE]
    /\ events' = [touch |-> FALSE, boot |-> FALSE, plugged |-> plugged]
    /\ power' = on

Init ==
    /\ auth = Locked
    /\ sleep = sleep_start_power_timer(sleep_init)
    /\ todo = Idle /\ uiq = <<>> /\ sysq = <<>>
    /\ screen = [locked |-> TRUE, off |-> FALSE]
    /\ events \in [touch : {FALSE}, boot : {FALSE}, plugged : BOOLEAN]
    /\ power = "on"
    /\ inputs = 0

-----------------------------------------------------------------------------
(* One operation of a task *)

\* What a task is to do next.
At(t) == IF todo[t] = <<>> THEN "idle" ELSE Head(todo[t])

\* Operations under the lock of sleep_ctx, which the callback of the power timer
\* takes first: one that was begun when the timer expired is finished before it.
SleepOps == {"power_start", "power_stop", "refresh_power", "charger", "begin_shutdown"}

Runs(t) ==
    \A u \in Tasks : Priority[u] > Priority[t] =>
        At(u) \in Waits \cup {"idle"} \/ (At(u) = "shutdown" /\ At(t) \in SleepOps)

\* Task t does op and goes on with next, then with the rest of its program.
Does(t, op, next) ==
    /\ power = "on" /\ At(t) = op /\ Runs(t)
    /\ todo' = [todo EXCEPT ![t] = next \o Tail(@)]
    /\ UNCHANGED <<power, inputs>>

OnlyAuth(a) == auth' = a /\ UNCHANGED <<sleep, uiq, sysq, screen, events>>
OnlySleep(s) == sleep' = s /\ UNCHANGED <<auth, uiq, sysq, screen, events>>
OnlyScreen(s) == screen' = s /\ UNCHANGED <<auth, sleep, uiq, sysq, events>>
OnlyEvents(e) == events' = e /\ UNCHANGED <<auth, sleep, uiq, sysq, screen>>
OnlyUiQueue(e) == uiq' = Append(uiq, e) /\ UNCHANGED <<auth, sleep, sysq, screen, events>>
OnlySysQueue(e) == /\ Len(sysq) < QueueSize /\ sysq' = Append(sysq, e)
                   /\ UNCHANGED <<auth, sleep, uiq, screen, events>>

\* lib/auth: what is done under auth.lock, and the commands to its timer.
SetAuthenticated(t) ==
    \E op \in {"set", "set_enrolled"} :
        /\ Does(t, op, <<>>)
        /\ OnlyAuth([auth EXCEPT !.on = TRUE, !.enrolled = op = "set_enrolled"])

RestartTimer(t) ==
    /\ Does(t, "restart", <<>>)
    /\ OnlyAuth([auth EXCEPT !.timer = "fresh",
                   !.overtaken = IF t = "matching" THEN At("timer") \in {"on_lock", "on_lock_shown"}
                                                   ELSE @])

StopTimer(t) == Does(t, "timer_stop", <<>>) /\ OnlyAuth([auth EXCEPT !.timer = "off"])

\* Mutant: the power timer is not started when the device locks.
DeauthenticateStaysAwake(t) ==
    \E op \in {"clear", "clear_shown"} :
        /\ Does(t, op, <<"timer_stop",
                  IF op = "clear_shown" /\ auth.on THEN "on_lock_shown" ELSE "on_lock">>)
        /\ OnlyAuth([auth EXCEPT !.on = FALSE, !.enrolled = FALSE])

\* The lock is shown only if the device was unlocked and the caller wants it.
do_deauthenticate(t) ==
    \E op \in {"clear", "clear_shown"} :
        /\ Does(t, op, <<"timer_stop", "power_start",
                  IF op = "clear_shown" /\ auth.on THEN "on_lock_shown" ELSE "on_lock">>)
        /\ OnlyAuth([auth EXCEPT !.on = FALSE, !.enrolled = FALSE])

\* The callback also has the key manager drop its cache of derived keys. Both
\* posts wait for room in a queue, however long that takes.
on_lock(t) ==
    \/ Does(t, "on_lock_shown", <<>>) /\ OnlyUiQueue("AUTH_LOCKED")
    \/ Does(t, "on_lock", <<>>) /\ OnlyAuth(auth)

refresh_auth(t) ==
    Does(t, "refresh_auth", IF auth.on THEN <<"restart">> ELSE <<>>) /\ OnlyAuth(auth)

\* lib/sleep
PowerTimer(t) ==
    \/ Does(t, "power_start", <<>>) /\ OnlySleep(sleep_start_power_timer(sleep))
    \/ Does(t, "power_stop", <<>>) /\ OnlySleep(sleep_stop_power_timer(sleep))
    \/ Does(t, "refresh_power", <<>>) /\ OnlySleep(sleep_refresh_power_timer(sleep))
    \/ Does(t, "charger", <<>>) /\ OnlySleep(sleep_set_charger_extension(sleep))

-----------------------------------------------------------------------------
(* Matching, NFC and USART tasks *)

\* A mismatch locks a device that is locked already: the power timer restarts.
MatchFails(t) ==
    Does(t, "deauth_if_locked", IF auth.on THEN <<>> ELSE <<"clear_shown">>)
    /\ OnlyAuth(auth)

Posts(t) ==
    \/ Does(t, "post_success", <<>>) /\ OnlyUiQueue("AUTH_SUCCESS")
    \/ Does(t, "post_lock_cmd", <<>>) /\ OnlySysQueue("LOCK_DEVICE")
    \/ Does(t, "touched", <<>>) /\ OnlyEvents([events EXCEPT !.touch = TRUE])

-----------------------------------------------------------------------------
(* Display controller, in the UI task *)

\* Mutant: the lock screen is shown and the authentication is kept.
MarkLockedOnScreen(t) ==
    \/ Does(t, "ui_lock", <<>>) /\ OnlyScreen([locked |-> TRUE, off |-> FALSE])
    \/ Does(t, "deauth_if_auth", <<>>) /\ OnlyAuth(auth)

mark_device_locked(t) ==
    \/ Does(t, "ui_lock", <<>>) /\ OnlyScreen([locked |-> TRUE, off |-> FALSE])
    \/ /\ Does(t, "deauth_if_auth", IF auth.on THEN <<"clear">> ELSE <<>>)
       /\ OnlyAuth(auth)

\* Everything but POWER_OFF and READY is ignored under the power-off screen.
display_controller_handle_ui_event ==
    LET e == Head(uiq)
        program ==
          CASE e = "POWER_OFF" -> show_power_off
            [] e = "READY" /\ screen.off -> show_ready_screen
            [] e = "READY" /\ ~screen.off -> <<"refresh_auth">>
            [] e = "ACTION_POWER_OFF" -> <<"post_power_off_requested">>
            [] e \in {"AUTH_LOCKED", "LOCK_DEVICE"} /\ ~screen.off -> lock_device
            [] e = "AUTH_SUCCESS" /\ ~screen.off -> <<"ui_unlock", "refresh_auth">>
            [] OTHER -> <<>>
    IN  /\ power = "on" /\ todo["ui"] = <<>> /\ uiq # <<>> /\ Runs("ui")
        /\ todo' = [todo EXCEPT !["ui"] = program] /\ uiq' = Tail(uiq)
        /\ UNCHANGED <<auth, sleep, sysq, screen, events, power, inputs>>

ScreenChanges(t) ==
    \/ Does(t, "ui_unlock", <<>>) /\ OnlyScreen([screen EXCEPT !.locked = FALSE])
    \/ Does(t, "ui_power_off", <<>>) /\ OnlyScreen([screen EXCEPT !.off = TRUE])
    \/ Does(t, "post_power_off_requested", <<>>) /\ OnlySysQueue("POWER_OFF_REQUESTED")

-----------------------------------------------------------------------------
(* Shutdown: the timer's callback and the sysinfo task *)

Reset == Booted("on", events.plugged) /\ UNCHANGED inputs

\* Mutant: the callback does not see that the queue is full.
ShutdownPostsAnyway(t) ==
    \/ /\ Does(t, "shutdown", IF sleep.latched THEN <<>> ELSE <<"post_shutdown">>)
       /\ OnlySleep(sleep_begin_shutdown(sleep))
    \/ /\ Does(t, "post_shutdown", <<>>)
       /\ sysq' = Append(sysq, "POWER_OFF_REQUESTED")
       /\ UNCHANGED <<auth, sleep, uiq, screen, events>>

\* The callback gives up when a shutdown has begun already; it resets the device
\* when the message does not fit into the queue in time.
ShutdownCallback(t) ==
    \/ /\ Does(t, "shutdown", IF sleep.latched THEN <<>> ELSE <<"post_shutdown">>)
       /\ OnlySleep(sleep_begin_shutdown(sleep))
    \/ Does(t, "post_shutdown", <<>>) /\ OnlySysQueue("POWER_OFF_REQUESTED")
    \/ power = "on" /\ At(t) = "post_shutdown" /\ Len(sysq) = QueueSize /\ Reset

sysinfo_thread ==
    LET program == CASE Head(sysq) = "LOCK_DEVICE" -> handle_lock_device
                     [] Head(sysq) = "BOOT_STATUS" -> <<"boot_handled">>
                     [] OTHER -> sysinfo_task_port_prepare_power_down
    IN  /\ power = "on" /\ todo["sysinfo"] = <<>> /\ sysq # <<>> /\ Runs("sysinfo")
        /\ todo' = [todo EXCEPT !["sysinfo"] = program] /\ sysq' = Tail(sysq)
        /\ UNCHANGED <<auth, sleep, uiq, screen, events, power, inputs>>

\* On USB power the task waits until it is unplugged, touched or the UXC has
\* rebooted.
PreparePowerDown(t) ==
    \/ Does(t, "begin_shutdown", <<>>) /\ OnlySleep(sleep_begin_shutdown(sleep))
    \/ Does(t, "post_power_off", <<>>) /\ OnlyUiQueue("POWER_OFF")
    \/ /\ Does(t, "if_plugged", IF events.plugged THEN <<"clear_touch", "poll", "poll_exit">>
                                                  ELSE <<"power_down">>)
       /\ OnlyAuth(auth)
    \/ Does(t, "clear_touch", <<>>) /\ OnlyEvents([events EXCEPT !.touch = FALSE])
    \/ /\ Does(t, "poll", <<>>) /\ OnlyAuth(auth)
       /\ ~events.plugged \/ events.touch \/ events.boot

\* Mutant: the shutdown is given up and the latch stays.
PollExitLatched(t) ==
    \/ Does(t, "poll_exit", <<>>) /\ events.plugged /\ events.boot /\ OnlySleep(sleep)
    \/ /\ Does(t, "poll_exit", <<"power_down">>) /\ ~(events.plugged /\ events.boot)
       /\ OnlySleep(sleep)

\* A reboot of the UXC calls the shutdown off.
PollExit(t) ==
    \/ /\ Does(t, "poll_exit", <<>>) /\ events.plugged /\ events.boot
       /\ OnlySleep(sleep_cancel_shutdown(sleep))
    \/ /\ Does(t, "poll_exit", <<"power_down">>) /\ ~(events.plugged /\ events.boot)
       /\ OnlySleep(sleep)

sysinfo_task_port_power_down(t) ==
    /\ power = "on" /\ At(t) = "power_down" /\ Runs(t)
    /\ \/ events.plugged /\ Reset
       \/ ~events.plugged /\ Booted("off", FALSE) /\ UNCHANGED inputs

\* The UXC gets its session and reports that its display is ready.
sysinfo_task_handle_coproc_boot(t) ==
    /\ Does(t, "boot_handled", <<>>)
    /\ events' = [events EXCEPT !.boot = FALSE] /\ uiq' = Append(uiq, "READY")
    /\ UNCHANGED <<auth, sleep, sysq, screen>>

Step(t) ==
    \/ SetAuthenticated(t) \/ RestartTimer(t) \/ StopTimer(t) \/ do_deauthenticate(t)
    \/ on_lock(t) \/ refresh_auth(t) \/ PowerTimer(t) \/ MatchFails(t) \/ Posts(t)
    \/ mark_device_locked(t) \/ ScreenChanges(t) \/ ShutdownCallback(t)
    \/ PreparePowerDown(t) \/ PollExit(t) \/ sysinfo_task_port_power_down(t)
    \/ sysinfo_task_handle_coproc_boot(t)

-----------------------------------------------------------------------------
(* Timers.  Both run for a minute or more, far longer than any program      *)
(* takes: a timer becomes due only when the tasks have come to rest.        *)

AtRest == /\ power = "on" /\ \A t \in Tasks : At(t) \in {"idle", "poll"}
          /\ uiq = <<>> /\ (sysq = <<>> \/ todo["sysinfo"] # <<>>)

TimePasses ==
    /\ AtRest /\ "fresh" \in {auth.timer, sleep.timer}
    /\ auth' = [auth EXCEPT !.timer = IF @ = "fresh" THEN "due" ELSE @]
    /\ sleep' = [sleep EXCEPT !.timer = IF @ = "fresh" THEN "due" ELSE @]
    /\ UNCHANGED <<todo, uiq, sysq, screen, events, power, inputs>>

\* One callback at a time, in the timer task; the timers are one-shot.
Expires ==
    /\ power = "on" /\ todo["timer"] = <<>>
    /\ \/ /\ auth.timer = "due" /\ auth' = [auth EXCEPT !.timer = "off"]
          /\ todo' = [todo EXCEPT !["timer"] = auth_timer_callback]
          /\ UNCHANGED sleep
       \/ /\ sleep.timer = "due" /\ sleep' = [sleep EXCEPT !.timer = "off"]
          /\ todo' = [todo EXCEPT !["timer"] = power_system_down_callback]
          /\ UNCHANGED auth
    /\ UNCHANGED <<uiq, sysq, screen, events, power, inputs>>

-----------------------------------------------------------------------------
(* Inputs *)

Input == inputs < MaxInputs /\ inputs' = inputs + 1

Begins(t, program) ==
    /\ Input /\ power = "on" /\ todo[t] = <<>>
    /\ todo' = [todo EXCEPT ![t] = program]
    /\ UNCHANGED <<auth, sleep, uiq, sysq, screen, events, power>>

\* A finger on the sensor: it completes an enrollment, which unlocks the device
\* without telling the UI of it, or fails to; else it matches or not.
auth_matching_thread ==
    \/ Begins("matching", <<"refresh_power", "set_enrolled", "restart", "power_stop">>)
    \/ Begins("matching", <<"refresh_power">>)
    \/ Begins("matching", <<"refresh_power", "post_success">> \o do_authenticate)
    \/ Begins("matching", <<"refresh_power">> \o handle_match_fail)

\* A command of the app, lock_device among them, which needs authentication.
ipc_proto_route ==
    \/ Begins("nfc", <<"refresh_power", "refresh_auth">>)
    \/ auth.on /\ Begins("nfc", <<"refresh_power", "refresh_auth", "post_lock_cmd">>)

handle_touch_event == Begins("usart", <<"touched", "refresh_power", "refresh_auth">>)

\* A choice in the menu: lock the device, or switch it off.
handle_display_action ==
    /\ Input /\ power = "on" /\ ~screen.locked /\ ~screen.off
    /\ \E e \in {"LOCK_DEVICE", "ACTION_POWER_OFF"} : uiq' = Append(uiq, e)
    /\ sleep' = sleep_refresh_power_timer(sleep)
    /\ UNCHANGED <<auth, todo, sysq, screen, events, power>>

charger_thread ==
    /\ Input /\ power = "on" /\ todo["charger"] = <<>>
    /\ events' = [events EXCEPT !.plugged = ~@]
    /\ todo' = [todo EXCEPT !["charger"] = <<"charger">>]
    /\ UNCHANGED <<auth, sleep, uiq, sysq, screen, power>>

UxcReboots ==
    /\ Input /\ power = "on" /\ Len(sysq) < QueueSize
    /\ events' = [events EXCEPT !.boot = TRUE] /\ sysq' = Append(sysq, "BOOT_STATUS")
    /\ UNCHANGED <<auth, sleep, todo, uiq, screen, power>>

Wakes == Input /\ power = "off" /\ \E plugged \in BOOLEAN : Booted("on", plugged)

-----------------------------------------------------------------------------
TaskStep == \/ \E t \in Tasks : Step(t)
            \/ display_controller_handle_ui_event \/ sysinfo_thread

Inputs == \/ auth_matching_thread \/ ipc_proto_route \/ handle_touch_event
          \/ handle_display_action \/ charger_thread \/ UxcReboots \/ Wakes

Next == TaskStep \/ TimePasses \/ Expires \/ Inputs

Spec == Init /\ [][Next]_vars

\* The scheduler runs what is ready, and time goes on.  Nothing is owed by the
\* user.
FairSpec == Spec /\ WF_vars(TaskStep) /\ WF_vars(TimePasses) /\ WF_vars(Expires)

-----------------------------------------------------------------------------
(* Properties *)

\* When the tasks have come to rest, something is left that will switch the
\* device off: the power timer, the expiry timer (which starts the power timer)
\* or a shutdown that has begun.  No interleaving of the tasks that lock,
\* unlock, refresh and shut down leaves both timers off, except where the timer
\* task had to wait for room in a queue between the three locks of an expiry and
\* a match went on meanwhile: its power timer stops after the last lock.
SomeTimerRuns ==
    AtRest /\ ~auth.overtaken =>
        auth.timer # "off" \/ sleep.timer # "off" \/ sleep.latched

\* What the lock screen shows is so: when the tasks have come to rest behind a
\* lock screen the device is locked, however matches, mismatches, commands, menu
\* choices and expiries interleave with the events of the UI; except after an
\* enrollment, of which the UI is not told.
LockScreenMeansLocked ==
    AtRest /\ screen.locked /\ ~screen.off /\ ~auth.enrolled => ~auth.on

\* From the beginning of a shutdown to the reset, or to its cancellation, no
\* touch, command, charger or lock arms the power timer.
LatchHolds == [][sleep.latched /\ sleep'.latched => sleep'.timer = "off"]_vars

\* A device that is left alone goes off, or waits to be unplugged, unless a match
\* has overtaken a lock that had to wait.
GoesOff == <>[](power = "off" \/ (events.plugged /\ sleep.latched) \/ auth.overtaken)
=============================================================================
