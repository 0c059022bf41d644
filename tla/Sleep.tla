------------------------------- MODULE Sleep -------------------------------
(***************************************************************************)
(* lib/sleep: the power timer of Core.  Every operation runs under the     *)
(* lock of sleep_ctx and is a function of its state.  Durations are left   *)
(* out: a timer is off, fresh (armed a moment ago) or due (armed so long   *)
(* ago that it may expire at any time).                                    *)
(***************************************************************************)
Timers == {"off", "fresh", "due"}

SleepTypes == [running : BOOLEAN, latched : BOOLEAN, timer : Timers]

sleep_init == [running |-> FALSE, latched |-> FALSE, timer |-> "off"]

\* Mutant: the latch is not looked at.
StartUnlatched(s) == [s EXCEPT !.running = TRUE, !.timer = "fresh"]

\* Nothing arms the timer once the shutdown has begun.
sleep_start_power_timer(s) ==
    IF s.latched THEN s ELSE [s EXCEPT !.running = TRUE, !.timer = "fresh"]

\* The latch does not matter here.
sleep_stop_power_timer(s) == [s EXCEPT !.running = FALSE, !.timer = "off"]

sleep_refresh_power_timer(s) ==
    IF s.running /\ ~s.latched THEN [s EXCEPT !.timer = "fresh"] ELSE s

\* A new duration takes effect at once: the running timer starts again.
sleep_set_charger_extension(s) == sleep_refresh_power_timer(s)

\* The one-shot timer that expired has left running set; it is cleared here.
sleep_begin_shutdown(s) == [running |-> FALSE, latched |-> TRUE, timer |-> "off"]

\* The timer stays off until somebody starts it.
sleep_cancel_shutdown(s) == [s EXCEPT !.latched = FALSE]
=============================================================================
