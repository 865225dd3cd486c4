-------------------------------- MODULE Led --------------------------------
(***************************************************************************)
(* The LEDs (main/led.c).  Three kinds of task change what they show with  *)
(* no lock between them: the one that delivers an event, the one that      *)
(* reports a fault, the web server's when the brightness is set.  The      *)
(* blinking is done by a FreeRTOS timer whose callback runs in the timer   *)
(* task, and every call on the timer is a command in that task's queue.    *)
(* The audio task feeds the level.  Brightness, colours and the arithmetic *)
(* of the level are abstracted to dark and lit.                            *)
(***************************************************************************)
EXTENDS Naturals, Sequences

CONSTANTS StatusMode, RgbMode,  \* Kconfig: the mode of each LED in each state
          HasErrorLed,
          MaxLedCalls           \* bounds the calls of the three setters

LedStates == {"STANDBY", "PAUSED", "PLAYING", "ERROR"}
Blinking == {"BLINK_SLOW", "BLINK_MEDIUM", "BLINK_FAST"}
LedModes == Blinking \cup {"OFF", "STEADY", "VU"}
Setters == {"event", "fault", "web"}
LedTasks == Setters \cup {"daemon", "audio"}

ASSUME LedAssumption ==
    /\ StatusMode \in [LedStates \ {"ERROR"} -> LedModes]
    /\ RgbMode \in [LedStates \ {"ERROR"} -> {"OFF", "STEADY", "VU"}]
    /\ HasErrorLed \in BOOLEAN /\ MaxLedCalls \in Nat

VARIABLES prevState, curState, \* s_prev_state, s_current_state
          mode, on, duty,      \* s_status_mode, s_status_on, the PWM output
          armed, timerQueue,     \* the timer, and the commands not yet carried out
          rgb, errorLit,
          call,                \* per task: where it is, and the state it renders
          raced,               \* two setters were under way at once (history)
          ledCalls

ledVars == <<prevState, curState, mode, on, duty, armed, timerQueue, rgb, errorLit,
             call, raced, ledCalls>>
statusVars == <<mode, on, duty>>
timerVars == <<armed, timerQueue>>
stateVars == <<prevState, curState>>
shownVars == <<rgb, errorLit>>

LedIdle == [at |-> "idle", state |-> "STANDBY"]
At(t, where) == call[t].at = where
Go(t, where) == call' = [call EXCEPT ![t] = IF where = "idle" THEN LedIdle
                                            ELSE [@ EXCEPT !.at = where]]
Rendered(state) == IF state # "ERROR" THEN StatusMode[state]
                   ELSE IF HasErrorLed THEN "OFF" ELSE "BLINK_FAST"

(* led_init, up to the render of STATE_STANDBY, which nothing else disturbs. *)
LedInit ==
    /\ prevState = "STANDBY" /\ curState = "STANDBY"
    /\ mode = "OFF" /\ on = FALSE /\ duty = "dark"
    /\ armed = FALSE /\ timerQueue = <<>>
    /\ rgb = [mode |-> "OFF", colour |-> "none"] /\ errorLit = FALSE
    /\ call = [t \in LedTasks |-> IF t = "event" THEN [at |-> "render", state |-> "STANDBY"]
                                  ELSE LedIdle]
    /\ raced = FALSE /\ ledCalls = 0

(* A setter is called: by then nothing of the change is made.              *)
Called(t, where, state) ==
    /\ At(t, "idle") /\ ledCalls < MaxLedCalls
    /\ ledCalls' = ledCalls + 1
    /\ call' = [call EXCEPT ![t] = [at |-> where, state |-> state]]
    /\ raced' = (raced \/ \E u \in Setters : ~At(u, "idle"))

(* on_rtsp_event: a sender connects or pauses, plays, is gone.             *)
on_rtsp_event ==
    /\ \E s \in LedStates \ {"ERROR"} : Called("event", "apply", s)
    /\ UNCHANGED <<stateVars, statusVars, timerVars, shownVars>>

(* led_set_error reads the state first and, to clear, the one before it.   *)
led_set_error(error) ==
    /\ \/ error /\ Called("fault", IF curState # "ERROR" THEN "apply" ELSE "render", "ERROR")
       \/ ~error /\ curState = "ERROR" /\ Called("fault", "apply", prevState)
    /\ UNCHANGED <<stateVars, statusVars, timerVars, shownVars>>

(* led_set_brightness: the new duty at once where the LED is lit, then the *)
(* current state is rendered again.                                        *)
led_set_brightness ==
    /\ Called("web", "render", curState)
    /\ duty' = IF mode = "STEADY" \/ (mode \in Blinking \cup {"VU"} /\ on) THEN "lit" ELSE duty
    /\ UNCHANGED <<stateVars, mode, on, timerVars, shownVars>>

(* apply_state: two stores, then render_state.                             *)
apply_state(t) ==
    \/ /\ At(t, "apply") /\ Go(t, "applied")
       /\ prevState' = curState
       /\ UNCHANGED <<curState, statusVars, timerVars, shownVars, raced, ledCalls>>
    \/ /\ At(t, "applied") /\ Go(t, "render")
       /\ curState' = call[t].state
       /\ UNCHANGED <<prevState, statusVars, timerVars, shownVars, raced, ledCalls>>

(* status_led_set_mode stores the mode, or returns if it is the same ...   *)
StoreMode(t) ==
    /\ At(t, "render")
    /\ mode' = Rendered(call[t].state)
    /\ Go(t, IF mode' = mode THEN "rest" ELSE "stop")
    /\ UNCHANGED <<stateVars, on, duty, timerVars, shownVars, raced, ledCalls>>

(* ... stops the timer if it runs ...                                      *)
StopTimer(t) ==
    /\ At(t, "stop") /\ Go(t, "switch")
    /\ timerQueue' = IF armed THEN Append(timerQueue, "stop") ELSE timerQueue
    /\ UNCHANGED <<stateVars, statusVars, armed, shownVars, raced, ledCalls>>

(* ... and shows the mode it was given; to blink, it starts the timer and  *)
(* then calls the callback itself.                                         *)
SwitchMode(t) ==
    /\ At(t, "switch")
    /\ LET want == Rendered(call[t].state) IN
       \/ /\ want \in Blinking
          /\ on' = FALSE /\ timerQueue' = Append(timerQueue, "start")
          /\ duty' = duty /\ Go(t, "toggle")
       \/ /\ want \notin Blinking
          /\ duty' = IF want = "STEADY" THEN "lit" ELSE "dark"
          /\ UNCHANGED <<on, timerQueue>> /\ Go(t, "rest")
    /\ UNCHANGED <<stateVars, mode, armed, shownVars, raced, ledCalls>>

(* A mutant: the callback's switch has no case for the medium blinking.    *)
CallbackMissesMedium(t) ==
    \/ /\ At(t, "toggle") /\ Go(t, "rearm")
       /\ on' = ~on /\ duty' = IF on' THEN "lit" ELSE "dark"
       /\ UNCHANGED <<stateVars, mode, timerVars, shownVars, raced, ledCalls>>
    \/ /\ At(t, "rearm") /\ Go(t, IF t = "daemon" THEN "idle" ELSE "rest")
       /\ timerQueue' = IF mode \in Blinking \ {"BLINK_MEDIUM"} THEN Append(timerQueue, "change")
                      ELSE timerQueue
       /\ UNCHANGED <<stateVars, statusVars, armed, shownVars, raced, ledCalls>>

(* status_timer_cb, in the timer task or in the setter: it toggles the LED *)
(* and then, by the mode of that moment, arms the timer again or does not. *)
status_timer_cb(t) ==
    \/ /\ At(t, "toggle") /\ Go(t, "rearm")
       /\ on' = ~on /\ duty' = IF on' THEN "lit" ELSE "dark"
       /\ UNCHANGED <<stateVars, mode, timerVars, shownVars, raced, ledCalls>>
    \/ /\ At(t, "rearm") /\ Go(t, IF t = "daemon" THEN "idle" ELSE "rest")
       /\ timerQueue' = IF mode \in Blinking THEN Append(timerQueue, "change") ELSE timerQueue
       /\ UNCHANGED <<stateVars, statusVars, armed, shownVars, raced, ledCalls>>

(* The rest of render_state: the RGB LED and the error LED.                *)
RenderRest(t) ==
    /\ At(t, "rest") /\ Go(t, "idle")
    /\ LET s == call[t].state IN
       /\ errorLit' = (HasErrorLed /\ s = "ERROR")
       /\ rgb' = IF s = "ERROR" THEN [rgb EXCEPT !.colour = s]
                 ELSE [mode |-> RgbMode[s],
                       colour |-> IF RgbMode[s] = "OFF" THEN "none"
                                  ELSE IF RgbMode[s] = "STEADY" /\ s # "PLAYING" THEN s
                                  ELSE rgb.colour]
    /\ UNCHANGED <<stateVars, statusVars, timerVars, raced, ledCalls>>

(* External: the timer task carries out a command (xTimerChangePeriod also *)
(* starts the timer), or the one-shot timer expires.                       *)
TimerCommand ==
    /\ At("daemon", "idle") /\ timerQueue # <<>>
    /\ armed' = (Head(timerQueue) # "stop") /\ timerQueue' = Tail(timerQueue)
    /\ UNCHANGED <<stateVars, statusVars, shownVars, call, raced, ledCalls>>

TimerExpires ==
    /\ At("daemon", "idle") /\ armed
    /\ armed' = FALSE /\ Go("daemon", "toggle")
    /\ UNCHANGED <<stateVars, statusVars, timerQueue, shownVars, raced, ledCalls>>

(* led_audio_feed: only while playing is a level computed; whether the LED *)
(* shows levels is looked at before each of them is set.                   *)
led_audio_feed ==
    /\ curState = "PLAYING" /\ At("audio", "idle") /\ Go("audio", "fed")
    /\ UNCHANGED <<stateVars, statusVars, timerVars, shownVars, raced, ledCalls>>

ShowLevel ==
    /\ \/ /\ At("audio", "fed") /\ Go("audio", IF mode = "VU" THEN "level" ELSE "rgb")
          /\ UNCHANGED <<duty, rgb>>
       \/ /\ At("audio", "level") /\ Go("audio", "rgb")
          /\ duty' \in {"dark", "lit"} /\ rgb' = rgb
       \/ /\ At("audio", "rgb") /\ Go("audio", "idle")
          /\ rgb' = IF rgb.mode = "VU" THEN [rgb EXCEPT !.colour = "level"] ELSE rgb
          /\ duty' = duty
    /\ UNCHANGED <<stateVars, mode, on, timerVars, errorLit, raced, ledCalls>>

LedNext ==
    \/ on_rtsp_event
    \/ \E error \in BOOLEAN : led_set_error(error)
    \/ led_set_brightness
    \/ \E t \in Setters : apply_state(t) \/ StoreMode(t) \/ StopTimer(t) \/ SwitchMode(t)
                          \/ RenderRest(t)
    \/ \E t \in LedTasks : status_timer_cb(t)
    \/ TimerCommand \/ TimerExpires \/ led_audio_feed \/ ShowLevel

LedTypeOK ==
    /\ {prevState, curState} \subseteq LedStates
    /\ mode \in LedModes /\ on \in BOOLEAN /\ duty \in {"dark", "lit"}
    /\ armed \in BOOLEAN /\ timerQueue \in Seq({"start", "stop", "change"})
    /\ rgb.mode \in LedModes /\ errorLit \in BOOLEAN /\ raced \in BOOLEAN
    /\ ledCalls \in 0..MaxLedCalls

(* The timer will be armed once the commands that wait are carried out.    *)
WillTick == IF timerQueue = <<>> THEN armed ELSE timerQueue[Len(timerQueue)] # "stop"

(* A LED that is to blink does: outside the calls that change it, a        *)
(* blinking mode has its one-shot timer armed, or about to be, or its      *)
(* callback is under way and will arm it (status_timer_cb, led.c).  This   *)
(* is so however the timer task and one setter interleave; two setters at  *)
(* once can leave a stop behind the other's start.                         *)
BlinkGoesOn ==
    (mode \in Blinking /\ ~raced /\ \A t \in Setters : At(t, "idle"))
        => WillTick \/ ~At("daemon", "idle")

(* Seen, not so: a LED that is off stays dark once the timer is quiet.     *)
OffIsDark ==
    (mode = "OFF" /\ ~raced /\ timerQueue = <<>> /\ ~armed /\ \A t \in LedTasks : At(t, "idle"))
        => duty = "dark"

(* Seen, not so: a fault that was reported shows until it is cleared.      *)
ErrorEnds ==
    (\A t \in LedTasks : At(t, "idle")) => (errorLit <=> curState = "ERROR")
=============================================================================
