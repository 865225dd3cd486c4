------------------------------ MODULE Speaker ------------------------------
(***************************************************************************)
(* The RL speaker's own buttons and what they switch: rl_buttons.c polls    *)
(* five pins and tells taps, double and triple taps, holds and combinations *)
(* apart; rl_app.c's on_button, run by the same task, changes amplifier,    *)
(* lights and DSP mode, sleeps or restarts; beside it rl_app_init is still  *)
(* booting, and the battery task mutes.  A unit of time is the time from    *)
(* one poll to the next.                                                    *)
(***************************************************************************)
EXTENDS Integers, FiniteSets

CONSTANTS Chords,            \* the sets of buttons that fingers can hold down
          LONG_PRESS_POLLS, COMBO_HOLD_POLLS, MULTI_PRESS_POLLS, VOL_REPEAT_POLLS

ASSUME SpeakerAssumption ==
  /\ {} \in Chords /\ Chords \subseteq SUBSET {"POWER", "PLAY", "VOL_UP", "VOL_DOWN", "MODE"}
  /\ {LONG_PRESS_POLLS, COMBO_HOLD_POLLS} \subseteq Nat
  /\ 0 < LONG_PRESS_POLLS /\ LONG_PRESS_POLLS < COMBO_HOLD_POLLS
  /\ {MULTI_PRESS_POLLS, VOL_REPEAT_POLLS} \subseteq 0 .. COMBO_HOLD_POLLS

VARIABLES
  fingers,                   \* the buttons held down
  turn, s_btns,              \* the button process_btn looks at next; the contexts
  busy,                      \* what on_button waits 500 ms to do
  boot,                      \* how far rl_app_init is
  s_on, amp_muted, s_dsp, s_mode,
  battery,                   \* what batt_task finds; "good" also without a battery
  powerHeld                  \* history: the time since a poll found POWER down, and
                             \* none since then found it up

appVars == << boot, s_on, amp_muted, s_dsp, s_mode, battery >>
speakerVars == << fingers, turn, s_btns, busy, appVars, powerHeld >>

Order == << "POWER", "PLAY", "VOL_UP", "VOL_DOWN", "MODE" >>
Keys == {Order[i] : i \in 1 .. 5}
Idle == [state |-> "IDLE", since |-> 0, tap_count |-> 0, held_fired |-> FALSE]

(* rl_app_init before its first wait. *)
Booted ==
  /\ turn' = 1 /\ s_btns' = [k \in Keys |-> Idle] /\ busy' = "no" /\ boot' = "waits"
  /\ s_on' = TRUE /\ amp_muted' = TRUE /\ s_dsp' = "INDOOR" /\ s_mode' = "BOOT"
  /\ powerHeld' = 0
SpeakerInit ==
  /\ fingers = {} /\ turn = 1 /\ s_btns = [k \in Keys |-> Idle] /\ busy = "no" /\ boot = "waits"
  /\ s_on = TRUE /\ amp_muted = TRUE /\ s_dsp = "INDOOR" /\ s_mode = "BOOT"
  /\ battery = "good" /\ powerHeld = 0

(* Nothing else moves within the microseconds of one round of polls. *)
Between == turn = 1 \/ busy # "no"
Fingers ==
  /\ Between /\ fingers' \in Chords \ {fingers}
  /\ UNCHANGED << turn, s_btns, busy, appVars, powerHeld >>

-----------------------------------------------------------------------------
(* process_btn: the event it fires, "none" when it fires none, and the       *)
(* context it leaves.  The three times of a context are one counter: each    *)
(* state looks at its own.                                                   *)
Partner(k) == CASE k = "VOL_UP" -> "VOL_DOWN" [] k = "POWER" -> "PLAY" [] k = "MODE" -> "VOL_DOWN"
                [] OTHER -> "nothing"
ComboEvent(k) == CASE k = "VOL_UP" -> "COMBO_RESET" [] k = "POWER" -> "COMBO_PAIRING"
                   [] k = "MODE" -> "COMBO_WIFI_SETUP"
LongEvent(k) == CASE k = "POWER" -> "POWER_LONG" [] k = "MODE" -> "MODE_LONG" [] k = "PLAY" -> "none"
                  [] k \in {"VOL_UP", "VOL_DOWN"} -> "VOL"
TapEvent(k, taps) == CASE k = "POWER" -> "POWER_SINGLE" [] k = "MODE" -> "MODE_SINGLE"
                       [] k = "PLAY" -> IF taps = 1 THEN "PLAY_SINGLE" ELSE
                                        IF taps = 2 THEN "PLAY_DOUBLE" ELSE "PLAY_TRIPLE"
Later(b, most) == [b EXCEPT !.since = IF @ < most THEN @ + 1 ELSE @]
Held(b) == [b EXCEPT !.state = "HELD", !.held_fired = TRUE, !.since = 0]
Outcome(event, b) == [event |-> event, context |-> b]

KeyPressed(k, c) ==
  LET b == Later(c, COMBO_HOLD_POLLS)
      volume == k \in {"VOL_UP", "VOL_DOWN"}
  IN  CASE k \notin fingers /\ volume -> Outcome("VOL", Idle)
        [] k \notin fingers /\ ~volume ->
             Outcome("none", [b EXCEPT !.state = "WAIT_MULTI", !.since = 0,
                                       !.tap_count = IF @ < 3 THEN @ + 1 ELSE @])
        [] k \in fingers /\ Partner(k) \in fingers ->
             IF b.since >= COMBO_HOLD_POLLS /\ ~b.held_fired
             THEN Outcome(ComboEvent(k), Held(b)) ELSE Outcome("none", b)
        [] OTHER ->
             IF b.since >= LONG_PRESS_POLLS /\ ~b.held_fired
             THEN Outcome(LongEvent(k), Held(b)) ELSE Outcome("none", b)
HeldDown(k, c) ==
  LET b == Later(c, VOL_REPEAT_POLLS)
  IN  CASE k \notin fingers -> Outcome("none", Idle)
        [] k \in fingers /\ k \in {"VOL_UP", "VOL_DOWN"} /\ b.since >= VOL_REPEAT_POLLS ->
             Outcome("VOL", [b EXCEPT !.since = 0])
        [] OTHER -> Outcome("none", b)
(* A mutant: the second press keeps the time of the first, a poll before. *)
WaitMultiKeepsTime(k, c) ==
  LET b == Later(c, COMBO_HOLD_POLLS)
  IN  CASE k \in fingers -> Outcome("none", [b EXCEPT !.state = "PRESSED", !.since = @ + 1])
        [] k \notin fingers /\ b.since >= MULTI_PRESS_POLLS -> Outcome(TapEvent(k, b.tap_count), Idle)
        [] OTHER -> Outcome("none", b)
WaitMulti(k, c) ==
  LET b == Later(c, MULTI_PRESS_POLLS)
  IN  CASE k \in fingers -> Outcome("none", [b EXCEPT !.state = "PRESSED", !.since = 0])
        [] k \notin fingers /\ b.since >= MULTI_PRESS_POLLS -> Outcome(TapEvent(k, b.tap_count), Idle)
        [] OTHER -> Outcome("none", b)
Processed(k) ==
  LET c == s_btns[k]
  IN  CASE c.state = "IDLE" ->
             Outcome("none", IF k \in fingers THEN [Idle EXCEPT !.state = "PRESSED"] ELSE c)
        [] c.state = "PRESSED" -> KeyPressed(k, c)
        [] c.state = "HELD" -> HeldDown(k, c)
        [] c.state = "WAIT_MULTI" -> WaitMulti(k, c)

-----------------------------------------------------------------------------
(* on_button, up to its wait when it sleeps or restarts. *)
apply_dsp(mode) == s_dsp' = mode /\ s_mode' = mode
on_button(event) ==
  /\ busy' = CASE event = "POWER_LONG" /\ s_on -> "sleep"
               [] event \in {"COMBO_RESET", "COMBO_WIFI_SETUP"} -> "restart"
               [] OTHER -> "no"
  /\ s_on' = (s_on /\ event # "POWER_LONG")
  /\ amp_muted' = (amp_muted \/ event = "POWER_LONG")
  /\ CASE event = "MODE_SINGLE" -> apply_dsp(IF s_dsp = "INDOOR" THEN "OUTDOOR" ELSE "INDOOR")
       [] event = "MODE_LONG" -> apply_dsp("ROOM_CORRECTION")
       [] event = "COMBO_PAIRING" -> s_mode' = "PAIRING" /\ UNCHANGED s_dsp
       [] event \in {"POWER_LONG", "COMBO_RESET", "COMBO_WIFI_SETUP"} ->
            s_mode' = "OFF" /\ UNCHANGED s_dsp
       [] OTHER -> UNCHANGED << s_dsp, s_mode >>

process_btn ==
  LET k == Order[turn]
  IN  /\ busy = "no" /\ turn' = (turn % 5) + 1
      /\ s_btns' = [s_btns EXCEPT ![k] = Processed(k).context]
      /\ on_button(Processed(k).event)
      /\ powerHeld' = IF k # "POWER" THEN powerHeld
                      ELSE IF k \notin fingers THEN 0
                      ELSE IF powerHeld <= LONG_PRESS_POLLS THEN powerHeld + 1 ELSE powerHeld
      /\ UNCHANGED << fingers, boot, battery >>

(* The next round of polls is late: a callback in the last one, or another *)
(* task, kept the task from it while the fingers went on.                   *)
PollIsLate ==
  /\ busy = "no" /\ turn = 1
  /\ s_btns' = [k \in Keys |-> IF s_btns[k].state = "IDLE" THEN s_btns[k]
                              ELSE Later(s_btns[k], COMBO_HOLD_POLLS)]
  /\ powerHeld' = IF powerHeld \in 1 .. LONG_PRESS_POLLS THEN powerHeld + 1 ELSE powerHeld
  /\ UNCHANGED << fingers, turn, busy, appVars >>

(* The end of the 500 ms: the chip starts anew, out of deep sleep when the  *)
(* POWER button is down.                                                    *)
Restart == busy = "restart" /\ Booted /\ UNCHANGED << fingers, battery >>
DeepSleep ==
  /\ busy = "sleep" /\ busy' = "asleep" /\ boot' = "asleep"
  /\ UNCHANGED << fingers, turn, s_btns, s_on, amp_muted, s_dsp, s_mode, battery, powerHeld >>
WakeUp == busy = "asleep" /\ "POWER" \in fingers /\ Booted /\ UNCHANGED << fingers, battery >>

-----------------------------------------------------------------------------
(* rl_app_init: 2 s (and the battery shown), 1 s, the mode, then 100 ms and the amplifier. *)
rl_app_init ==
  \/ /\ Between /\ boot = "waits" /\ boot' = "mode"
     /\ UNCHANGED << fingers, turn, s_btns, busy, s_on, amp_muted, s_dsp, s_mode, battery, powerHeld >>
  \/ /\ Between /\ boot = "mode" /\ boot' = "unmute" /\ apply_dsp("INDOOR")
     /\ UNCHANGED << fingers, turn, s_btns, busy, s_on, amp_muted, battery, powerHeld >>
  \/ /\ Between /\ boot = "unmute" /\ boot' = "done" /\ amp_muted' = FALSE
     /\ UNCHANGED << fingers, turn, s_btns, busy, s_on, s_dsp, s_mode, battery, powerHeld >>

read_battery ==
  /\ Between /\ busy # "asleep" /\ battery' \in {"good", "critical", "low"} \ {battery}
  /\ UNCHANGED << fingers, turn, s_btns, busy, boot, s_on, amp_muted, s_dsp, s_mode, powerHeld >>
batt_task ==
  /\ Between /\ boot \in {"unmute", "done"} /\ battery \in {"critical", "low"} /\ s_mode' = "LOW_BATTERY"
  /\ amp_muted' = (amp_muted \/ battery = "critical")
  /\ UNCHANGED << fingers, turn, s_btns, busy, boot, s_on, s_dsp, battery, powerHeld >>
SpeakerNext ==
  \/ Fingers \/ process_btn \/ PollIsLate \/ Restart \/ DeepSleep \/ WakeUp
  \/ rl_app_init \/ read_battery \/ batt_task

-----------------------------------------------------------------------------
SpeakerTypeOK ==
  /\ fingers \in Chords /\ turn \in 1 .. 5 /\ powerHeld \in 0 .. LONG_PRESS_POLLS + 1
  /\ s_btns \in [Keys -> [state : {"IDLE", "PRESSED", "HELD", "WAIT_MULTI"},
                          since : 0 .. COMBO_HOLD_POLLS, tap_count : 0 .. 3, held_fired : BOOLEAN]]
  /\ busy \in {"no", "sleep", "restart", "asleep"}
  /\ boot \in {"waits", "mode", "unmute", "done", "asleep"} /\ {s_on, amp_muted} \subseteq BOOLEAN
  /\ s_dsp \in {"INDOOR", "OUTDOOR", "ROOM_CORRECTION"}
  /\ s_mode \in {"BOOT", "OFF", "PAIRING", "LOW_BATTERY", "INDOOR", "OUTDOOR", "ROOM_CORRECTION"}
  /\ battery \in {"good", "critical", "low"}

(* rl_buttons.c, BTN_LONG_PRESS_MS: whatever taps, double taps and           *)
(* combinations came before, and whichever polls are late, the speaker       *)
(* switches itself off only when every poll in the long press's time found   *)
(* POWER down.                                                               *)
PowerOffIsDeliberate == busy = "sleep" => powerHeld > LONG_PRESS_POLLS

(* Not so: rl_app_init unmutes the amplifier of a speaker that is going to   *)
(* sleep, when POWER is held while it boots.                                 *)
SleepsMuted == busy \in {"sleep", "asleep"} => amp_muted
=============================================================================
