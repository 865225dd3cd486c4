------------------------------ MODULE Buttons ------------------------------
(***************************************************************************)
(* Hardware buttons (buttons.c): every edge restarts a debounce timer, the *)
(* callbacks run one at a time in the timer daemon, and their actions go   *)
(* through a bounded queue to a task that may block.  The play button      *)
(* tells a click from a double click and from a long press; the volume     *)
(* button repeats while it is held.                                        *)
(***************************************************************************)
EXTENDS Integers, Sequences, FiniteSets

CONSTANTS DEBOUNCE, DOUBLE_CLICK, REPEAT_DELAY, REPEAT_INTERVAL, LONG_PRESS,
          ACTION_QUEUE_LEN,
          MaxEdges           \* bound: edges of the two contacts

ASSUME ButtonsAssumption ==
  /\ {DEBOUNCE, DOUBLE_CLICK, REPEAT_DELAY, REPEAT_INTERVAL, LONG_PRESS} \subseteq Nat \ {0}
  /\ ACTION_QUEUE_LEN \in Nat \ {0} /\ MaxEdges \in Nat

VARIABLES
  down,                      \* the contacts: is the GPIO low
  pressed,                   \* debounced state
  click_count,               \* presses of play within the window
  timers,                    \* time left of each timer, Off when it is stopped
  actions,                   \* s_action_queue
  asleep,                    \* the board was powered off
  edges

buttonVars == << down, pressed, click_count, timers, actions, asleep, edges >>

Ids == {"play", "up"}
Off == -1
Timers == {"debounce-play", "debounce-up", "click", "long", "repeat"}
Debounce(b) == IF b = "play" THEN "debounce-play" ELSE "debounce-up"
Periods == [t \in Timers |-> CASE t = "click"  -> DOUBLE_CLICK
                               [] t = "long"   -> LONG_PRESS
                               [] t = "repeat" -> REPEAT_DELAY
                               [] OTHER        -> DEBOUNCE]

(* buttons_init, configure_button. *)
ButtonsInit ==
  /\ down = [b \in Ids |-> FALSE] /\ pressed = [b \in Ids |-> FALSE]
  /\ click_count = 0 /\ timers = [t \in Timers |-> Off]
  /\ actions = << >> /\ asleep = FALSE /\ edges = 0

-----------------------------------------------------------------------------
(* gpio_isr_handler: an edge, of a finger or of a bouncing contact. *)
Edge(b) ==
  /\ ~asleep /\ edges < MaxEdges /\ edges' = edges + 1
  /\ down' = [down EXCEPT ![b] = ~@]
  /\ timers' = [timers EXCEPT ![Debounce(b)] = DEBOUNCE]
  /\ UNCHANGED << pressed, click_count, actions, asleep >>

post_button_action(a) ==
  actions' = IF Len(actions) < ACTION_QUEUE_LEN THEN Append(actions, a) ELSE actions

(* The daemon's callbacks.  A one-shot timer is stopped when its own runs. *)
Expired(t) == ~asleep /\ timers[t] = 0
Stopped(set) == [t \in Timers |-> IF t \in set THEN Off ELSE timers[t]]

(* debounce_timer_cb, by what the settled level says. *)
Press(b) ==
  /\ Expired(Debounce(b)) /\ down[b] /\ ~pressed[b]
  /\ pressed' = [pressed EXCEPT ![b] = TRUE]
  /\ IF b = "play"
     THEN /\ click_count' = click_count + 1
          /\ timers' = [Stopped({Debounce(b)}) EXCEPT !["click"] = DOUBLE_CLICK, !["long"] = LONG_PRESS]
          /\ UNCHANGED actions
     ELSE /\ post_button_action(b)
          /\ timers' = [Stopped({Debounce(b)}) EXCEPT !["repeat"] = REPEAT_DELAY]
          /\ UNCHANGED click_count
  /\ UNCHANGED << down, asleep, edges >>

(* A window that expired while the button was held left its click for now. *)
Release(b) ==
  /\ Expired(Debounce(b)) /\ ~down[b] /\ pressed[b]
  /\ pressed' = [pressed EXCEPT ![b] = FALSE]
  /\ timers' = Stopped({Debounce(b), IF b = "play" THEN "long" ELSE "repeat"})
  /\ IF b = "play" /\ click_count = 1 /\ timers["click"] = Off
     THEN click_count' = 0 /\ post_button_action("play")
     ELSE UNCHANGED << click_count, actions >>
  /\ UNCHANGED << down, asleep, edges >>

NoChange(b) ==
  /\ Expired(Debounce(b)) /\ down[b] = pressed[b]
  /\ timers' = Stopped({Debounce(b)})
  /\ UNCHANGED << down, pressed, click_count, actions, asleep, edges >>

repeat_timer_cb ==
  /\ Expired("repeat")
  /\ IF pressed["up"]
     THEN post_button_action("up") /\ timers' = [timers EXCEPT !["repeat"] = REPEAT_INTERVAL]
     ELSE timers' = Stopped({"repeat"}) /\ UNCHANGED actions
  /\ UNCHANGED << down, pressed, click_count, asleep, edges >>

click_timer_cb ==
  /\ Expired("click") /\ timers' = Stopped({"click"})
  /\ CASE click_count >= 2 -> click_count' = 0 /\ post_button_action("channel")
       [] click_count = 1 /\ ~pressed["play"] -> click_count' = 0 /\ post_button_action("play")
       [] OTHER -> UNCHANGED << click_count, actions >>
  /\ UNCHANGED << down, pressed, asleep, edges >>

(* The pending click is cancelled and board_power_off does not return. *)
long_press_timer_cb ==
  /\ Expired("long") /\ timers' = Stopped({"long", "click"})
  /\ click_count' = 0 /\ asleep' = TRUE
  /\ UNCHANGED << down, pressed, actions, edges >>

Daemon ==
  \/ \E b \in Ids : Press(b) \/ Release(b) \/ NoChange(b)
  \/ repeat_timer_cb \/ click_timer_cb \/ long_press_timer_cb

(* Time: the daemon serves what expired first. *)
ButtonTick ==
  /\ ~asleep /\ \A t \in Timers : timers[t] # 0
  /\ \E t \in Timers : timers[t] > 0
  /\ timers' = [t \in Timers |-> IF timers[t] = Off THEN Off ELSE timers[t] - 1]
  /\ UNCHANGED << down, pressed, click_count, actions, asleep, edges >>

(* button_action_task takes one action. *)
TakeAction ==
  /\ ~asleep /\ actions # << >> /\ actions' = Tail(actions)
  /\ UNCHANGED << down, pressed, click_count, timers, asleep, edges >>

ButtonsNext == (\E b \in Ids : Edge(b)) \/ Daemon \/ ButtonTick \/ TakeAction

-----------------------------------------------------------------------------
ButtonsTypeOK ==
  /\ down \in [Ids -> BOOLEAN] /\ pressed \in [Ids -> BOOLEAN]
  /\ click_count \in 0 .. MaxEdges
  /\ \A t \in Timers : timers[t] \in Off .. (Periods[t] + REPEAT_INTERVAL)
  /\ actions \in Seq(Ids \cup {"channel"}) /\ Len(actions) <= ACTION_QUEUE_LEN
  /\ asleep \in BOOLEAN /\ edges \in 0 .. MaxEdges

(* No press of play is forgotten, whichever of the window, the release and  *)
(* the bounces comes first: with the button up and no window open, none is  *)
(* still counted; and the volume repeats only while its button is held.     *)
NoClickLost ==
  ~asleep => /\ ~pressed["play"] /\ timers["click"] = Off => click_count = 0
             /\ timers["repeat"] # Off => pressed["up"]
=============================================================================
