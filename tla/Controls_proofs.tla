-------------------------- MODULE Controls_proofs --------------------------
(***************************************************************************)
(* What the listener touches and sees keeps its promises: the buttons of   *)
(* buttons.c, the RL speaker's, playback control with DACP and AVRCP, the  *)
(* LEDs and the display, each by an invariant of its own.  The parts share *)
(* no variable, so a step of one leaves the invariants of the others; the  *)
(* invariant of a part is kept by each of its actions.                     *)
(***************************************************************************)
EXTENDS MCControls, TLAPS, SequenceTheorems

-----------------------------------------------------------------------------
(* The window closes on a second press, and no press is counted without an  *)
(* edge of the contact; one that is down and not yet believed is to come.   *)
ToCome == IF down["play"] /\ ~pressed["play"] THEN 1 ELSE 0
PressesAreEdges == click_count + ToCome <= edges
ButtonsIInv ==
  /\ ButtonsTypeOK /\ timers \in [Timers -> Int]
  /\ NoClickLost
  /\ PressesAreEdges
  /\ timers["click"] = Off => click_count <= 1

LEMMA Delays ==
  /\ DEBOUNCE \in Nat \ {0} /\ DOUBLE_CLICK \in Nat \ {0} /\ REPEAT_DELAY \in Nat \ {0}
  /\ REPEAT_INTERVAL \in Nat \ {0} /\ LONG_PRESS \in Nat \ {0} /\ ACTION_QUEUE_LEN \in Nat \ {0}
  /\ MaxEdges \in Nat
BY ButtonsAssumption

LEMMA PeriodsAre ==
  /\ Periods["click"] = DOUBLE_CLICK /\ Periods["long"] = LONG_PRESS
  /\ Periods["repeat"] = REPEAT_DELAY
  /\ \A t \in {"debounce-play", "debounce-up"} : Periods[t] = DEBOUNCE
  /\ \A t \in Timers : Periods[t] \in Nat
BY Delays DEF Periods, Timers

(* What the times of the timers may be. *)
Times(t) == Off .. (Periods[t] + REPEAT_INTERVAL)
LEMMA TimesHave ==
  /\ \A t \in Timers : Off \in Times(t)
  /\ \A t \in Timers : \A n \in Times(t) : n \in Int /\ (n # Off /\ n # 0 => n - 1 \in Times(t) /\ n - 1 # Off)
  /\ DEBOUNCE \in Times("debounce-play") /\ DEBOUNCE \in Times("debounce-up")
  /\ DOUBLE_CLICK \in Times("click") /\ LONG_PRESS \in Times("long")
  /\ REPEAT_DELAY \in Times("repeat") /\ REPEAT_INTERVAL \in Times("repeat")
  /\ DOUBLE_CLICK # Off
<1>1. \A t \in Timers : Times(t) = -1 .. (Periods[t] + REPEAT_INTERVAL)
  BY DEF Times, Off
<1>2. \A t \in Timers : Off \in Times(t)
  BY <1>1, PeriodsAre, Delays DEF Off
<1>3. \A t \in Timers : \A n \in Times(t) :
         n \in Int /\ (n # Off /\ n # 0 => n - 1 \in Times(t) /\ n - 1 # Off)
  BY <1>1, PeriodsAre, Delays DEF Off
<1>4. /\ Times("debounce-play") = -1 .. (DEBOUNCE + REPEAT_INTERVAL)
      /\ Times("debounce-up") = -1 .. (DEBOUNCE + REPEAT_INTERVAL)
      /\ Times("click") = -1 .. (DOUBLE_CLICK + REPEAT_INTERVAL)
      /\ Times("long") = -1 .. (LONG_PRESS + REPEAT_INTERVAL)
      /\ Times("repeat") = -1 .. (REPEAT_DELAY + REPEAT_INTERVAL)
  BY PeriodsAre DEF Times, Off
<1>5. /\ DEBOUNCE \in -1 .. (DEBOUNCE + REPEAT_INTERVAL)
      /\ DOUBLE_CLICK \in -1 .. (DOUBLE_CLICK + REPEAT_INTERVAL)
      /\ LONG_PRESS \in -1 .. (LONG_PRESS + REPEAT_INTERVAL)
      /\ REPEAT_DELAY \in -1 .. (REPEAT_DELAY + REPEAT_INTERVAL)
      /\ REPEAT_INTERVAL \in -1 .. (REPEAT_DELAY + REPEAT_INTERVAL)
      /\ DOUBLE_CLICK # Off
  BY Delays DEF Off
<1> QED
  BY <1>2, <1>3, <1>4, <1>5

LEMMA ActionPosted ==
  ASSUME actions \in Seq(Ids \cup {"channel"}), Len(actions) <= ACTION_QUEUE_LEN,
         NEW a \in Ids \cup {"channel"}, post_button_action(a)
  PROVE  actions' \in Seq(Ids \cup {"channel"}) /\ Len(actions') <= ACTION_QUEUE_LEN
<1>1. /\ Append(actions, a) \in Seq(Ids \cup {"channel"}) /\ Len(Append(actions, a)) = Len(actions) + 1
      /\ Len(actions) \in Nat
  OBVIOUS
<1> QED
  BY <1>1, Delays DEF post_button_action

LEMMA OneEdge ==
  ASSUME NEW c \in Nat, NEW e \in Nat, NEW t \in {0, 1}, NEW u \in {0, 1}, c + t <= e
  PROVE  c <= e /\ c + u <= e + 1
OBVIOUS

LEMMA ButtonsStep ==
  ASSUME ButtonsIInv, ButtonsNext
  PROVE  ButtonsIInv'
<1> DEFINE TimersOK == timers \in [Timers -> Int] /\ \A t \in Timers : timers[t] \in Times(t)
           RestOK == /\ down \in [Ids -> BOOLEAN] /\ pressed \in [Ids -> BOOLEAN]
                     /\ actions \in Seq(Ids \cup {"channel"}) /\ Len(actions) <= ACTION_QUEUE_LEN
                     /\ asleep \in BOOLEAN
           CountOK == /\ click_count \in Nat /\ edges \in 0 .. MaxEdges
                      /\ PressesAreEdges
                      /\ timers["click"] = Off => click_count <= 1
<1>i. TimersOK /\ RestOK /\ CountOK /\ NoClickLost
  BY Delays DEF ButtonsIInv, ButtonsTypeOK, Times
<1>j. TimersOK' /\ RestOK' /\ CountOK' /\ NoClickLost' => ButtonsIInv'
  <2>1. CountOK' => click_count' \in 0 .. MaxEdges
    <3>1. ToCome' \in {0, 1}
      BY DEF ToCome
    <3>2. SUFFICES ASSUME CountOK'
                   PROVE  click_count' \in 0 .. MaxEdges
      OBVIOUS
    <3>3. click_count' \in Nat /\ edges' \in 0 .. MaxEdges /\ click_count' + ToCome' <= edges'
      BY <3>2 DEF PressesAreEdges
    <3>4. edges' \in Nat /\ edges' <= MaxEdges
      BY <3>3, Delays
    <3>5. click_count' <= edges'
      BY <3>1, <3>3, <3>4, OneEdge
    <3> QED
      BY <3>3, <3>4, <3>5, Delays
  <2> QED
    BY <2>1 DEF ButtonsIInv, ButtonsTypeOK, Times
<1>s. \A set : TimersOK /\ timers' = Stopped(set) => TimersOK'
  BY TimesHave DEF Stopped, Off
<1> HIDE DEF TimersOK
<1>t. ASSUME NEW t \in Timers, NEW n \in Times(t), timers' = [timers EXCEPT ![t] = n]
      PROVE  TimersOK' /\ timers'[t] = n /\ \A u \in Timers \ {t} : timers'[u] = timers[u]
  BY <1>i, <1>t, TimesHave DEF TimersOK
<1>u. ASSUME NEW set, timers' = Stopped(set)
      PROVE  TimersOK' /\ \A u \in Timers : timers'[u] = IF u \in set THEN Off ELSE timers[u]
  BY <1>i, <1>s, <1>u DEF Stopped
<1>v. "click" \in Timers /\ "repeat" \in Timers /\ "long" \in Timers
      /\ "debounce-play" \in Timers /\ "debounce-up" \in Timers
      /\ \A b \in Ids : Debounce(b) \in {"debounce-play", "debounce-up"}
  BY DEF Timers, Debounce
<1>w. Ids = {"play", "up"}
  BY DEF Ids
<1>1. ASSUME NEW b \in Ids, Edge(b)
      PROVE  ButtonsIInv'
  <2>1. TimersOK' /\ timers'["click"] = timers["click"] /\ timers'["repeat"] = timers["repeat"]
    BY <1>1, <1>t, <1>v, TimesHave DEF Edge
  <2>2. RestOK'
    BY <1>1, <1>i DEF Edge
  <2>3. CountOK'
    <3>1. ToCome \in {0, 1} /\ ToCome' \in {0, 1}
      BY DEF ToCome
    <3>2. click_count' = click_count /\ edges' = edges + 1 /\ edges' \in 0 .. MaxEdges
      BY <1>1, <1>i, Delays DEF Edge
    <3>3. click_count \in Nat /\ edges \in Nat /\ click_count + ToCome <= edges
      BY <1>i DEF PressesAreEdges
    <3>4. click_count' + ToCome' <= edges'
      BY <3>1, <3>2, <3>3, OneEdge
    <3> QED
      BY <1>i, <2>1, <3>2, <3>4 DEF PressesAreEdges
  <2>4. NoClickLost'
    BY <1>1, <1>i, <2>1 DEF Edge, NoClickLost
  <2> QED
    BY <1>j, <2>1, <2>2, <2>3, <2>4
<1>2. ASSUME NEW b \in Ids, Press(b)
      PROVE  ButtonsIInv'
  <2> DEFINE s == Stopped({Debounce(b)})
  <2>0. ~asleep /\ down[b] /\ ~pressed[b] /\ pressed' = [pressed EXCEPT ![b] = TRUE]
        /\ UNCHANGED << down, asleep, edges >>
    BY <1>2 DEF Press, Expired
  <2>s. s \in [Timers -> Int] /\ (\A t \in Timers : s[t] \in Times(t))
        /\ s["click"] = timers["click"] /\ s["repeat"] = timers["repeat"]
    BY <1>i, <1>v, TimesHave DEF Stopped, TimersOK, Off
  <2> HIDE DEF s
  <2>1. CASE b = "play"
    <3>1. /\ click_count' = click_count + 1 /\ actions' = actions
          /\ timers' = [s EXCEPT !["click"] = DOUBLE_CLICK, !["long"] = LONG_PRESS]
      BY <1>2, <2>1 DEF Press, s
    <3>2. TimersOK' /\ timers'["click"] = DOUBLE_CLICK /\ timers'["repeat"] = timers["repeat"]
      BY <2>s, <3>1, <1>v, TimesHave DEF TimersOK
    <3>3. RestOK'
      BY <1>i, <2>0, <3>1
    <3>4. CountOK'
      BY <1>i, <1>w, <2>0, <2>1, <3>1, <3>2, TimesHave DEF PressesAreEdges, ToCome
    <3>5. NoClickLost'
      BY <1>i, <1>w, <2>0, <2>1, <3>1, <3>2, TimesHave DEF NoClickLost
    <3> QED
      BY <1>j, <3>2, <3>3, <3>4, <3>5
  <2>2. CASE b = "up"
    <3>1. /\ click_count' = click_count /\ post_button_action(b)
          /\ timers' = [s EXCEPT !["repeat"] = REPEAT_DELAY]
      BY <1>2, <2>2 DEF Press, s
    <3>2. TimersOK' /\ timers'["click"] = timers["click"]
      BY <2>s, <3>1, <1>v, TimesHave DEF TimersOK
    <3>3. RestOK'
      BY <1>i, <2>0, <3>1, ActionPosted
    <3>4. CountOK'
      BY <1>i, <1>w, <2>0, <2>2, <3>1, <3>2 DEF PressesAreEdges, ToCome
    <3>5. NoClickLost'
      BY <1>i, <1>w, <2>0, <2>2, <3>1, <3>2 DEF NoClickLost
    <3> QED
      BY <1>j, <3>2, <3>3, <3>4, <3>5
  <2> QED
    BY <2>1, <2>2, <1>w
<1>3. ASSUME NEW b \in Ids, Release(b)
      PROVE  ButtonsIInv'
  <2>0. ~asleep /\ ~down[b] /\ pressed[b] /\ pressed' = [pressed EXCEPT ![b] = FALSE]
        /\ UNCHANGED << down, asleep, edges >>
        /\ timers' = Stopped({Debounce(b), IF b = "play" THEN "long" ELSE "repeat"})
    BY <1>3 DEF Release, Expired
  <2>1. TimersOK' /\ timers'["click"] = timers["click"]
        /\ timers'["repeat"] = IF b = "play" THEN timers["repeat"] ELSE Off
    BY <2>0, <1>u, <1>v
  <2>2. \/ /\ b = "play" /\ click_count = 1 /\ timers["click"] = Off
           /\ click_count' = 0 /\ post_button_action("play")
        \/ /\ ~(b = "play" /\ click_count = 1 /\ timers["click"] = Off)
           /\ click_count' = click_count /\ actions' = actions
    BY <1>3 DEF Release
  <2>3. RestOK'
    BY <1>i, <1>w, <2>0, <2>2, ActionPosted
  <2>4. CountOK'
    BY <1>i, <1>w, <2>0, <2>1, <2>2 DEF PressesAreEdges, ToCome
  <2>5. NoClickLost'
    BY <1>i, <1>w, <2>0, <2>1, <2>2 DEF NoClickLost
  <2> QED
    BY <1>j, <2>1, <2>3, <2>4, <2>5
<1>4. ASSUME NEW b \in Ids, NoChange(b)
      PROVE  ButtonsIInv'
  <2>0. timers' = Stopped({Debounce(b)})
        /\ UNCHANGED << down, pressed, click_count, actions, asleep, edges >>
    BY <1>4 DEF NoChange
  <2>1. TimersOK' /\ timers'["click"] = timers["click"] /\ timers'["repeat"] = timers["repeat"]
    BY <2>0, <1>u, <1>v
  <2> QED
    BY <1>i, <1>j, <2>0, <2>1 DEF PressesAreEdges, ToCome, NoClickLost
<1>5. CASE repeat_timer_cb
  <2>0. UNCHANGED << down, pressed, click_count, asleep, edges >>
    BY <1>5 DEF repeat_timer_cb
  <2>1. /\ TimersOK' /\ timers'["click"] = timers["click"]
        /\ timers'["repeat"] # Off => pressed["up"]
        /\ actions' = actions \/ post_button_action("up")
    <3>1. CASE pressed["up"]
      BY <1>5, <3>1, <1>t, <1>v, TimesHave DEF repeat_timer_cb
    <3>2. CASE ~pressed["up"]
      BY <1>5, <3>2, <1>u, <1>v DEF repeat_timer_cb
    <3> QED
      BY <3>1, <3>2
  <2>2. RestOK'
    BY <1>i, <1>w, <2>0, <2>1, ActionPosted
  <2> QED
    BY <1>i, <1>j, <2>0, <2>1, <2>2 DEF PressesAreEdges, ToCome, NoClickLost
<1>6. CASE click_timer_cb
  <2>0. UNCHANGED << down, pressed, asleep, edges >> /\ timers' = Stopped({"click"})
    BY <1>6 DEF click_timer_cb
  <2>1. TimersOK' /\ timers'["click"] = Off /\ timers'["repeat"] = timers["repeat"]
    BY <2>0, <1>u, <1>v
  <2>2. \/ click_count' = 0 /\ (post_button_action("channel") \/ post_button_action("play"))
        \/ /\ ~(click_count >= 2) /\ ~(click_count = 1 /\ ~pressed["play"])
           /\ click_count' = click_count /\ actions' = actions
    BY <1>6 DEF click_timer_cb
  <2>3. RestOK'
    BY <1>i, <1>w, <2>0, <2>2, ActionPosted
  <2>4. CountOK'
    BY <1>i, <2>0, <2>1, <2>2 DEF PressesAreEdges, ToCome
  <2>5. NoClickLost'
    BY <1>i, <2>0, <2>1, <2>2 DEF NoClickLost
  <2> QED
    BY <1>j, <2>1, <2>3, <2>4, <2>5
<1>7. CASE long_press_timer_cb
  <2>0. timers' = Stopped({"long", "click"}) /\ click_count' = 0 /\ asleep' = TRUE
        /\ UNCHANGED << down, pressed, actions, edges >>
    BY <1>7 DEF long_press_timer_cb
  <2>1. TimersOK'
    BY <2>0, <1>u
  <2> QED
    BY <1>i, <1>j, <2>0, <2>1 DEF PressesAreEdges, ToCome, NoClickLost
<1>8. CASE ButtonTick
  <2>0. /\ \A t \in Timers : timers[t] # 0
        /\ timers' = [t \in Timers |-> IF timers[t] = Off THEN Off ELSE timers[t] - 1]
        /\ UNCHANGED << down, pressed, click_count, actions, asleep, edges >>
    BY <1>8 DEF ButtonTick
  <2>1. TimersOK' /\ \A t \in Timers : timers'[t] = Off <=> timers[t] = Off
    BY <1>i, <2>0, TimesHave DEF TimersOK, Off
  <2> QED
    BY <1>i, <1>j, <1>v, <2>0, <2>1 DEF PressesAreEdges, ToCome, NoClickLost
<1>9. CASE TakeAction
  <2>0. actions # << >> /\ actions' = Tail(actions)
        /\ UNCHANGED << down, pressed, click_count, timers, asleep, edges >>
    BY <1>9 DEF TakeAction
  <2>1. Tail(actions) \in Seq(Ids \cup {"channel"}) /\ Len(Tail(actions)) = Len(actions) - 1
        /\ Len(actions) \in Nat
    BY <1>i, <2>0
  <2> QED
    BY <1>i, <1>j, <2>0, <2>1, Delays DEF TimersOK, PressesAreEdges, ToCome, NoClickLost
<1> QED
  BY <1>1, <1>2, <1>3, <1>4, <1>5, <1>6, <1>7, <1>8, <1>9 DEF ButtonsNext, Daemon

-----------------------------------------------------------------------------
(* A POWER that counts towards a long press has been found down for longer  *)
(* than it has counted; a volume button never waits for a second tap.       *)
Contexts == [state : {"IDLE", "PRESSED", "HELD", "WAIT_MULTI"},
             since : 0 .. COMBO_HOLD_POLLS, tap_count : 0 .. 3, held_fired : BOOLEAN]
HeldLong ==
  s_btns["POWER"].state = "PRESSED" =>
    powerHeld > s_btns["POWER"].since \/ powerHeld > LONG_PRESS_POLLS
NoVolumeTaps == \A k \in {"VOL_UP", "VOL_DOWN"} : s_btns[k].state # "WAIT_MULTI"
SpeakerIInv == SpeakerTypeOK /\ HeldLong /\ NoVolumeTaps /\ PowerOffIsDeliberate

LEMMA Polls ==
  /\ LONG_PRESS_POLLS \in Nat /\ COMBO_HOLD_POLLS \in Nat
  /\ 0 < LONG_PRESS_POLLS /\ LONG_PRESS_POLLS < COMBO_HOLD_POLLS
  /\ MULTI_PRESS_POLLS \in 0 .. COMBO_HOLD_POLLS /\ VOL_REPEAT_POLLS \in 0 .. COMBO_HOLD_POLLS
BY SpeakerAssumption

LEMMA ContextFields ==
  ASSUME NEW b \in Contexts
  PROVE  /\ b.state \in {"IDLE", "PRESSED", "HELD", "WAIT_MULTI"}
         /\ b.since \in 0 .. COMBO_HOLD_POLLS /\ b.tap_count \in 0 .. 3
BY DEF Contexts

LEMMA StateSet ==
  ASSUME NEW b \in Contexts, NEW s \in {"IDLE", "PRESSED", "HELD", "WAIT_MULTI"}
  PROVE  [b EXCEPT !.state = s] \in Contexts /\ [b EXCEPT !.state = s].state = s
         /\ [b EXCEPT !.state = s].since = b.since
BY DEF Contexts

LEMMA SinceSet ==
  ASSUME NEW b \in Contexts, NEW n \in 0 .. COMBO_HOLD_POLLS
  PROVE  [b EXCEPT !.since = n] \in Contexts /\ [b EXCEPT !.since = n].since = n
         /\ [b EXCEPT !.since = n].state = b.state
BY DEF Contexts

LEMMA TapsSet ==
  ASSUME NEW b \in Contexts, NEW n \in 0 .. 3
  PROVE  [b EXCEPT !.tap_count = n] \in Contexts /\ [b EXCEPT !.tap_count = n].state = b.state
BY DEF Contexts

LEMMA FiredSet ==
  ASSUME NEW b \in Contexts
  PROVE  [b EXCEPT !.held_fired = TRUE] \in Contexts
         /\ [b EXCEPT !.held_fired = TRUE].state = b.state
BY DEF Contexts

LEMMA NoPolls == 0 \in 0 .. COMBO_HOLD_POLLS
BY Polls

LEMMA IdleContext ==
  Idle \in Contexts /\ Idle.state = "IDLE" /\ [Idle EXCEPT !.state = "PRESSED"] \in Contexts
  /\ [Idle EXCEPT !.state = "PRESSED"].since = 0
<1>1. 0 \in 0 .. COMBO_HOLD_POLLS /\ 0 \in 0 .. 3
  BY Polls
<1>2. Idle \in Contexts /\ Idle.state = "IDLE" /\ Idle.since = 0
  BY <1>1 DEF Idle, Contexts
<1> QED
  BY <1>2, StateSet

LEMMA LaterContext ==
  ASSUME NEW c \in Contexts, NEW most \in 0 .. COMBO_HOLD_POLLS
  PROVE  /\ Later(c, most) \in Contexts
         /\ Later(c, most).state = c.state
         /\ Later(c, most).since \in {c.since, c.since + 1}
<1>1. c.since \in 0 .. COMBO_HOLD_POLLS
  BY DEF Contexts
<1>2. (IF c.since < most THEN c.since + 1 ELSE c.since) \in 0 .. COMBO_HOLD_POLLS
  BY <1>1, Polls
<1> QED
  BY <1>1, <1>2 DEF Later, Contexts

(* What process_btn makes of one button, by the state of its context. *)
Sound(k, c, o) ==
  /\ o.context \in Contexts
  /\ k \in {"VOL_UP", "VOL_DOWN"} => o.context.state # "WAIT_MULTI"
  /\ o.context.state = "PRESSED" =>
       k \in fingers /\ (o.context.since = 0 \/ (c.state = "PRESSED" /\ o.context.since <= c.since + 1))
  /\ o.event = "POWER_LONG" =>
       k = "POWER" /\ k \in fingers /\ c.state = "PRESSED" /\ c.since + 1 >= LONG_PRESS_POLLS

LEMMA KeysAre == Keys = {"POWER", "PLAY", "VOL_UP", "VOL_DOWN", "MODE"}
<1>1. \A i \in 1 .. 5 : i = 1 \/ i = 2 \/ i = 3 \/ i = 4 \/ i = 5
  OBVIOUS
<1>2. /\ Order[1] = "POWER" /\ Order[2] = "PLAY" /\ Order[3] = "VOL_UP"
      /\ Order[4] = "VOL_DOWN" /\ Order[5] = "MODE"
  BY DEF Order
<1>3. \A k \in Keys : k \in {"POWER", "PLAY", "VOL_UP", "VOL_DOWN", "MODE"}
  BY <1>1, <1>2 DEF Keys
<1>4. 1 \in 1 .. 5 /\ 2 \in 1 .. 5 /\ 3 \in 1 .. 5 /\ 4 \in 1 .. 5 /\ 5 \in 1 .. 5
  OBVIOUS
<1>5. \A k \in {"POWER", "PLAY", "VOL_UP", "VOL_DOWN", "MODE"} : k \in Keys
  BY <1>2, <1>4 DEF Keys
<1> QED
  BY <1>3, <1>5

LEMMA PressedIsSound ==
  ASSUME NEW k \in Keys, NEW c \in Contexts, c.state = "PRESSED", fingers \in Chords
  PROVE  Sound(k, c, KeyPressed(k, c))
<1> DEFINE b == Later(c, COMBO_HOLD_POLLS)
<1>1. b \in Contexts /\ b.state = "PRESSED" /\ b.since \in {c.since, c.since + 1}
      /\ c.since \in Nat /\ b.since \in Nat
  BY LaterContext, Polls DEF Contexts
<1> HIDE DEF b
<1>2. CASE k \notin fingers /\ k \in {"VOL_UP", "VOL_DOWN"}
  <2>1. KeyPressed(k, c) = Outcome("VOL", Idle)
    BY <1>2 DEF KeyPressed
  <2> QED
    BY <2>1, IdleContext DEF Sound, Outcome
<1>3. CASE k \notin fingers /\ k \notin {"VOL_UP", "VOL_DOWN"}
  <2> DEFINE w == [b EXCEPT !.state = "WAIT_MULTI", !.since = 0,
                            !.tap_count = IF @ < 3 THEN @ + 1 ELSE @]
             w1 == [b EXCEPT !.state = "WAIT_MULTI"]
             w2 == [w1 EXCEPT !.since = 0]
             taps == IF b.tap_count < 3 THEN b.tap_count + 1 ELSE b.tap_count
  <2>1. KeyPressed(k, c) = Outcome("none", w)
    BY <1>3 DEF KeyPressed, b
  <2>2. w = [w2 EXCEPT !.tap_count = taps]
    OBVIOUS
  <2>3. b.tap_count \in 0 .. 3 /\ taps \in 0 .. 3
    BY <1>1, ContextFields
  <2>4. w1 \in Contexts /\ w1.state = "WAIT_MULTI"
    BY <1>1, StateSet
  <2>5. w2 \in Contexts /\ w2.state = "WAIT_MULTI"
    <3> HIDE DEF w1
    <3> QED
      BY NoPolls, <2>4, SinceSet
  <2>6. w \in Contexts /\ w.state = "WAIT_MULTI"
    <3> HIDE DEF w, w2, taps
    <3> QED
      BY <2>2, <2>3, <2>5, TapsSet
  <2> HIDE DEF w
  <2> QED
    BY <2>1, <2>6, <1>3 DEF Sound, Outcome
<1>4. CASE k \in fingers
  <2> DEFINE h1 == [b EXCEPT !.state = "HELD"]
             h2 == [h1 EXCEPT !.held_fired = TRUE]
  <2>a. h1 \in Contexts /\ h1.state = "HELD"
    BY <1>1, StateSet
  <2>b. h2 \in Contexts /\ h2.state = "HELD"
    <3> HIDE DEF h1
    <3> QED
      BY <2>a, FiredSet
  <2>1. Held(b) \in Contexts /\ Held(b).state = "HELD"
    <3>1. Held(b) = [h2 EXCEPT !.since = 0]
      BY DEF Held
    <3> HIDE DEF h2
    <3> QED
      BY <2>b, <3>1, NoPolls, SinceSet
  <2>2. Partner(k) \in fingers => ComboEvent(k) # "POWER_LONG"
    <3>1. "nothing" \notin fingers
      BY SpeakerAssumption
    <3>2. Partner("PLAY") = "nothing" /\ Partner("VOL_DOWN") = "nothing"
      BY DEF Partner
    <3>3. ComboEvent("VOL_UP") # "POWER_LONG" /\ ComboEvent("POWER") # "POWER_LONG"
          /\ ComboEvent("MODE") # "POWER_LONG"
      BY DEF ComboEvent
    <3> QED
      BY <3>1, <3>2, <3>3, KeysAre
  <2>3. LongEvent(k) = "POWER_LONG" => k = "POWER"
    BY KeysAre DEF LongEvent
  <2>4. \/ Partner(k) \in fingers /\ KeyPressed(k, c) = Outcome(ComboEvent(k), Held(b))
        \/ KeyPressed(k, c) = Outcome("none", b)
        \/ b.since >= LONG_PRESS_POLLS /\ KeyPressed(k, c) = Outcome(LongEvent(k), Held(b))
    BY <1>4 DEF KeyPressed, b
  <2>5. b.since <= c.since + 1
    BY <1>1
  <2>6. b.since >= LONG_PRESS_POLLS => c.since + 1 >= LONG_PRESS_POLLS
    BY <1>1, Polls
  <2> QED
    BY <1>1, <1>4, <2>1, <2>2, <2>3, <2>4, <2>5, <2>6 DEF Sound, Outcome
<1> QED
  BY <1>2, <1>3, <1>4

LEMMA HeldIsSound ==
  ASSUME NEW k \in Keys, NEW c \in Contexts, c.state = "HELD"
  PROVE  Sound(k, c, HeldDown(k, c))
<1> DEFINE b == Later(c, VOL_REPEAT_POLLS)
<1>1. b \in Contexts /\ b.state = "HELD"
  BY LaterContext, Polls
<1> DEFINE r == [b EXCEPT !.since = 0]
<1>2. r \in Contexts /\ r.state = "HELD"
  <2> HIDE DEF b
  <2> QED
    BY <1>1, NoPolls, SinceSet
<1>3. \/ HeldDown(k, c) = Outcome("none", Idle)
      \/ HeldDown(k, c) = Outcome("VOL", r)
      \/ HeldDown(k, c) = Outcome("none", b)
  BY DEF HeldDown
<1> HIDE DEF b, r
<1> QED
  BY <1>1, <1>2, <1>3, IdleContext DEF Sound, Outcome

LEMMA WaitIsSound ==
  ASSUME NEW k \in Keys \ {"VOL_UP", "VOL_DOWN"}, NEW c \in Contexts, c.state = "WAIT_MULTI"
  PROVE  Sound(k, c, WaitMulti(k, c))
<1> DEFINE d == Later(c, MULTI_PRESS_POLLS)
           p1 == [d EXCEPT !.state = "PRESSED"]
           p == [d EXCEPT !.state = "PRESSED", !.since = 0]
<1>1. d \in Contexts /\ d.state = "WAIT_MULTI"
  BY LaterContext, Polls
<1>2. p \in Contexts /\ p.state = "PRESSED" /\ p.since = 0
  <2>1. p1 \in Contexts /\ p1.state = "PRESSED"
    <3> HIDE DEF d
    <3> QED
      BY <1>1, StateSet
  <2>2. p = [p1 EXCEPT !.since = 0]
    OBVIOUS
  <2> HIDE DEF p, p1
  <2> QED
    BY <2>1, <2>2, NoPolls, SinceSet
<1>3. TapEvent(k, d.tap_count) # "POWER_LONG"
  BY KeysAre DEF TapEvent
<1>4. \/ k \in fingers /\ WaitMulti(k, c) = Outcome("none", p)
      \/ WaitMulti(k, c) = Outcome(TapEvent(k, d.tap_count), Idle)
      \/ WaitMulti(k, c) = Outcome("none", d)
  BY DEF WaitMulti
<1> HIDE DEF d, p
<1> QED
  BY <1>1, <1>2, <1>3, <1>4, IdleContext DEF Sound, Outcome

LEMMA ProcessedIsSound ==
  ASSUME NEW k \in Keys, s_btns[k] \in Contexts, fingers \in Chords,
         k \in {"VOL_UP", "VOL_DOWN"} => s_btns[k].state # "WAIT_MULTI"
  PROVE  Sound(k, s_btns[k], Processed(k))
<1>1. s_btns[k].state \in {"IDLE", "PRESSED", "HELD", "WAIT_MULTI"}
  BY DEF Contexts
<1>2. CASE s_btns[k].state = "IDLE"
  <2> DEFINE p == [Idle EXCEPT !.state = "PRESSED"]
  <2>1. p \in Contexts /\ p.state = "PRESSED" /\ p.since = 0
    BY IdleContext DEF Idle
  <2>2. \/ k \in fingers /\ Processed(k) = Outcome("none", p)
        \/ Processed(k) = Outcome("none", s_btns[k])
    BY <1>2 DEF Processed
  <2> HIDE DEF p
  <2> QED
    BY <1>2, <2>1, <2>2 DEF Sound, Outcome
<1>3. CASE s_btns[k].state = "PRESSED"
  BY <1>3, PressedIsSound DEF Processed
<1>4. CASE s_btns[k].state = "HELD"
  BY <1>4, HeldIsSound DEF Processed
<1>5. CASE s_btns[k].state = "WAIT_MULTI"
  BY <1>5, WaitIsSound DEF Processed
<1> QED
  BY <1>1, <1>2, <1>3, <1>4, <1>5

LEMMA SpeakerStep ==
  ASSUME SpeakerIInv, SpeakerNext
  PROVE  SpeakerIInv'
<1> USE DEF SpeakerIInv, HeldLong, NoVolumeTaps, PowerOffIsDeliberate, SpeakerTypeOK, appVars
<1>t. s_btns \in [Keys -> Contexts]
  BY DEF Contexts
<1>k. "POWER" \in Keys /\ "VOL_UP" \in Keys /\ "VOL_DOWN" \in Keys
  BY KeysAre
<1>1. CASE Fingers
  BY <1>1 DEF Fingers
<1>2. CASE process_btn
  <2> DEFINE k == Order[turn]
  <2>1. k \in Keys
    BY DEF Keys
  <2>2. Sound(k, s_btns[k], Processed(k))
    BY <2>1, <1>t, ProcessedIsSound
  <2>3. /\ busy = "no" /\ turn' = (turn % 5) + 1
        /\ s_btns' = [s_btns EXCEPT ![k] = Processed(k).context]
        /\ on_button(Processed(k).event)
        /\ powerHeld' = IF k # "POWER" THEN powerHeld
                        ELSE IF k \notin fingers THEN 0
                        ELSE IF powerHeld <= LONG_PRESS_POLLS THEN powerHeld + 1 ELSE powerHeld
        /\ UNCHANGED << fingers, boot, battery >>
    BY <1>2 DEF process_btn
  <2> HIDE DEF k
  <2>4. s_btns' \in [Keys -> Contexts] /\ s_btns'[k] = Processed(k).context
        /\ \A j \in Keys \ {k} : s_btns'[j] = s_btns[j]
    BY <1>t, <2>1, <2>2, <2>3 DEF Sound
  <2>5. SpeakerTypeOK'
    <3>1. turn' \in 1 .. 5 /\ powerHeld' \in 0 .. LONG_PRESS_POLLS + 1
      BY <2>3, Polls
    <3>2. /\ busy' \in {"no", "sleep", "restart"} /\ {s_on, amp_muted}' \subseteq BOOLEAN
          /\ s_dsp' \in {"INDOOR", "OUTDOOR", "ROOM_CORRECTION"}
          /\ s_mode' \in {"BOOT", "OFF", "PAIRING", "LOW_BATTERY", "INDOOR", "OUTDOOR",
                          "ROOM_CORRECTION"}
      BY <2>3 DEF on_button, apply_dsp
    <3> QED
      BY <2>3, <2>4, <3>1, <3>2 DEF Contexts
  <2>6. HeldLong'
    BY <1>t, <1>k, <2>1, <2>2, <2>3, <2>4, Polls DEF Sound, Contexts
  <2>7. NoVolumeTaps'
    BY <1>k, <2>1, <2>2, <2>4 DEF Sound
  <2>8. PowerOffIsDeliberate'
    BY <1>t, <1>k, <2>1, <2>2, <2>3, Polls DEF Sound, on_button, Contexts
  <2> QED
    BY <2>5, <2>6, <2>7, <2>8
<1>3. CASE Restart \/ WakeUp
  <2>1. s_btns' = [k \in Keys |-> Idle] /\ powerHeld' = 0 /\ busy' = "no"
    BY <1>3 DEF Restart, WakeUp, Booted
  <2>2. s_btns' \in [Keys -> Contexts] /\ \A k \in Keys : s_btns'[k].state = "IDLE"
    BY <2>1, IdleContext
  <2>3. SpeakerTypeOK'
    <3>1. powerHeld' \in 0 .. LONG_PRESS_POLLS + 1 /\ turn' = 1 /\ 1 \in 1 .. 5
      BY <1>3, <2>1, Polls DEF Restart, WakeUp, Booted
    <3>2. {s_on, amp_muted}' \subseteq BOOLEAN
      BY <1>3 DEF Restart, WakeUp, Booted
    <3> QED
      BY <1>3, <2>1, <2>2, <3>1, <3>2 DEF Restart, WakeUp, Booted, Contexts
  <2> QED
    BY <1>k, <2>1, <2>2, <2>3
<1>4. CASE DeepSleep
  BY <1>4 DEF DeepSleep
<1>5. CASE rl_app_init
  BY <1>5 DEF rl_app_init, apply_dsp
<1>6. CASE read_battery
  BY <1>6 DEF read_battery
<1>7. CASE batt_task
  BY <1>7 DEF batt_task
<1>8. CASE PollIsLate
  <2> DEFINE next(k) == IF s_btns[k].state = "IDLE" THEN s_btns[k]
                        ELSE Later(s_btns[k], COMBO_HOLD_POLLS)
  <2>1. /\ s_btns' = [k \in Keys |-> next(k)] /\ busy' = "no"
        /\ powerHeld' = IF powerHeld \in 1 .. LONG_PRESS_POLLS THEN powerHeld + 1 ELSE powerHeld
        /\ UNCHANGED << fingers, turn, appVars >>
    BY <1>8 DEF PollIsLate
  <2>2. \A k \in Keys : /\ next(k) \in Contexts /\ next(k).state = s_btns[k].state
                        /\ s_btns[k].state # "IDLE" => next(k).since <= s_btns[k].since + 1
    <3> SUFFICES ASSUME NEW k \in Keys
                 PROVE  /\ next(k) \in Contexts /\ next(k).state = s_btns[k].state
                        /\ s_btns[k].state # "IDLE" => next(k).since <= s_btns[k].since + 1
      OBVIOUS
    <3>1. s_btns[k] \in Contexts /\ s_btns[k].since \in 0 .. COMBO_HOLD_POLLS
      BY <1>t, ContextFields
    <3>2. COMBO_HOLD_POLLS \in 0 .. COMBO_HOLD_POLLS
      BY Polls
    <3> DEFINE l == Later(s_btns[k], COMBO_HOLD_POLLS)
    <3>3. l \in Contexts /\ l.state = s_btns[k].state /\ l.since \in {s_btns[k].since, s_btns[k].since + 1}
      BY <3>1, <3>2, LaterContext
    <3>4. next(k) = IF s_btns[k].state = "IDLE" THEN s_btns[k] ELSE l
      OBVIOUS
    <3> HIDE DEF next, l
    <3> QED
      BY <3>1, <3>3, <3>4, Polls
  <2> HIDE DEF next
  <2>3. /\ s_btns' \in [Keys -> Contexts]
        /\ \A k \in Keys : /\ s_btns'[k].state = s_btns[k].state
                           /\ s_btns[k].state # "IDLE" => s_btns'[k].since <= s_btns[k].since + 1
    BY <2>1, <2>2
  <2>4. SpeakerTypeOK'
    BY <2>1, <2>3, Polls DEF Contexts
  <2>5. HeldLong'
    BY <1>t, <1>k, <2>1, <2>3, Polls DEF Contexts
  <2> QED
    BY <1>k, <2>1, <2>3, <2>4, <2>5
<1> QED
  BY <1>1, <1>2, <1>3, <1>4, <1>5, <1>6, <1>7, <1>8 DEF SpeakerNext

-----------------------------------------------------------------------------
(* The session of a sender holds its token and its address, and so does the *)
(* copy that a request has of them.                                         *)
Ids0 == DacpSenders \cup {NoId}
Sessions == [id : Ids0, remote : Ids0, ip : Ids0, port : Ids0, valid : BOOLEAN, failed : BOOLEAN]
Queries == [do : {"query"}, id : Ids0]
Requests == [do : {"get"}, remote : Ids0, ip : Ids0, port : Ids0]
Commands == {"discover", "volume", "playpause", "skip"}
DacpShape ==
  /\ dacp \in Sessions /\ worker \in {WorkerIdle} \cup Queries \cup Requests
  /\ cmds \in Seq(Commands) /\ Len(cmds) <= CMD_QUEUE_LEN
  /\ sessions \in 0 .. MaxSessions
OneSender ==
  /\ dacp.valid => dacp.remote = dacp.ip /\ dacp.ip # NoId
  /\ worker \in Requests => worker.remote = worker.ip /\ worker.ip # NoId
DacpIInv == DacpShape /\ OneSender /\ TokenToItsSender

(* Every volume, those on their way included, is one that the DAC knows. *)
Pending(at) == {Ready} \cup [at : at, new : Volumes]
ControlShape ==
  /\ active \in {"none", "airplay", "bluetooth"} /\ conn \in BOOLEAN /\ muted \in BOOLEAN
  /\ setting \in Volumes \cup {NotLoaded} /\ stored \in Volumes \cup {NotLoaded}
  /\ dac \in Volumes /\ pre_mute \in Volumes
  /\ button \in Pending({"cache", "rest"}) /\ asking \in Pending({"cache"}) \cup {[at |-> "post"]}
ControlIInv == DacpIInv /\ ControlShape

LEMMA SessionFields ==
  ASSUME NEW d \in Sessions
  PROVE  /\ d.id \in Ids0 /\ d.remote \in Ids0 /\ d.ip \in Ids0 /\ d.port \in Ids0
         /\ d.valid \in BOOLEAN /\ d.failed \in BOOLEAN
BY DEF Sessions

LEMMA WorkerFields ==
  ASSUME worker \in {WorkerIdle} \cup Queries \cup Requests
  PROVE  /\ worker.do \in {"idle", "query", "get"}
         /\ worker.do = "query" => worker \in Queries
         /\ worker.do = "get" => worker \in Requests
BY DEF WorkerIdle, Queries, Requests

LEMMA Cleared0 ==
  /\ Cleared \in Sessions /\ Cleared.valid = FALSE
  /\ \A s \in Ids0 :
       /\ [Cleared EXCEPT !.ip = s] \in Sessions /\ [Cleared EXCEPT !.ip = s].valid = FALSE
       /\ [Cleared EXCEPT !.id = s, !.remote = s, !.ip = s, !.valid = TRUE] \in Sessions
       /\ [Cleared EXCEPT !.id = s, !.remote = s, !.ip = s, !.valid = TRUE].remote = s
       /\ [Cleared EXCEPT !.id = s, !.remote = s, !.ip = s, !.valid = TRUE].ip = s
BY DEF Cleared, Sessions, Ids0, NoPort

LEMMA QueueKept ==
  ASSUME cmds \in Seq(Commands), Len(cmds) <= CMD_QUEUE_LEN, NEW c \in Commands
  PROVE  /\ Enqueued(c) \in Seq(Commands) /\ Len(Enqueued(c)) <= CMD_QUEUE_LEN
         /\ ToFront(c) \in Seq(Commands) /\ Len(ToFront(c)) <= CMD_QUEUE_LEN
         /\ cmds # << >> => Tail(cmds) \in Seq(Commands) /\ Len(Tail(cmds)) <= CMD_QUEUE_LEN
<1>1. CMD_QUEUE_LEN \in Nat
  BY DacpAssumption
<1>2. Append(cmds, c) \in Seq(Commands) /\ Len(Append(cmds, c)) = Len(cmds) + 1
  OBVIOUS
<1>3. << c >> \o cmds \in Seq(Commands) /\ Len(<< c >> \o cmds) = Len(cmds) + 1
  OBVIOUS
<1>4. cmds # << >> => Tail(cmds) \in Seq(Commands) /\ Len(Tail(cmds)) = Len(cmds) - 1
  OBVIOUS
<1>5. Len(cmds) \in Nat
  OBVIOUS
<1> QED
  BY <1>1, <1>2, <1>3, <1>4, <1>5 DEF Enqueued, ToFront

LEMMA SetSession ==
  ASSUME DacpIInv, NEW s \in DacpSenders, dacp_set_session(s)
  PROVE  DacpIInv'
<1>1. s \in Ids0 /\ s # NoId
  BY DacpAssumption DEF Ids0
<1>2. sessions' \in 0 .. MaxSessions /\ UNCHANGED << worker, reached >>
  BY DacpAssumption DEF dacp_set_session, DacpIInv, DacpShape
<1>3. cmds' \in Seq(Commands) /\ Len(cmds') <= CMD_QUEUE_LEN
  BY DEF dacp_set_session, DacpIInv, DacpShape
<1>4. dacp' \in Sessions /\ dacp'.remote = s /\ dacp'.ip = s
  <2>1. dacp \in Sessions
    BY DEF DacpIInv, DacpShape
  <2>2. [dacp EXCEPT !.remote = s, !.ip = s] \in Sessions
        /\ [dacp EXCEPT !.remote = s, !.ip = s].remote = s
        /\ [dacp EXCEPT !.remote = s, !.ip = s].ip = s
    BY <1>1, <2>1 DEF Sessions
  <2> QED
    BY <1>1, <2>2, Cleared0 DEF dacp_set_session
<1>5. DacpShape'
  BY <1>2, <1>3, <1>4 DEF DacpIInv, DacpShape
<1> QED
  BY <1>1, <1>2, <1>4, <1>5 DEF DacpIInv, OneSender, TokenToItsSender

LEMMA DiscoveryPosted ==
  ASSUME DacpIInv, PostDiscovery
  PROVE  DacpIInv'
<1>1. cmds' \in Seq(Commands) /\ Len(cmds') <= CMD_QUEUE_LEN
  BY QueueKept DEF PostDiscovery, DacpIInv, DacpShape, Commands, Discover
<1> QED
  BY <1>1 DEF PostDiscovery, DacpIInv, DacpShape, OneSender, TokenToItsSender

LEMMA ClearSession ==
  ASSUME DacpIInv, dacp_clear_session
  PROVE  DacpIInv'
<1>1. dacp' \in Sessions /\ dacp'.valid = FALSE
  BY SessionFields, Cleared0 DEF DacpIInv, DacpShape, dacp_clear_session
<1>2. sessions' \in 0 .. MaxSessions /\ UNCHANGED << cmds, worker, reached >>
  BY DacpAssumption DEF dacp_clear_session, DacpIInv, DacpShape
<1> QED
  BY <1>1, <1>2 DEF DacpIInv, DacpShape, OneSender, TokenToItsSender

LEMMA DacpStep ==
  ASSUME DacpIInv, DacpNext
  PROVE  DacpIInv'
<1>d. dacp \in Sessions /\ worker \in {WorkerIdle} \cup Queries \cup Requests
  BY DEF DacpIInv, DacpShape
<1>1. CASE Work
  <2>1. UNCHANGED << dacp, reached, sessions >> /\ cmds # << >> /\ cmds' = Tail(cmds)
    BY <1>1 DEF Work
  <2>2. cmds' \in Seq(Commands) /\ Len(cmds') <= CMD_QUEUE_LEN
    BY <2>1, QueueKept DEF DacpIInv, DacpShape, Commands
  <2>3. worker' = StartDiscovery \/ worker' = StartRequest
    BY <1>1 DEF Work
  <2>4. \/ worker' = WorkerIdle
        \/ worker' = [do |-> "query", id |-> dacp.id]
        \/ dacp.valid /\ worker' = [do |-> "get", remote |-> dacp.remote, ip |-> dacp.ip,
                                    port |-> dacp.port]
    BY <2>3 DEF StartDiscovery, StartRequest
  <2>5. /\ worker' \in {WorkerIdle} \cup Queries \cup Requests
        /\ worker' \in Requests => worker'.remote = worker'.ip /\ worker'.ip # NoId
    <3>1. CASE worker' = WorkerIdle
      BY <3>1 DEF WorkerIdle, Requests
    <3>2. CASE worker' = [do |-> "query", id |-> dacp.id]
      BY <3>2, <1>d, SessionFields DEF Queries, Requests
    <3>3. CASE dacp.valid /\ worker' = [do |-> "get", remote |-> dacp.remote, ip |-> dacp.ip,
                                        port |-> dacp.port]
      BY <3>3, <1>d, SessionFields DEF DacpIInv, OneSender, Queries, Requests
    <3> QED
      BY <2>4, <3>1, <3>2, <3>3
  <2> QED
    BY <2>1, <2>2, <2>5 DEF DacpIInv, DacpShape, OneSender, TokenToItsSender
<1>2. ASSUME NEW b \in BOOLEAN, Found(b)
      PROVE  DacpIInv'
  <2>1. /\ worker.do = "query" /\ worker' = WorkerIdle /\ UNCHANGED << cmds, reached, sessions >>
        /\ dacp' \in {[dacp EXCEPT !.port = worker.id],
                      [dacp EXCEPT !.port = NoPort, !.failed = TRUE]}
    BY <1>2 DEF Found
  <2>2. worker.id \in Ids0 /\ NoPort \in Ids0
    BY <1>d, <2>1, WorkerFields DEF Queries, Ids0, NoPort
  <2>3. /\ dacp' \in Sessions /\ dacp'.valid = dacp.valid /\ dacp'.remote = dacp.remote
        /\ dacp'.ip = dacp.ip
    BY <1>d, <2>1, <2>2 DEF Sessions
  <2>4. worker' \notin Requests
    BY <2>1 DEF WorkerIdle, Requests
  <2> QED
    BY <2>1, <2>3, <2>4 DEF DacpIInv, DacpShape, OneSender, TokenToItsSender
<1>3. ASSUME NEW b \in BOOLEAN, Request(b)
      PROVE  DacpIInv'
  <2>1. /\ worker.do = "get" /\ worker' = WorkerIdle /\ UNCHANGED << cmds, sessions >>
        /\ reached' = << worker.remote, IF worker.ip = NoId THEN dacp.ip ELSE worker.ip >>
        /\ dacp' \in {dacp, [dacp EXCEPT !.port = NoPort]}
    BY <1>3 DEF Request
  <2>2. /\ dacp' \in Sessions /\ dacp'.valid = dacp.valid /\ dacp'.remote = dacp.remote
        /\ dacp'.ip = dacp.ip
    BY <1>d, <2>1 DEF Sessions, NoPort, Ids0
  <2>3. worker' \notin Requests
    BY <2>1 DEF WorkerIdle, Requests
  <2>4. TokenToItsSender'
    BY <1>d, <2>1, WorkerFields DEF DacpIInv, OneSender, TokenToItsSender
  <2> QED
    BY <2>1, <2>2, <2>3, <2>4 DEF DacpIInv, DacpShape, OneSender
<1> QED
  BY <1>1, <1>2, <1>3 DEF DacpNext

-----------------------------------------------------------------------------
LEMMA VolumesAre ==
  /\ VOLUME_MIN \in Volumes /\ VOLUME_DEFAULT \in Volumes
  /\ \A v \in Int : clamp_volume(v) \in Volumes
  /\ ControlShape => Loaded \in Volumes /\ \A n \in Int : Loaded + n \in Int
BY VolumeAssumption DEF Volumes, clamp_volume, Loaded, ControlShape

LEMMA ControlStep ==
  ASSUME ControlIInv, ControlNext
  PROVE  ControlIInv'
<1> USE DEF ControlIInv
<1>1. ASSUME NEW step \in {VOLUME_STEP, -VOLUME_STEP}, Volume(step)
      PROVE  ControlIInv'
  <2> DEFINE new == clamp_volume(Loaded + step)
  <2>1. new \in Volumes
    BY VolumesAre, VolumeAssumption
  <2>2. /\ UNCHANGED << dacpVars, active, conn, muted, pre_mute, setting, stored, asking >>
        /\ dac' \in {dac, new}
        /\ \E a \in {"rest", "cache"} : button' = [at |-> a, new |-> new]
    BY <1>1 DEF Volume, SetDac
  <2> HIDE DEF new
  <2>3. button' \in Pending({"cache", "rest"})
    BY <2>1, <2>2 DEF Pending
  <2> QED
    BY <2>1, <2>2, <2>3 DEF ControlShape, dacpVars, DacpIInv, DacpShape, OneSender, TokenToItsSender
<1>d. UNCHANGED dacpVars => DacpIInv'
  BY DEF dacpVars, DacpIInv, DacpShape, OneSender, TokenToItsSender
<1>c. ASSUME NEW c \in Commands, cmds' \in {cmds, Enqueued(c)},
             UNCHANGED << dacp, worker, reached, sessions >>
      PROVE  DacpIInv'
  BY <1>c, QueueKept DEF DacpIInv, DacpShape, OneSender, TokenToItsSender
<1>b. ASSUME button.at # "idle"
      PROVE  button.new \in Volumes /\ [button EXCEPT !.at = "rest"] \in Pending({"cache", "rest"})
  BY <1>b DEF ControlShape, Pending, Ready
<1>2. CASE VolumeCached
  BY <1>2, <1>b, <1>d DEF VolumeCached, ControlShape, SetCached
<1>3. CASE VolumeRest
  <2>1. DacpIInv'
    BY <1>3, <1>c DEF VolumeRest, Commands
  <2> QED
    BY <1>3, <1>b, <2>1 DEF VolumeRest, ControlShape, Pending
<1>4. CASE PlayPause
  <2>1. DacpIInv'
    BY <1>4, <1>c DEF PlayPause, Commands
  <2> QED
    BY <1>4, <2>1, VolumesAre DEF PlayPause, ControlShape, toggle_mute
<1>5. CASE Skip
  <2>1. DacpIInv'
    BY <1>5, <1>c DEF Skip, Commands
  <2> QED
    BY <1>5, <2>1 DEF Skip, ControlShape
<1>6. CASE Passthrough
  BY <1>6, <1>d DEF Passthrough, ControlShape
<1>7. ASSUME NEW s \in DacpSenders \cup {NoId}, Connect(s)
      PROVE  ControlIInv'
  <2>1. DacpIInv'
    BY <1>7, <1>d, SetSession DEF Connect
  <2>2. asking' \in Pending({"cache"}) \cup {[at |-> "post"]}
    BY <1>7 DEF Connect, Pending
  <2> QED
    BY <1>7, <2>1, <2>2 DEF Connect, ControlShape
<1>8. ASSUME NEW v \in Volumes, SenderVolume(v)
      PROVE  ControlIInv'
  <2>1. asking' \in Pending({"cache"})
    BY <1>8 DEF SenderVolume, Pending
  <2> QED
    BY <1>8, <1>d, <2>1 DEF SenderVolume, ControlShape, SetDac
<1>9. CASE SenderVolumeCached
  <2>1. asking.new \in Volumes
    BY <1>9 DEF SenderVolumeCached, ControlShape, Pending, Ready
  <2> QED
    BY <1>9, <1>d, <2>1 DEF SenderVolumeCached, ControlShape, SetCached, Pending
<1>10. CASE Record
  BY <1>10, <1>d, VolumesAre DEF Record, ControlShape
<1>11. CASE Close
  BY <1>11, ClearSession DEF Close, ControlShape
<1>12. ASSUME NEW s \in {"none", "airplay", "bluetooth"}, playback_control_set_source(s)
       PROVE  ControlIInv'
  BY <1>12, <1>d DEF playback_control_set_source, ControlShape
<1>13. CASE DacpNext /\ UNCHANGED controlVars
  BY <1>13, DacpStep DEF controlVars, ControlShape
<1>14. CASE ConnectPosts
  BY <1>14, DiscoveryPosted DEF ConnectPosts, ControlShape, Pending
<1> QED
  BY <1>1, <1>2, <1>3, <1>4, <1>5, <1>6, <1>7, <1>8, <1>9, <1>10, <1>11, <1>12, <1>13, <1>14
     DEF ControlNext, ButtonTask, RtspTaskOfControl

-----------------------------------------------------------------------------
(* The two queues hold only what their readers know. *)
PhoneEvents ==
  [what : {"connected", "register volume", "metadata"}]
  \cup [what : Notifications \cup {"play status"}, playing : BOOLEAN]
  \cup [what : {"set volume"}, volume : 0 .. MAX_VOLUME]
PhoneCommands == {MetaCmd, StatusCmd} \cup {Reg(n) : n \in Notifications}
Phones == [linked : BOOLEAN, playing : BOOLEAN, registered : SUBSET Notifications,
           volume : 0 .. MAX_VOLUME, waits : BOOLEAN]
AvrcpShape ==
  /\ phone \in Phones
  /\ events \in Seq(PhoneEvents) /\ Len(events) <= BT_TASK_QLEN
  /\ commands \in Seq(PhoneCommands)
  /\ s_avrc_volume \in 0 .. MAX_VOLUME /\ applied \in 0 .. MAX_VOLUME
  /\ shown \in {"none", "playing", "paused"} /\ pressing \in {"none", "told", "play", "pause"}
  /\ s_avrc_playing \in BOOLEAN /\ s_vol_ntf_pending \in BOOLEAN /\ lost \in BOOLEAN
AvrcpIInv == AvrcpShape /\ Renewed

(* Is there an event of a kind, or a registration, in a queue? *)
Among(q, what) == \E i \in 1 .. Len(q) : q[i].what = what
OnItsWay(q, n) == \E i \in 1 .. Len(q) : q[i] = Reg(n)

LEMMA Among1 ==
  ASSUME NEW S, NEW q \in Seq(S), q # << >>
  PROVE  /\ Tail(q) \in Seq(S) /\ Len(Tail(q)) = Len(q) - 1 /\ Head(q) \in S
         /\ \A w : Among(q, w) => Head(q).what = w \/ Among(Tail(q), w)
         /\ \A n : OnItsWay(q, n) => Head(q) = Reg(n) \/ OnItsWay(Tail(q), n)
<1>1. /\ Tail(q) \in Seq(S) /\ Len(Tail(q)) = Len(q) - 1 /\ Head(q) = q[1] /\ Head(q) \in S
      /\ Len(q) \in Nat \ {0}
      /\ \A i \in 1 .. Len(q) - 1 : Tail(q)[i] = q[i + 1]
  OBVIOUS
<1>2. ASSUME NEW i \in 1 .. Len(q), i # 1
      PROVE  i - 1 \in 1 .. Len(Tail(q)) /\ Tail(q)[i - 1] = q[i]
  <2>1. i - 1 \in 1 .. Len(q) - 1 /\ (i - 1) + 1 = i
    BY <1>1, <1>2
  <2> QED
    BY <1>1, <2>1
<1> QED
  BY <1>1, <1>2 DEF Among, OnItsWay

LEMMA Among2 ==
  ASSUME NEW S, NEW q \in Seq(S), NEW r \in Seq(S)
  PROVE  /\ q \o r \in Seq(S) /\ Len(q \o r) = Len(q) + Len(r)
         /\ \A w : Among(q, w) \/ Among(r, w) => Among(q \o r, w)
         /\ \A n : OnItsWay(q, n) \/ OnItsWay(r, n) => OnItsWay(q \o r, n)
<1>1. /\ q \o r \in Seq(S) /\ Len(q \o r) = Len(q) + Len(r) /\ Len(q) \in Nat /\ Len(r) \in Nat
      /\ \A i \in 1 .. Len(q) : (q \o r)[i] = q[i]
      /\ \A i \in 1 .. Len(r) : (q \o r)[Len(q) + i] = r[i]
  OBVIOUS
<1>2. ASSUME NEW i \in 1 .. Len(q)
      PROVE  i \in 1 .. Len(q \o r)
  BY <1>1
<1>3. ASSUME NEW i \in 1 .. Len(r)
      PROVE  Len(q) + i \in 1 .. Len(q \o r)
  BY <1>1
<1> QED
  BY <1>1, <1>2, <1>3 DEF Among, OnItsWay

(* A notification that can be relied on. *)
Owed(n) ==
  \/ n \in phone.registered \/ Among(events, n) \/ Among(events, "connected")
  \/ OnItsWay(commands, n)

LEMMA RenewedIsOwed ==
  ASSUME AvrcpShape
  PROVE  Renewed <=> (phone.linked /\ ~lost => \A n \in Notifications : Owed(n))
<1>1. DOMAIN events = 1 .. Len(events) /\ DOMAIN commands = 1 .. Len(commands)
  BY DEF AvrcpShape
<1> QED
  BY <1>1 DEF Renewed, Owed, Waits, Among, OnItsWay

LEMMA RenewedIsOwedNext ==
  ASSUME AvrcpShape'
  PROVE  Renewed' <=> (phone'.linked /\ ~lost' => \A n \in Notifications : Owed(n)')
<1>1. DOMAIN events' = 1 .. Len(events') /\ DOMAIN commands' = 1 .. Len(commands')
  BY DEF AvrcpShape
<1> QED
  BY <1>1 DEF Renewed, Owed, Waits, Among, OnItsWay

LEMMA PhoneFields ==
  ASSUME phone \in Phones
  PROVE  /\ phone.linked \in BOOLEAN /\ phone.playing \in BOOLEAN
         /\ phone.registered \subseteq Notifications /\ phone.volume \in 0 .. MAX_VOLUME
BY DEF Phones

LEMMA DispatchKeeps ==
  ASSUME events \in Seq(PhoneEvents), Len(events) <= BT_TASK_QLEN, lost \in BOOLEAN,
         NEW more \in Seq(PhoneEvents), Dispatched(more)
  PROVE  /\ events' \in Seq(PhoneEvents) /\ Len(events') <= BT_TASK_QLEN /\ lost' \in BOOLEAN
         /\ ~lost' => ~lost
         /\ \A w : Among(events, w) => Among(events', w)
         /\ \A w : ~lost' /\ Among(more, w) => Among(events', w)
<1>1. \/ events' = events \o more /\ lost' = lost /\ Len(events) + Len(more) <= BT_TASK_QLEN
      \/ events' = events /\ lost' = TRUE
  BY DEF Dispatched
<1>2. CASE events' = events \o more /\ lost' = lost /\ Len(events) + Len(more) <= BT_TASK_QLEN
  BY <1>2, Among2
<1>3. CASE events' = events /\ lost' = TRUE
  BY <1>3
<1> QED
  BY <1>1, <1>2, <1>3

LEMMA OneEvent ==
  ASSUME NEW e \in PhoneEvents
  PROVE  << e >> \in Seq(PhoneEvents) /\ Among(<< e >>, e.what)
<1>1. << e >> \in Seq(PhoneEvents) /\ Len(<< e >>) = 1 /\ << e >>[1] = e /\ 1 \in 1 .. 1
  OBVIOUS
<1> QED
  BY <1>1 DEF Among

LEMMA TwoEvents ==
  ASSUME NEW e \in PhoneEvents, NEW f \in PhoneEvents
  PROVE  << e, f >> \in Seq(PhoneEvents) /\ Among(<< e, f >>, e.what)
<1>1. /\ << e, f >> \in Seq(PhoneEvents) /\ Len(<< e, f >>) = 2 /\ << e, f >>[1] = e
      /\ 1 \in 1 .. 2
  OBVIOUS
<1> QED
  BY <1>1 DEF Among

LEMMA Steps == \A v \in 0 .. MAX_VOLUME : Up(v) \in 0 .. MAX_VOLUME /\ Down(v) \in 0 .. MAX_VOLUME
BY AvrcpAssumption DEF Up, Down

LEMMA RegIsOne ==
  ASSUME NEW n, NEW m
  PROVE  Reg(n) = Reg(m) => n = m
BY DEF Reg

(* What taking the next event leaves, and what its handler sends. *)
LEMMA TakeKeeps ==
  ASSUME AvrcpShape, Take
  PROVE  /\ events' \in Seq(PhoneEvents) /\ Len(events') <= BT_TASK_QLEN /\ Event \in PhoneEvents
         /\ \A w : Among(events, w) => Event.what = w \/ Among(events', w)
<1>1. events \in Seq(PhoneEvents) /\ events # << >> /\ events' = Tail(events) /\ Event = Head(events)
      /\ Len(events) <= BT_TASK_QLEN /\ BT_TASK_QLEN \in Nat
  BY AvrcpAssumption DEF AvrcpShape, Take, Event
<1> QED
  BY <1>1, Among1

LEMMA SendKeeps ==
  ASSUME AvrcpShape, NEW list \in Seq(PhoneCommands), Send(list)
  PROVE  /\ commands' \in Seq(PhoneCommands)
         /\ \A n : OnItsWay(commands, n) \/ OnItsWay(list, n) => OnItsWay(commands', n)
BY Among2 DEF AvrcpShape, Send

LEMMA Lists ==
  LET c == << MetaCmd, StatusCmd, Reg("track"), Reg("status"), Reg("position") >>
      t == << MetaCmd, StatusCmd, Reg("track") >>
      s == << StatusCmd, Reg("status") >>
      p == << Reg("position") >>
  IN  /\ {c, t, s, p} \subseteq Seq(PhoneCommands)
      /\ \A n \in Notifications : OnItsWay(c, n)
      /\ OnItsWay(t, "track") /\ OnItsWay(s, "status") /\ OnItsWay(p, "position")
<1> DEFINE c == << MetaCmd, StatusCmd, Reg("track"), Reg("status"), Reg("position") >>
           t == << MetaCmd, StatusCmd, Reg("track") >>
           s == << StatusCmd, Reg("status") >>
           p == << Reg("position") >>
<1>1. MetaCmd \in PhoneCommands /\ StatusCmd \in PhoneCommands
      /\ \A n \in Notifications : Reg(n) \in PhoneCommands
  BY DEF PhoneCommands
<1>2. "track" \in Notifications /\ "status" \in Notifications /\ "position" \in Notifications
      /\ \A n \in Notifications : n = "track" \/ n = "status" \/ n = "position"
  BY DEF Notifications
<1>3. c \in Seq(PhoneCommands) /\ t \in Seq(PhoneCommands) /\ s \in Seq(PhoneCommands)
      /\ p \in Seq(PhoneCommands)
  BY <1>1, <1>2
<1>4. /\ Len(c) = 5 /\ c[3] = Reg("track") /\ c[4] = Reg("status") /\ c[5] = Reg("position")
      /\ Len(t) = 3 /\ t[3] = Reg("track") /\ Len(s) = 2 /\ s[2] = Reg("status")
      /\ Len(p) = 1 /\ p[1] = Reg("position")
  OBVIOUS
<1> HIDE DEF c, t, s, p
<1>5. OnItsWay(c, "track") /\ OnItsWay(c, "status") /\ OnItsWay(c, "position")
      /\ OnItsWay(t, "track") /\ OnItsWay(s, "status") /\ OnItsWay(p, "position")
  BY <1>4 DEF OnItsWay
<1>6. \A n \in Notifications : OnItsWay(c, n)
  BY <1>2, <1>5
<1> QED
  BY <1>3, <1>5, <1>6 DEF c, t, s, p

LEMMA EventFields ==
  ASSUME NEW e \in PhoneEvents
  PROVE  /\ e.what = "set volume" => e.volume \in 0 .. MAX_VOLUME
         /\ e.what \in {"status", "play status"} => e.playing \in BOOLEAN
BY DEF PhoneEvents, Notifications

(* The handlers of the task of the Bluetooth application. *)
LEMMA HandlerStep ==
  ASSUME AvrcpIInv, Handler
  PROVE  AvrcpIInv'
<1> USE DEF AvrcpIInv
<1>o. phone.linked /\ ~lost => \A n \in Notifications : Owed(n)
  BY RenewedIsOwed
<1>t. /\ Take
      /\ events' \in Seq(PhoneEvents) /\ Len(events') <= BT_TASK_QLEN /\ Event \in PhoneEvents
      /\ \A w : Among(events, w) => Event.what = w \/ Among(events', w)
  <2>1. Take
    BY DEF Handler, Connected, Metadata, PlayStatus, TrackChange, StatusChange, PositionChange,
           SetVolume, RegisterVolume
  <2> QED
    BY <2>1, TakeKeeps
<1>s. ASSUME NEW p \in BOOLEAN, Sounds(p)
      PROVE  s_avrc_playing' \in BOOLEAN /\ shown' \in {"none", "playing", "paused"}
  BY <1>s DEF Sounds
<1>1. ASSUME NEW list \in Seq(PhoneCommands), Send(list),
             phone'.registered = phone.registered, phone'.linked = phone.linked, lost' = lost,
             \A n \in Notifications : Event.what \in {n, "connected"} => OnItsWay(list, n),
             AvrcpShape'
      PROVE  AvrcpIInv'
  <2>1. \A n : OnItsWay(commands, n) \/ OnItsWay(list, n) => OnItsWay(commands', n)
    BY <1>1, SendKeeps
  <2>2. phone'.linked /\ ~lost' => \A n \in Notifications : Owed(n)'
    BY <1>1, <1>o, <1>t, <2>1 DEF Owed
  <2> QED
    BY <1>1, <2>2, RenewedIsOwedNext
<1>2. ASSUME commands' = commands, phone'.registered = phone.registered,
             phone'.linked = phone.linked, lost' = lost,
             Event.what \notin Notifications \cup {"connected"},
             AvrcpShape'
      PROVE  AvrcpIInv'
  <2>1. phone'.linked /\ ~lost' => \A n \in Notifications : Owed(n)'
    BY <1>2, <1>o, <1>t DEF Owed
  <2> QED
    BY <1>2, <2>1, RenewedIsOwedNext
<1>q. ASSUME Quiet, Volumeless, commands' \in Seq(PhoneCommands)
      PROVE  AvrcpShape'
  BY <1>q, <1>t DEF Quiet, Volumeless, AvrcpShape
<1>3. CASE Connected
  <2> DEFINE list == << MetaCmd, StatusCmd, Reg("track"), Reg("status"), Reg("position") >>
  <2>1. Send(list) /\ Quiet /\ Volumeless
    BY <1>3 DEF Connected
  <2>2. list \in Seq(PhoneCommands) /\ \A n \in Notifications : OnItsWay(list, n)
    BY Lists
  <2> HIDE DEF list
  <2>3. AvrcpShape'
    BY <2>1, <2>2, <1>q, SendKeeps
  <2> QED
    BY <2>1, <2>2, <2>3, <1>1 DEF Volumeless
<1>4. CASE Metadata
  <2>1. AvrcpShape'
    BY <1>4, <1>q DEF Metadata, AvrcpShape
  <2> QED
    BY <1>4, <2>1, <1>2 DEF Metadata, Is, Volumeless, Notifications
<1>5. CASE PlayStatus
  <2>1. AvrcpShape'
    <3>1. Event.playing \in BOOLEAN
      BY <1>5, <1>t, EventFields DEF PlayStatus, Is
    <3> QED
      BY <1>5, <3>1, <1>s, <1>t DEF PlayStatus, AvrcpShape, Volumeless
  <2> QED
    BY <1>5, <2>1, <1>2 DEF PlayStatus, Is, Volumeless, Notifications
<1>6. CASE TrackChange
  <2> DEFINE list == << MetaCmd, StatusCmd, Reg("track") >>
  <2>1. Event.what = "track" /\ Send(list) /\ Quiet /\ Volumeless
    BY <1>6 DEF TrackChange, Is
  <2>2. list \in Seq(PhoneCommands) /\ OnItsWay(list, "track")
    BY Lists
  <2> HIDE DEF list
  <2>3. AvrcpShape'
    BY <2>1, <2>2, <1>q, SendKeeps
  <2> QED
    BY <2>1, <2>2, <2>3, <1>1 DEF Volumeless
<1>7. CASE StatusChange
  <2> DEFINE list == << StatusCmd, Reg("status") >>
  <2>1. Event.what = "status" /\ Send(list) /\ Sounds(Event.playing) /\ Volumeless
    BY <1>7 DEF StatusChange, Is
  <2>2. list \in Seq(PhoneCommands) /\ OnItsWay(list, "status")
    BY Lists
  <2> HIDE DEF list
  <2>3. AvrcpShape'
    <3>1. Event.playing \in BOOLEAN
      BY <2>1, <1>t, EventFields
    <3> QED
      BY <2>1, <2>2, <3>1, <1>s, <1>t, SendKeeps DEF AvrcpShape, Volumeless
  <2> QED
    BY <2>1, <2>2, <2>3, <1>1 DEF Volumeless
<1>8. CASE PositionChange
  <2> DEFINE list == << Reg("position") >>
  <2>1. Event.what = "position" /\ Send(list) /\ Quiet /\ Volumeless
    BY <1>8 DEF PositionChange, Is
  <2>2. list \in Seq(PhoneCommands) /\ OnItsWay(list, "position")
    BY Lists
  <2> HIDE DEF list
  <2>3. AvrcpShape'
    BY <2>1, <2>2, <1>q, SendKeeps
  <2> QED
    BY <2>1, <2>2, <2>3, <1>1 DEF Volumeless
<1>9. CASE SetVolume
  <2>1. Event.volume \in 0 .. MAX_VOLUME
    BY <1>9, <1>t, EventFields DEF SetVolume, Is
  <2>2. AvrcpShape'
    BY <1>9, <2>1, <1>t DEF SetVolume, AvrcpShape, Quiet
  <2> QED
    BY <1>9, <2>2, <1>2 DEF SetVolume, Is, Notifications
<1>10. CASE RegisterVolume
  <2>1. phone' \in Phones /\ phone'.registered = phone.registered /\ phone'.linked = phone.linked
    BY <1>10 DEF RegisterVolume, AvrcpShape, Phones
  <2>2. AvrcpShape'
    BY <1>10, <2>1, <1>t DEF RegisterVolume, AvrcpShape, Quiet
  <2> QED
    BY <1>10, <2>1, <2>2, <1>2 DEF RegisterVolume, Is, Notifications
<1> QED
  BY <1>3, <1>4, <1>5, <1>6, <1>7, <1>8, <1>9, <1>10 DEF Handler

LEMMA AvrcpStep ==
  ASSUME AvrcpIInv, AvrcpNext
  PROVE  AvrcpIInv'
<1> USE DEF AvrcpIInv
<1>o. phone.linked /\ ~lost => \A n \in Notifications : Owed(n)
  BY RenewedIsOwed
<1>p. /\ phone \in Phones /\ phone.registered \subseteq Notifications
      /\ events \in Seq(PhoneEvents) /\ Len(events) <= BT_TASK_QLEN /\ lost \in BOOLEAN
      /\ commands \in Seq(PhoneCommands)
  BY PhoneFields DEF AvrcpShape
<1>q. ASSUME phone' \in Phones, events' \in Seq(PhoneEvents), Len(events') <= BT_TASK_QLEN,
             commands' \in Seq(PhoneCommands), lost' \in BOOLEAN, Own
      PROVE  AvrcpShape'
  BY <1>q DEF Own, AvrcpShape
(* An event, or none, is added, and the source's registrations are not kept *)
(* in every case: then their event is the one that is added.                *)
<1>1. ASSUME NEW more \in Seq(PhoneEvents), Dispatched(more), commands' = commands,
             phone'.linked => phone.linked \/ Among(more, "connected"),
             \A n \in Notifications :
                n \in phone.registered => n \in phone'.registered \/ Among(more, n),
             AvrcpShape'
      PROVE  AvrcpIInv'
  <2>1. /\ ~lost' => ~lost
        /\ \A w : Among(events, w) => Among(events', w)
        /\ \A w : ~lost' /\ Among(more, w) => Among(events', w)
    BY <1>1, <1>p, DispatchKeeps
  <2>2. phone'.linked /\ ~lost' => \A n \in Notifications : Owed(n)'
    BY <1>1, <1>o, <2>1 DEF Owed
  <2> QED
    BY <1>1, <2>2, RenewedIsOwedNext
<1>2. ASSUME events' = events, lost' = lost, commands' = commands, phone'.linked => phone.linked,
             phone.registered \subseteq phone'.registered, AvrcpShape'
      PROVE  AvrcpIInv'
  <2>1. phone'.linked /\ ~lost' => \A n \in Notifications : Owed(n)'
    BY <1>2, <1>o DEF Owed
  <2> QED
    BY <1>2, <2>1, RenewedIsOwedNext
<1>3. CASE Link
  <2> DEFINE more == << Ev("connected"), Ev("register volume") >>
  <2>1. Dispatched(more) /\ commands' = commands /\ Own
        /\ phone' = [phone EXCEPT !.linked = TRUE, !.waits = TRUE]
    BY <1>3 DEF Link
  <2>2. more \in Seq(PhoneEvents) /\ Among(more, "connected")
    <3>1. Ev("connected") \in PhoneEvents /\ Ev("register volume") \in PhoneEvents
          /\ Ev("connected").what = "connected"
      BY DEF Ev, PhoneEvents
    <3> QED
      BY <3>1, TwoEvents
  <2>3. phone' \in Phones /\ phone'.registered = phone.registered
    BY <1>p, <2>1 DEF Phones
  <2> HIDE DEF more
  <2>4. AvrcpShape'
    BY <1>p, <1>q, <2>1, <2>2, <2>3, DispatchKeeps
  <2> QED
    BY <1>1, <2>1, <2>2, <2>3, <2>4
<1>4. ASSUME NEW n \in Notifications, Notify(n)
      PROVE  AvrcpIInv'
  <2>1. /\ commands' = commands /\ Own /\ phone.linked
        /\ phone' = [phone EXCEPT !.registered = @ \ {n},
                                  !.playing = IF n = "status" THEN ~@ ELSE @]
    BY <1>4 DEF Notify
  <2>2. phone' \in Phones /\ phone'.registered = phone.registered \ {n} /\ phone'.playing \in BOOLEAN
    BY <1>p, <2>1, PhoneFields DEF Phones
  <2>3. CASE n \in phone.registered
    <3> DEFINE e == [what |-> n, playing |-> phone'.playing]
    <3>1. Dispatched(<< e >>)
      BY <1>4, <2>3 DEF Notify
    <3>2. e \in PhoneEvents /\ e.what = n
      BY <2>2 DEF PhoneEvents
    <3> HIDE DEF e
    <3>3. << e >> \in Seq(PhoneEvents) /\ Among(<< e >>, n)
      BY <3>2, OneEvent
    <3>4. AvrcpShape'
      BY <1>p, <1>q, <2>1, <2>2, <3>1, <3>3, DispatchKeeps
    <3> QED
      BY <1>1, <2>1, <2>2, <3>1, <3>3, <3>4
  <2>4. CASE n \notin phone.registered
    <3>1. events' = events /\ lost' = lost
      BY <1>4, <2>4 DEF Notify
    <3>2. AvrcpShape'
      BY <1>p, <1>q, <2>1, <2>2, <3>1
    <3> QED
      BY <1>2, <2>1, <2>2, <2>4, <3>1, <3>2
  <2> QED
    BY <2>3, <2>4
<1>5. ASSUME NEW v \in {0, MAX_VOLUME}, SetAbsolute(v)
      PROVE  AvrcpIInv'
  <2> DEFINE e == [what |-> "set volume", volume |-> v]
  <2>1. /\ commands' = commands /\ Own /\ Dispatched(<< e >>) /\ phone.linked
        /\ phone' = [phone EXCEPT !.volume = v]
    BY <1>5 DEF SetAbsolute
  <2>2. v \in 0 .. MAX_VOLUME
    BY AvrcpAssumption
  <2>3. phone' \in Phones /\ phone'.registered = phone.registered
    BY <1>p, <2>1, <2>2 DEF Phones
  <2>4. e \in PhoneEvents
    BY <2>2 DEF PhoneEvents
  <2> HIDE DEF e
  <2>5. AvrcpShape'
    BY <1>p, <1>q, <2>1, <2>3, <2>4, OneEvent, DispatchKeeps
  <2> QED
    BY <1>1, <2>1, <2>3, <2>4, <2>5, OneEvent
<1>6. CASE Answer
  <2> DEFINE c == Head(commands)
  <2>1. commands # << >> /\ commands' = Tail(commands) /\ Own
    BY <1>6 DEF Answer
  <2>2. /\ c \in PhoneCommands /\ commands' \in Seq(PhoneCommands)
        /\ \A n : OnItsWay(commands, n) => c = Reg(n) \/ OnItsWay(commands', n)
    BY <1>p, <2>1, Among1
  <2>3. CASE c.do = "register"
    <3>1. phone' = [phone EXCEPT !.registered = @ \cup {c.n}] /\ events' = events /\ lost' = lost
      BY <1>6, <2>3 DEF Answer
    <3>2. PICK n \in Notifications : c = Reg(n)
      BY <2>2, <2>3 DEF PhoneCommands, MetaCmd, StatusCmd
    <3>3. c.n = n
      BY <3>2 DEF Reg
    <3>4. phone' \in Phones /\ phone'.registered = phone.registered \cup {n}
          /\ phone'.linked = phone.linked
      BY <1>p, <3>1, <3>3 DEF Phones
    <3>5. AvrcpShape'
      BY <1>p, <1>q, <2>1, <2>2, <3>1, <3>4
    <3>6. phone'.linked /\ ~lost' => \A m \in Notifications : Owed(m)'
      BY <1>o, <2>2, <3>1, <3>2, <3>4, RegIsOne DEF Owed
    <3> QED
      BY <3>5, <3>6, RenewedIsOwedNext
  <2>4. CASE c.do # "register"
    <3> DEFINE e == IF c.do = "status" THEN [what |-> "play status", playing |-> phone.playing]
                                       ELSE Ev("metadata")
    <3>1. phone' = phone /\ Dispatched(<< e >>)
      BY <1>6, <2>4 DEF Answer
    <3>2. e \in PhoneEvents
      BY <1>p, PhoneFields DEF PhoneEvents, Ev
    <3> HIDE DEF e
    <3>3. /\ events' \in Seq(PhoneEvents) /\ Len(events') <= BT_TASK_QLEN /\ lost' \in BOOLEAN
          /\ ~lost' => ~lost
          /\ \A w : Among(events, w) => Among(events', w)
      BY <1>p, <3>1, <3>2, OneEvent, DispatchKeeps
    <3>4. AvrcpShape'
      BY <1>p, <1>q, <2>1, <2>2, <3>1, <3>3
    <3>5. \A n : c # Reg(n)
      BY <2>4 DEF Reg
    <3>6. phone'.linked /\ ~lost' => \A m \in Notifications : Owed(m)'
      BY <1>o, <2>2, <3>1, <3>3, <3>5 DEF Owed
    <3> QED
      BY <3>4, <3>6, RenewedIsOwedNext
  <2> QED
    BY <2>3, <2>4
<1>7. CASE Handler
  BY <1>7, HandlerStep
<1>8. CASE Told \/ PlayPauseKey
  <2>1. /\ UNCHANGED << phone, commands, events, s_avrc_playing, s_avrc_volume, applied, shown, lost >>
        /\ pressing' \in {"none", "pause", "play"} /\ s_vol_ntf_pending' \in BOOLEAN
    BY <1>8 DEF Told, PlayPauseKey, AvrcpShape
  <2> QED
    BY <2>1, <1>2 DEF AvrcpShape
<1>9. ASSUME NEW up \in BOOLEAN, VolumeButton(up)
      PROVE  AvrcpIInv'
  <2>1. s_avrc_volume' \in 0 .. MAX_VOLUME /\ applied' = s_avrc_volume'
    BY <1>9, Steps DEF VolumeButton, AvrcpShape
  <2>2. commands' = commands /\ s_vol_ntf_pending' = s_vol_ntf_pending /\ Quiet
    BY <1>9 DEF VolumeButton
  <2>3. CASE s_vol_ntf_pending
    <3>1. /\ pressing' = "told" /\ phone' = [phone EXCEPT !.volume = s_avrc_volume']
          /\ Dispatched(<< Ev("register volume") >>)
      BY <1>9, <2>3 DEF VolumeButton
    <3>2. phone' \in Phones /\ phone'.registered = phone.registered /\ phone'.linked = phone.linked
      BY <1>p, <2>1, <3>1 DEF Phones
    <3>3. Ev("register volume") \in PhoneEvents
      BY DEF Ev, PhoneEvents
    <3>4. events' \in Seq(PhoneEvents) /\ Len(events') <= BT_TASK_QLEN /\ lost' \in BOOLEAN
      BY <1>p, <3>1, <3>3, OneEvent, DispatchKeeps
    <3>5. AvrcpShape'
      BY <2>1, <2>2, <3>1, <3>2, <3>4 DEF AvrcpShape, Quiet
    <3> QED
      BY <1>1, <2>2, <3>1, <3>2, <3>3, <3>5, OneEvent
  <2>4. CASE ~s_vol_ntf_pending
    <3>1. UNCHANGED << pressing, phone, events, lost >>
      BY <1>9, <2>4 DEF VolumeButton
    <3>2. AvrcpShape'
      BY <2>1, <2>2, <3>1 DEF AvrcpShape, Quiet
    <3> QED
      BY <1>2, <2>2, <3>1, <3>2
  <2> QED
    BY <2>3, <2>4
<1>10. CASE KeyReleased
  <2> DEFINE will == pressing = "play"
             e == [what |-> "status", playing |-> will]
  <2>1. /\ pressing' = "none"
        /\ UNCHANGED << commands, s_avrc_playing, s_avrc_volume, s_vol_ntf_pending, applied, shown >>
        /\ phone' = [phone EXCEPT !.playing = will,
                            !.registered = IF will = phone.playing THEN @ ELSE @ \ {"status"}]
        /\ IF will # phone.playing /\ "status" \in phone.registered
           THEN Dispatched(<< e >>) ELSE UNCHANGED << events, lost >>
    BY <1>10 DEF KeyReleased
  <2>2. will \in BOOLEAN
    OBVIOUS
  <2>3. e \in PhoneEvents /\ e.what = "status"
    BY <2>2 DEF PhoneEvents, Notifications
  <2>r. phone'.registered \in {phone.registered, phone.registered \ {"status"}}
        /\ (phone'.registered # phone.registered =>
              will # phone.playing /\ "status" \in phone.registered)
        /\ phone' \in Phones /\ phone'.linked = phone.linked
    BY <1>p, <2>1, <2>2 DEF Phones
  <2> HIDE DEF e, will
  <2>4. AvrcpShape'
    <3>1. events' \in Seq(PhoneEvents) /\ Len(events') <= BT_TASK_QLEN /\ lost' \in BOOLEAN
      BY <1>p, <2>1, <2>3, OneEvent, DispatchKeeps
    <3> QED
      BY <2>1, <2>r, <3>1 DEF AvrcpShape
  <2>5. CASE will # phone.playing /\ "status" \in phone.registered
    BY <1>1, <2>1, <2>3, <2>4, <2>5, <2>r, OneEvent
  <2>6. CASE ~(will # phone.playing /\ "status" \in phone.registered)
    BY <1>2, <2>1, <2>4, <2>6, <2>r
  <2> QED
    BY <2>5, <2>6
<1> QED
  BY <1>3, <1>4, <1>5, <1>6, <1>7, <1>8, <1>9, <1>10 DEF AvrcpNext

-----------------------------------------------------------------------------
(* While no two setters have met: one at a time changes what the LED shows, *)
(* what it does it does for the mode it has stored, and except between the  *)
(* new mode and the start of the timer the LED that is to blink will.       *)
Places == {"idle", "apply", "applied", "render", "stop", "switch", "toggle", "rearm", "rest",
           "fed", "level", "rgb"}
Calls == [LedTasks -> [at : Places, state : LedStates]]
Orders == {"start", "stop", "change"}
LedShape ==
  /\ LedTypeOK /\ call \in Calls
  /\ rgb \in [mode : LedModes, colour : {"none", "level"} \cup LedStates]
Switching(t) == At(t, "stop") \/ At(t, "switch")
Blinks == WillTick \/ ~At("daemon", "idle")
Unraced ==
  /\ \A t, u \in Setters : At(t, "idle") \/ At(u, "idle") \/ t = u
  /\ \A t \in Setters : Switching(t) => mode = Rendered(call[t].state)
  /\ mode \in Blinking /\ (\A t \in Setters : ~Switching(t)) => Blinks
LedIInv == LedShape /\ (~raced => Unraced)

LEMMA LedTasksAre ==
  /\ LedTasks = {"event", "fault", "web", "daemon", "audio"} /\ Setters = {"event", "fault", "web"}
  /\ Setters \subseteq LedTasks
BY DEF LedTasks, Setters

LEMMA ModesAre ==
  /\ \A s \in LedStates : Rendered(s) \in LedModes
  /\ \A s \in LedStates \ {"ERROR"} : RgbMode[s] \in LedModes
BY LedAssumption DEF Rendered, LedModes, Blinking, LedStates

LEMMA Gone ==
  ASSUME call \in Calls, NEW t \in LedTasks, NEW where \in Places, Go(t, where)
  PROVE  /\ call' \in Calls /\ call'[t].at = where
         /\ where # "idle" => call'[t].state = call[t].state
         /\ \A u \in LedTasks \ {t} : call'[u] = call[u]
<1>1. call[t] \in [at : Places, state : LedStates]
  BY DEF Calls
<1>2. LedIdle \in [at : Places, state : LedStates] /\ LedIdle.at = "idle"
  BY DEF LedIdle, Places, LedStates
<1> DEFINE c == IF where = "idle" THEN LedIdle ELSE [call[t] EXCEPT !.at = where]
<1>3. c \in [at : Places, state : LedStates] /\ c.at = where
      /\ (where # "idle" => c.state = call[t].state)
  BY <1>1, <1>2
<1>4. call' = [call EXCEPT ![t] = c]
  BY DEF Go
<1> HIDE DEF c
<1> QED
  BY <1>3, <1>4 DEF Calls

(* The commands of the timer: one is taken, or one is added. *)
LEMMA TimerAdded ==
  ASSUME timerQueue \in Seq(Orders), NEW c \in Orders, timerQueue' = Append(timerQueue, c)
  PROVE  timerQueue' \in Seq(Orders) /\ (c # "stop" => WillTick')
<1>1. /\ Append(timerQueue, c) \in Seq(Orders) /\ Append(timerQueue, c) # << >>
      /\ Append(timerQueue, c)[Len(Append(timerQueue, c))] = c
  OBVIOUS
<1> QED
  BY <1>1 DEF WillTick

LEMMA TimerTaken ==
  ASSUME timerQueue \in Seq(Orders), timerQueue # << >>, timerQueue' = Tail(timerQueue),
         armed' = (Head(timerQueue) # "stop")
  PROVE  timerQueue' \in Seq(Orders) /\ (WillTick => WillTick')
<1>1. /\ Tail(timerQueue) \in Seq(Orders) /\ Len(Tail(timerQueue)) = Len(timerQueue) - 1
      /\ Head(timerQueue) = timerQueue[1] /\ Len(timerQueue) \in Nat \ {0}
      /\ \A i \in 1 .. Len(timerQueue) - 1 : Tail(timerQueue)[i] = timerQueue[i + 1]
  OBVIOUS
<1>2. CASE Tail(timerQueue) = << >>
  <2>1. Len(timerQueue) = 1
    BY <1>1, <1>2
  <2> QED
    BY <1>1, <1>2, <2>1 DEF WillTick
<1>3. CASE Tail(timerQueue) # << >>
  <2>1. Len(timerQueue) - 1 \in 1 .. Len(timerQueue) - 1
    BY <1>1, <1>3
  <2>2. Tail(timerQueue)[Len(Tail(timerQueue))] = timerQueue[Len(timerQueue)]
    BY <1>1, <2>1
  <2> QED
    BY <1>1, <1>3, <2>2 DEF WillTick
<1> QED
  BY <1>2, <1>3

(* A call of a setter. *)
LEMMA CalledKeeps ==
  ASSUME LedIInv, NEW t \in Setters, NEW where \in {"apply", "render"}, NEW s \in LedStates,
         Called(t, where, s), UNCHANGED << mode, timerVars >>
  PROVE  call' \in Calls /\ raced' \in BOOLEAN /\ ledCalls' \in 0 .. MaxLedCalls
         /\ (~raced' => Unraced')
<1>1. /\ At(t, "idle") /\ call' = [call EXCEPT ![t] = [at |-> where, state |-> s]]
      /\ raced' = (raced \/ \E u \in Setters : ~At(u, "idle"))
      /\ ledCalls' = ledCalls + 1 /\ ledCalls < MaxLedCalls /\ ledCalls \in 0 .. MaxLedCalls
  BY DEF Called, LedIInv, LedShape, LedTypeOK
<1>2. call \in Calls /\ t \in LedTasks /\ "daemon" \in LedTasks /\ t # "daemon"
      /\ Setters \subseteq LedTasks
  BY LedTasksAre DEF LedIInv, LedShape
<1>3. [at |-> where, state |-> s] \in [at : Places, state : LedStates]
  BY DEF Places
<1>4. call' \in Calls /\ call'[t].at = where /\ \A u \in LedTasks \ {t} : call'[u] = call[u]
  BY <1>1, <1>2, <1>3 DEF Calls
<1>5. ledCalls' \in 0 .. MaxLedCalls
  BY <1>1, LedAssumption
<1>6. ASSUME ~raced'
      PROVE  Unraced'
  <2>1. ~raced /\ \A u \in Setters : At(u, "idle")
    BY <1>1, <1>6
  <2>2. \A u \in Setters : ~Switching(u) /\ ~Switching(u)'
    BY <1>2, <1>4, <2>1 DEF Switching, At
  <2>3. mode \in Blinking => Blinks
    BY <2>1, <2>2 DEF LedIInv, Unraced
  <2>4. Blinks' = Blinks
    BY <1>2, <1>4 DEF Blinks, WillTick, timerVars, At
  <2>5. \A u, v \in Setters : At(u, "idle")' \/ At(v, "idle")' \/ u = v
    BY <1>2, <1>4, <2>1 DEF At
  <2> QED
    BY <2>2, <2>3, <2>4, <2>5 DEF Unraced
<1>7. raced' \in BOOLEAN
  BY <1>1
<1> QED
  BY <1>4, <1>5, <1>6, <1>7

(* A task goes on, the mode as it is. *)
LEMMA MoveKeeps ==
  ASSUME LedIInv, NEW t \in LedTasks, NEW where \in Places, Go(t, where),
         mode' = mode, raced' = raced, t \in Setters => ~At(t, "idle"),
         where \in {"stop", "switch"} => t \in Setters /\ Switching(t),
         where \notin {"stop", "switch"} /\ mode \in Blinking /\ ((t \in Setters /\ Switching(t)) \/ Blinks) => Blinks'
  PROVE  call' \in Calls /\ (~raced' => Unraced')
<1>1. call \in Calls /\ Setters \subseteq LedTasks
  BY LedTasksAre DEF LedIInv, LedShape
<1>2. /\ call' \in Calls /\ call'[t].at = where
      /\ where # "idle" => call'[t].state = call[t].state
      /\ \A u \in LedTasks \ {t} : call'[u] = call[u]
  BY <1>1, Gone
<1>3. ASSUME ~raced
      PROVE  Unraced'
  <2>1. Unraced
    BY <1>3 DEF LedIInv
  <2>2. \A u \in Setters \ {t} : At(u, "idle")' = At(u, "idle") /\ Switching(u)' = Switching(u)
    BY <1>1, <1>2 DEF At, Switching
  <2>3. Switching(t)' <=> where \in {"stop", "switch"}
    BY <1>2 DEF At, Switching
  <2>4. \A u, v \in Setters : At(u, "idle")' \/ At(v, "idle")' \/ u = v
    BY <2>1, <2>2 DEF Unraced
  <2>5. \A u \in Setters : Switching(u)' => mode' = Rendered(call[u].state)'
    <3>1. ASSUME NEW u \in Setters \ {t}, Switching(u)'
          PROVE  mode' = Rendered(call[u].state)'
      BY <1>1, <1>2, <2>1, <2>2, <3>1 DEF Unraced, Rendered
    <3>2. ASSUME t \in Setters, Switching(t)'
          PROVE  mode' = Rendered(call[t].state)'
      BY <1>2, <2>1, <2>3, <3>2 DEF Unraced, Rendered
    <3> QED
      BY <3>1, <3>2
  <2>6. ASSUME mode' \in Blinking, \A u \in Setters : ~Switching(u)'
        PROVE  Blinks'
    <3>1. CASE t \in Setters
      <4>1. \A u \in Setters \ {t} : ~Switching(u)
        BY <2>2, <2>6
      <4>2. where \notin {"stop", "switch"}
        BY <2>3, <2>6, <3>1
      <4>3. Switching(t) \/ Blinks
        BY <2>1, <2>6, <4>1 DEF Unraced
      <4> QED
        BY <2>6, <3>1, <4>2, <4>3
    <3>2. CASE t \notin Setters
      <4>1. \A u \in Setters : ~Switching(u)
        BY <2>2, <2>6, <3>2
      <4>2. Blinks
        BY <2>1, <2>6, <4>1 DEF Unraced
      <4> QED
        BY <2>6, <3>2, <4>2
    <3> QED
      BY <3>1, <3>2
  <2> QED
    BY <2>4, <2>5, <2>6 DEF Unraced
<1> QED
  BY <1>2, <1>3

(* The mode is stored, by the one setter there is. *)
LEMMA StoreKeeps ==
  ASSUME LedIInv, NEW t \in Setters, StoreMode(t)
  PROVE  call' \in Calls /\ (~raced' => Unraced') /\ mode' \in LedModes
<1>1. call \in Calls /\ t \in LedTasks /\ Setters \subseteq LedTasks /\ "daemon" \in LedTasks
      /\ t # "daemon"
  BY LedTasksAre DEF LedIInv, LedShape
<1>2. /\ At(t, "render") /\ mode' = Rendered(call[t].state) /\ raced' = raced
      /\ Go(t, IF mode' = mode THEN "rest" ELSE "stop") /\ UNCHANGED timerVars
  BY DEF StoreMode
<1>3. mode' \in LedModes
  BY <1>1, <1>2, ModesAre DEF Calls
<1>4. (IF mode' = mode THEN "rest" ELSE "stop") \in Places \ {"idle"}
  BY DEF Places
<1>5. /\ call' \in Calls /\ call'[t].at = (IF mode' = mode THEN "rest" ELSE "stop")
      /\ call'[t].state = call[t].state
      /\ \A u \in LedTasks \ {t} : call'[u] = call[u]
  BY <1>1, <1>2, <1>4, Gone
<1>6. ASSUME ~raced
      PROVE  Unraced'
  <2>1. Unraced /\ ~At(t, "idle") /\ ~Switching(t)
    BY <1>2, <1>6 DEF LedIInv, At, Switching
  <2>2. \A u \in Setters \ {t} : At(u, "idle") /\ ~Switching(u)
    BY <2>1 DEF Unraced, At, Switching
  <2>3. \A u \in Setters \ {t} : At(u, "idle")' /\ ~Switching(u)'
    BY <1>1, <1>5, <2>2 DEF At, Switching
  <2>4. mode' = Rendered(call[t].state)'
    BY <1>2, <1>5 DEF Rendered
  <2>5. ASSUME mode' \in Blinking, \A u \in Setters : ~Switching(u)'
        PROVE  Blinks'
    <3>1. mode' = mode
      BY <1>5, <2>5 DEF Switching, At
    <3>2. Blinks
      BY <2>1, <2>2, <2>5, <3>1 DEF Unraced
    <3> QED
      BY <1>1, <1>2, <1>5, <3>2 DEF Blinks, WillTick, At, timerVars
  <2> QED
    BY <2>3, <2>4, <2>5 DEF Unraced
<1> QED
  BY <1>2, <1>3, <1>5, <1>6

LEMMA LedStep ==
  ASSUME LedIInv, LedNext
  PROVE  LedIInv'
<1> DEFINE Colours == {"none", "level"} \cup LedStates
           ShapeOK == /\ prevState \in LedStates /\ curState \in LedStates
                      /\ mode \in LedModes /\ on \in BOOLEAN /\ duty \in {"dark", "lit"}
                      /\ armed \in BOOLEAN /\ timerQueue \in Seq(Orders)
                      /\ rgb \in [mode : LedModes, colour : Colours] /\ errorLit \in BOOLEAN
           RestOK == call \in Calls /\ (~raced => Unraced)
           BoundsOK == raced \in BOOLEAN /\ ledCalls \in 0 .. MaxLedCalls
<1>i. ShapeOK /\ RestOK /\ BoundsOK
  BY DEF LedIInv, LedShape, LedTypeOK, Orders
<1>j. ShapeOK' /\ RestOK' /\ BoundsOK' => LedIInv'
  <2>1. ShapeOK' => rgb'.mode \in LedModes
    OBVIOUS
  <2> QED
    BY <2>1 DEF LedIInv, LedShape, LedTypeOK, Orders
<1>t. Setters \subseteq LedTasks /\ "daemon" \in LedTasks /\ "audio" \in LedTasks
      /\ "daemon" \notin Setters /\ "audio" \notin Setters
      /\ "event" \in Setters /\ "fault" \in Setters /\ "web" \in Setters
      /\ "ERROR" \in LedStates
  BY LedTasksAre DEF LedStates
<1>b. ASSUME NEW t \in LedTasks \ {"daemon"}, NEW where \in Places, Go(t, where), UNCHANGED timerVars
      PROVE  Blinks' = Blinks
  BY <1>b, <1>i, <1>t, Gone DEF Blinks, WillTick, At, timerVars
<1>1. CASE on_rtsp_event
  <2>1. PICK s \in LedStates : Called("event", "apply", s)
    BY <1>1 DEF on_rtsp_event
  <2>2. UNCHANGED <<stateVars, statusVars, timerVars, shownVars>>
    BY <1>1 DEF on_rtsp_event
  <2> QED
    BY <1>i, <1>j, <1>t, <2>1, <2>2, CalledKeeps DEF stateVars, statusVars, timerVars, shownVars
<1>2. ASSUME NEW error \in BOOLEAN, led_set_error(error)
      PROVE  LedIInv'
  <2>1. PICK s \in LedStates, w \in {"apply", "render"} : Called("fault", w, s)
    BY <1>2, <1>i, <1>t DEF led_set_error
  <2>2. UNCHANGED <<stateVars, statusVars, timerVars, shownVars>>
    BY <1>2 DEF led_set_error
  <2> QED
    BY <1>i, <1>j, <1>t, <2>1, <2>2, CalledKeeps DEF stateVars, statusVars, timerVars, shownVars
<1>3. CASE led_set_brightness
  <2>1. /\ Called("web", "render", curState) /\ UNCHANGED <<stateVars, mode, on, timerVars, shownVars>>
        /\ duty' \in {"lit", duty}
    BY <1>3 DEF led_set_brightness
  <2> QED
    BY <1>i, <1>j, <1>t, <2>1, CalledKeeps DEF stateVars, timerVars, shownVars
<1>4. ASSUME NEW t \in Setters, apply_state(t)
      PROVE  LedIInv'
  <2>1. /\ ~At(t, "idle") /\ UNCHANGED <<statusVars, timerVars, shownVars, raced, ledCalls>>
        /\ prevState' \in {prevState, curState} /\ curState' \in {curState, call[t].state}
        /\ \E w \in {"applied", "render"} : Go(t, w)
    BY <1>4 DEF apply_state, At
  <2>2. PICK w \in {"applied", "render"} : Go(t, w)
    BY <2>1
  <2>3. w \in Places /\ t \in LedTasks \ {"daemon"}
    BY <1>t DEF Places
  <2>4. ~Switching(t)
    BY <1>4 DEF apply_state, Switching, At
  <2>5. Blinks' = Blinks
    BY <1>b, <2>1, <2>2, <2>3
  <2>6. RestOK'
    BY <2>1, <2>2, <2>3, <2>4, <2>5, MoveKeeps DEF statusVars
  <2>7. call[t].state \in LedStates
    BY <1>i, <1>t DEF Calls
  <2> QED
    BY <1>i, <1>j, <2>1, <2>6, <2>7 DEF statusVars, timerVars, shownVars
<1>5. ASSUME NEW t \in Setters, StoreMode(t)
      PROVE  LedIInv'
  BY <1>5, <1>i, <1>j, StoreKeeps DEF StoreMode, stateVars, timerVars, shownVars
<1>6. ASSUME NEW t \in Setters, StopTimer(t)
      PROVE  LedIInv'
  <2>1. /\ At(t, "stop") /\ Go(t, "switch") /\ UNCHANGED <<stateVars, statusVars, armed, shownVars, raced, ledCalls>>
        /\ timerQueue' = timerQueue \/ timerQueue' = Append(timerQueue, "stop")
    BY <1>6 DEF StopTimer
  <2>2. "switch" \in Places /\ "stop" \in Orders /\ t \in LedTasks
    BY <1>t DEF Places, Orders
  <2>3. ~At(t, "idle") /\ Switching(t)
    BY <2>1 DEF At, Switching
  <2>4. RestOK'
    BY <2>1, <2>2, <2>3, MoveKeeps DEF statusVars
  <2>5. timerQueue' \in Seq(Orders)
    BY <1>i, <2>1, <2>2, TimerAdded
  <2> QED
    BY <1>i, <1>j, <2>1, <2>4, <2>5 DEF stateVars, statusVars, shownVars
<1>7. ASSUME NEW t \in Setters, SwitchMode(t)
      PROVE  LedIInv'
  <2> DEFINE want == Rendered(call[t].state)
  <2>1. At(t, "switch") /\ UNCHANGED <<stateVars, mode, armed, shownVars, raced, ledCalls>>
    BY <1>7 DEF SwitchMode
  <2>2. ~At(t, "idle") /\ Switching(t) /\ t \in LedTasks /\ "toggle" \in Places /\ "rest" \in Places
        /\ "start" \in Orders
    BY <1>t, <2>1 DEF At, Switching, Places, Orders
  <2>3. CASE want \in Blinking
    <3>1. on' = FALSE /\ timerQueue' = Append(timerQueue, "start") /\ duty' = duty /\ Go(t, "toggle")
      BY <1>7, <2>3 DEF SwitchMode
    <3>2. timerQueue' \in Seq(Orders) /\ WillTick'
      BY <1>i, <2>2, <3>1, TimerAdded
    <3>3. RestOK'
      BY <2>1, <2>2, <3>1, <3>2, MoveKeeps DEF Blinks
    <3> QED
      BY <1>i, <1>j, <2>1, <3>1, <3>2, <3>3 DEF stateVars, shownVars
  <2>4. CASE want \notin Blinking
    <3>1. duty' \in {"lit", "dark"} /\ UNCHANGED <<on, timerQueue>> /\ Go(t, "rest")
      BY <1>7, <2>4 DEF SwitchMode
    <3>2. CASE raced
      BY <1>i, <1>j, <2>1, <2>2, <3>1, <3>2, Gone DEF stateVars, shownVars
    <3>3. CASE ~raced
      <4>1. mode = want
        BY <1>i, <2>2, <3>3 DEF Unraced
      <4>2. RestOK'
        BY <2>1, <2>2, <2>4, <3>1, <4>1, MoveKeeps
      <4> QED
        BY <1>i, <1>j, <2>1, <3>1, <4>2 DEF stateVars, shownVars
    <3> QED
      BY <3>2, <3>3
  <2> QED
    BY <2>3, <2>4
<1>8. ASSUME NEW t \in Setters, RenderRest(t)
      PROVE  LedIInv'
  <2>1. At(t, "rest") /\ Go(t, "idle") /\ UNCHANGED <<stateVars, statusVars, timerVars, raced, ledCalls>>
    BY <1>8 DEF RenderRest
  <2>2. ~At(t, "idle") /\ ~Switching(t) /\ t \in LedTasks \ {"daemon"} /\ "idle" \in Places
    BY <1>t, <2>1 DEF At, Switching, Places
  <2>3. Blinks' = Blinks
    BY <1>b, <2>1, <2>2
  <2>4. RestOK'
    BY <2>1, <2>2, <2>3, MoveKeeps DEF statusVars
  <2>5. rgb' \in [mode : LedModes, colour : Colours] /\ errorLit' \in BOOLEAN
    <3>1. call[t].state \in LedStates
      BY <1>i, <1>t DEF Calls
    <3>2. errorLit' \in BOOLEAN
      BY <1>8, LedAssumption DEF RenderRest
    <3>3. CASE call[t].state = "ERROR"
      BY <1>8, <1>i, <1>t, <3>2, <3>3 DEF RenderRest
    <3>4. CASE call[t].state # "ERROR"
      BY <1>8, <1>i, <3>1, <3>2, <3>4, ModesAre DEF RenderRest
    <3> QED
      BY <3>3, <3>4
  <2> QED
    BY <1>i, <1>j, <2>1, <2>4, <2>5 DEF stateVars, statusVars, timerVars
<1>9. ASSUME NEW t \in LedTasks, status_timer_cb(t)
      PROVE  LedIInv'
  <2>1. CASE At(t, "toggle")
    <3>1. /\ Go(t, "rearm") /\ on' = ~on /\ duty' \in {"lit", "dark"}
          /\ UNCHANGED <<stateVars, mode, timerVars, shownVars, raced, ledCalls>>
      BY <1>9, <2>1 DEF status_timer_cb, At
    <3>2. ~At(t, "idle") /\ ~Switching(t) /\ "rearm" \in Places
      BY <2>1 DEF At, Switching, Places
    <3>3. Blinks => Blinks'
      <4>1. CASE t = "daemon"
        BY <1>i, <3>1, <3>2, <4>1, Gone DEF Blinks, At
      <4>2. CASE t # "daemon"
        BY <1>b, <3>1, <3>2, <4>2
      <4> QED
        BY <4>1, <4>2
    <3>4. RestOK'
      BY <3>1, <3>2, <3>3, MoveKeeps
    <3> QED
      BY <1>i, <1>j, <3>1, <3>4 DEF stateVars, timerVars, shownVars
  <2>2. CASE ~At(t, "toggle")
    <3>1. /\ At(t, "rearm") /\ Go(t, IF t = "daemon" THEN "idle" ELSE "rest")
          /\ timerQueue' = (IF mode \in Blinking THEN Append(timerQueue, "change") ELSE timerQueue)
          /\ UNCHANGED <<stateVars, statusVars, armed, shownVars, raced, ledCalls>>
      BY <1>9, <2>2 DEF status_timer_cb
    <3>2. ~At(t, "idle") /\ ~Switching(t) /\ "change" \in Orders
          /\ (IF t = "daemon" THEN "idle" ELSE "rest") \in Places \ {"stop", "switch"}
      BY <3>1 DEF At, Switching, Places, Orders
    <3>3. timerQueue' \in Seq(Orders) /\ (mode \in Blinking => WillTick')
      BY <1>i, <3>1, <3>2, TimerAdded
    <3>4. RestOK'
      BY <3>1, <3>2, <3>3, MoveKeeps DEF Blinks, statusVars
    <3> QED
      BY <1>i, <1>j, <3>1, <3>3, <3>4 DEF stateVars, statusVars, shownVars
  <2> QED
    BY <2>1, <2>2
<1>10. CASE TimerCommand
  <2>1. /\ At("daemon", "idle") /\ timerQueue # <<>> /\ timerQueue' = Tail(timerQueue)
        /\ armed' = (Head(timerQueue) # "stop")
        /\ UNCHANGED <<stateVars, statusVars, shownVars, call, raced, ledCalls>>
    BY <1>10 DEF TimerCommand
  <2>2. timerQueue' \in Seq(Orders) /\ (WillTick => WillTick')
    BY <1>i, <2>1, TimerTaken
  <2>3. Blinks => Blinks'
    BY <2>1, <2>2 DEF Blinks, At
  <2>4. \A t \in Setters : Switching(t)' = Switching(t) /\ \A w : At(t, w)' = At(t, w)
    BY <2>1 DEF Switching, At
  <2>5. RestOK'
    BY <1>i, <2>1, <2>3, <2>4 DEF Unraced, Rendered, statusVars
  <2>6. armed' \in BOOLEAN
    BY <2>1
  <2> QED
    BY <1>i, <1>j, <2>1, <2>2, <2>5, <2>6 DEF stateVars, statusVars, shownVars
<1>11. CASE TimerExpires
  <2>1. /\ armed' = FALSE /\ Go("daemon", "toggle")
        /\ UNCHANGED <<stateVars, statusVars, timerQueue, shownVars, raced, ledCalls>>
    BY <1>11 DEF TimerExpires
  <2>2. "toggle" \in Places
    BY DEF Places
  <2>3. Blinks'
    BY <1>i, <1>t, <2>1, <2>2, Gone DEF Blinks, At
  <2>4. RestOK'
    BY <1>t, <2>1, <2>2, <2>3, MoveKeeps DEF statusVars
  <2> QED
    BY <1>i, <1>j, <2>1, <2>4 DEF stateVars, statusVars, shownVars
<1>12. CASE led_audio_feed \/ ShowLevel
  <2>1. /\ UNCHANGED <<stateVars, mode, on, timerVars, errorLit, raced, ledCalls>>
        /\ duty' \in {duty, "dark", "lit"} /\ rgb' \in {rgb, [rgb EXCEPT !.colour = "level"]}
        /\ \E w \in {"fed", "level", "rgb", "idle"} : Go("audio", w)
    BY <1>12 DEF led_audio_feed, ShowLevel, statusVars, shownVars
  <2>2. PICK w \in {"fed", "level", "rgb", "idle"} : Go("audio", w)
    BY <2>1
  <2>3. w \in Places
    BY DEF Places
  <2>4. Blinks' = Blinks
    BY <1>b, <1>t, <2>1, <2>2, <2>3
  <2>5. RestOK'
    BY <1>t, <2>1, <2>2, <2>3, <2>4, MoveKeeps
  <2>6. rgb' \in [mode : LedModes, colour : Colours]
    BY <1>i, <2>1
  <2> QED
    BY <1>i, <1>j, <2>1, <2>5, <2>6 DEF stateVars, timerVars
<1> QED
  BY <1>1, <1>2, <1>3, <1>4, <1>5, <1>6, <1>7, <1>8, <1>9, <1>10, <1>11, <1>12 DEF LedNext

-----------------------------------------------------------------------------
(* What is drawn, while nothing is marked dirty and nothing is being told,  *)
(* is what the display holds, as far as the drawing has come.               *)
Words == Texts \cup {NoText}
Parts == {"led", "board", "display", "bluetooth", "app"}
States == {"STANDBY", "CONNECTED", "PLAYING", "PAUSED"}
Displays == [state : States, title : Words, artist : Words, duration : Int, position : Int,
             sync : Int, dirty : BOOLEAN]
Pictures == [at : {"rests", "state", "artist", "copied"}, title : Words, artist : Words, state : States]
ToStore == {NoCallback, <<"dirty">>} \cup {<<a>> : a \in Words} \cup {<<t, a>> : t \in Words, a \in Words}
DisplayShape ==
  /\ display \in Displays /\ drawing \in Pictures /\ onPanel \in Pictures /\ callback \in ToStore
  /\ listeners \in Seq(Parts) /\ Len(listeners) <= MAX_LISTENERS /\ booted \in 0 .. 5
  /\ seconds \in 0 .. MaxSeconds /\ notices \in 0 .. MaxNotices
Drawn ==
  panel = "oled" /\ callback = NoCallback /\ ~display.dirty =>
    /\ drawing.at = "rests" => UpToDate
    /\ drawing.at = "artist" => drawing.state = display.state /\ drawing.title = display.title
OledDraws == panel = "oled" => drawing.at # "copied"
DisplayIInv == DisplayShape /\ Drawn /\ OledDraws

LEMMA DisplayFields ==
  ASSUME NEW d \in Displays
  PROVE  /\ d.state \in States /\ d.title \in Words /\ d.artist \in Words
         /\ d.duration \in Int /\ d.position \in Int /\ d.sync \in Int /\ d.dirty \in BOOLEAN
BY DEF Displays

LEMMA PictureFields ==
  ASSUME NEW p \in Pictures
  PROVE  /\ p.at \in {"rests", "state", "artist", "copied"}
         /\ p.title \in Words /\ p.artist \in Words /\ p.state \in States
BY DEF Pictures

LEMMA WordsAre == NoText \in Words
BY DEF Words

LEMMA BlankIs ==
  /\ Blank \in Displays /\ Resting \in Pictures /\ Resting.at = "rests"
  /\ \A s \in States : \A b \in BOOLEAN :
       [Blank EXCEPT !.state = s, !.dirty = b] \in Displays
  /\ \A b \in BOOLEAN : [Blank EXCEPT !.dirty = b] \in Displays
<1>1. Blank \in Displays
  BY WordsAre DEF Blank, Displays, States
<1>2. Resting \in Pictures /\ Resting.at = "rests"
  BY WordsAre DEF Resting, Pictures, States
<1>3. \A d \in Displays : \A s \in States : [d EXCEPT !.state = s] \in Displays
  BY DEF Displays
<1>4. \A d \in Displays : \A b \in BOOLEAN : [d EXCEPT !.dirty = b] \in Displays
  BY DEF Displays
<1> QED
  BY <1>1, <1>2, <1>3, <1>4

LEMMA EstimateIsInt ==
  ASSUME NEW d \in Displays, seconds \in Int
  PROVE  Estimate(d) \in Int
BY DisplayFields DEF Estimate

(* An event reaches the display: what the callback stores at once and what  *)
(* it still has to store.                                                   *)
LEMMA EmitKeeps ==
  ASSUME DisplayIInv, NEW fields \in Displays, NEW t \in Words, NEW a \in Words,
         rtsp_events_emit(fields, <<t, a>>)
  PROVE  DisplayIInv'
<1>1. /\ notices' \in 0 .. MaxNotices /\ UNCHANGED <<listenerVars, panel, drawing, onPanel, seconds>>
  BY DisplayAssumption DEF rtsp_events_emit, DisplayIInv, DisplayShape
<1>2. CASE panel = "oled"
  <2>1. display' = fields /\ callback' = <<t, a>>
    BY <1>2 DEF rtsp_events_emit
  <2>2. callback' \in ToStore /\ callback' # NoCallback
    BY <2>1 DEF ToStore, NoCallback
  <2> QED
    BY <1>1, <2>1, <2>2 DEF DisplayIInv, DisplayShape, Drawn, OledDraws, listenerVars
<1>3. CASE panel # "oled"
  <2>1. display' = [fields EXCEPT !.title = t, !.artist = a, !.dirty = TRUE]
        /\ callback' = NoCallback
    BY <1>3 DEF rtsp_events_emit
  <2>2. display' \in Displays
    BY <2>1 DEF Displays
  <2>3. callback' \in ToStore
    BY <2>1 DEF ToStore
  <2> QED
    BY <1>1, <1>3, <2>2, <2>3 DEF DisplayIInv, DisplayShape, Drawn, OledDraws, listenerVars
<1> QED
  BY <1>2, <1>3

LEMMA MetadataKeeps ==
  ASSUME DisplayIInv, NEW meta \in [title : Words, artist : Words, position : Int, duration : Int],
         METADATA(meta)
  PROVE  DisplayIInv'
<1> DEFINE changed == meta.title # NoText /\ meta.title # display.title
           Text(new, old) == IF new = NoText THEN old ELSE new
           moves == IF panel = "oled" THEN OledMoves(meta.position, changed)
                    ELSE LcdMoves(meta.position, changed)
           fields == [display EXCEPT !.duration = IF meta.duration # 0 THEN meta.duration ELSE @,
                          !.position = IF moves THEN meta.position ELSE @,
                          !.sync = IF moves \/ panel = "st7789" THEN seconds ELSE @]
           t == Text(meta.title, display.title)
           a == Text(meta.artist, display.artist)
<1>1. rtsp_events_emit(fields, <<t, a>>)
  BY DEF METADATA
<1>2. display \in Displays /\ seconds \in Int
  BY DisplayAssumption DEF DisplayIInv, DisplayShape
<1>3. t \in Words /\ a \in Words
  BY <1>2, DisplayFields
<1>4. fields \in Displays
  <2> DEFINE du == IF meta.duration # 0 THEN meta.duration ELSE display.duration
             po == IF moves THEN meta.position ELSE display.position
             sy == IF moves \/ panel = "st7789" THEN seconds ELSE display.sync
  <2>1. du \in Int /\ po \in Int /\ sy \in Int
    BY <1>2, DisplayFields
  <2>2. fields = [display EXCEPT !.duration = du, !.position = po, !.sync = sy]
    OBVIOUS
  <2> HIDE DEF du, po, sy, fields
  <2> QED
    BY <1>2, <2>1, <2>2 DEF Displays
<1> HIDE DEF fields, t, a
<1> QED
  BY <1>1, <1>3, <1>4, EmitKeeps

LEMMA DisplayStep ==
  ASSUME DisplayIInv, DisplayNext
  PROVE  DisplayIInv'
<1>i. /\ display \in Displays /\ drawing \in Pictures /\ onPanel \in Pictures /\ seconds \in Int
      /\ display.dirty \in BOOLEAN /\ display.title \in Words /\ display.artist \in Words
      /\ display.state \in States
  BY DisplayAssumption, DisplayFields DEF DisplayIInv, DisplayShape
<1>1. CASE rtsp_events_register
  <2>1. booted' = booted + 1 /\ booted < 5 /\ booted' \in 1 .. 5
    BY <1>1 DEF rtsp_events_register, BootOrder, DisplayIInv, DisplayShape
  <2>2. BootOrder[booted'] \in Parts
    <3>1. BootOrder \in [1 .. 5 -> Parts]
      BY DEF BootOrder, Parts
    <3> QED
      BY <2>1, <3>1
  <2>3. listeners' \in Seq(Parts) /\ Len(listeners') <= MAX_LISTENERS
    <3> DEFINE p == BootOrder[booted']
    <3>1. listeners' = listeners \/ (Len(listeners) < MAX_LISTENERS /\ listeners' = Append(listeners, p))
      BY <1>1 DEF rtsp_events_register
    <3>2. p \in Parts
      BY <2>2
    <3> HIDE DEF p
    <3>3. listeners \in Seq(Parts) /\ Len(listeners) <= MAX_LISTENERS /\ Len(listeners) \in Nat
      BY DEF DisplayIInv, DisplayShape
    <3>4. Append(listeners, p) \in Seq(Parts) /\ Len(Append(listeners, p)) = Len(listeners) + 1
      BY <3>2, <3>3
    <3> QED
      BY <3>1, <3>3, <3>4, DisplayAssumption
  <2>4. UNCHANGED <<build, panel, display, callback, drawing, onPanel, seconds, notices>>
    BY <1>1 DEF rtsp_events_register
  <2> QED
    BY <2>1, <2>3, <2>4 DEF DisplayIInv, DisplayShape, Drawn, OledDraws, UpToDate
<1>2. CASE Second
  BY <1>2, DisplayAssumption
     DEF Second, DisplayIInv, DisplayShape, Drawn, OledDraws, UpToDate, listenerVars
<1>3. CASE CLIENT_CONNECTED \/ DISCONNECTED
  <2>1. PICK fields \in Displays : rtsp_events_emit(fields, <<NoText, NoText>>)
    BY <1>3, <1>i, BlankIs DEF CLIENT_CONNECTED, DISCONNECTED, States
  <2> QED
    BY <2>1, EmitKeeps, WordsAre
<1>4. CASE PLAYING \/ PAUSED
  <2>1. [display EXCEPT !.state = "PLAYING", !.sync = seconds] \in Displays
    BY <1>i DEF Displays, States
  <2>2. [display EXCEPT !.position = Estimate(display), !.sync = -1, !.state = "PAUSED"] \in Displays
    <3> DEFINE e == Estimate(display)
               d1 == [display EXCEPT !.position = e]
               d2 == [d1 EXCEPT !.sync = -1]
    <3>1. e \in Int
      BY <1>i, EstimateIsInt
    <3>2. [display EXCEPT !.position = e, !.sync = -1, !.state = "PAUSED"] = [d2 EXCEPT !.state = "PAUSED"]
      OBVIOUS
    <3> HIDE DEF e
    <3>3. d1 \in Displays
      BY <1>i, <3>1 DEF Displays
    <3> HIDE DEF d1
    <3>4. d2 \in Displays
      BY <3>3 DEF Displays
    <3> HIDE DEF d2
    <3>5. [d2 EXCEPT !.state = "PAUSED"] \in Displays
      BY <3>4 DEF Displays, States
    <3> QED
      BY <3>2, <3>5 DEF e
  <2>3. PICK fields \in Displays : rtsp_events_emit(fields, <<display.title, display.artist>>)
    BY <1>4, <2>1, <2>2 DEF PLAYING, PAUSED, KeepTexts
  <2> QED
    BY <1>i, <2>3, EmitKeeps
<1>5. CASE handle_set_parameter
  <2> DEFINE Metas == [title : Words, artist : Words, position : Int, duration : Int]
  <2>1. ASSUME NEW start \in 0 .. (TsWrap - 1), NEW elapsed \in 0 .. TrackLength
        PROVE  parse_progress(start, elapsed) \in Metas
    <3> DEFINE current == (start + elapsed) % TsWrap
               end == (start + TrackLength) % TsWrap
               Since(ts) == IF ts >= start THEN ts - start ELSE Junk
    <3>1. TsWrap \in Nat \ {0} /\ TrackLength \in Nat /\ start \in Nat /\ elapsed \in Nat
      BY DisplayAssumption
    <3>2. current \in Int /\ end \in Int /\ Junk \in Int
      BY <3>1 DEF Junk
    <3>3. Since(current) \in Int /\ Since(end) \in Int
      <4> HIDE DEF current, end
      <4> QED
        BY <3>1, <3>2
    <3>4. parse_progress(start, elapsed) =
            [title |-> NoText, artist |-> NoText, position |-> Since(current), duration |-> Since(end)]
      BY DEF parse_progress
    <3> HIDE DEF Since, current, end
    <3> QED
      BY <3>3, <3>4, WordsAre
  <2>2. ASSUME NEW t \in Words, NEW a \in Words
        PROVE  parse_dmap_metadata(t, a) \in Metas
    BY DEF parse_dmap_metadata
  <2>3. ASSUME NEW t \in Words, NEW e \in 0 .. TrackLength
        PROVE  ParsePlist(t, t, e) \in Metas
    BY DisplayAssumption DEF ParsePlist
  <2>4. PICK meta \in Metas : METADATA(meta)
    BY <1>5, <2>1, <2>2, <2>3 DEF handle_set_parameter, Words
  <2> QED
    BY <2>4, MetadataKeeps
<1>6. CASE StoreNext
  <2>1. callback # NoCallback /\ UNCHANGED <<listenerVars, panel, drawing, onPanel, seconds, notices>>
    BY <1>6 DEF StoreNext
  <2>2. /\ display' \in Displays /\ callback' \in ToStore
        /\ callback' = NoCallback => display'.dirty
    <3>1. ASSUME callback = <<"dirty">>
          PROVE  display' \in Displays /\ callback' \in ToStore /\ display'.dirty
      <4>1. display' = [display EXCEPT !.dirty = TRUE] /\ callback' = NoCallback
        BY <1>6, <3>1 DEF StoreNext
      <4>2. display' \in Displays /\ display'.dirty
        BY <1>i, <4>1 DEF Displays
      <4>3. callback' \in ToStore
        BY <4>1 DEF ToStore
      <4> QED
        BY <4>2, <4>3
    <3>2. ASSUME NEW a \in Words, callback = <<a>>, callback # <<"dirty">>
          PROVE  display' \in Displays /\ callback' \in ToStore /\ callback' # NoCallback
      <4>1. display' = [display EXCEPT !.artist = a] /\ callback' = <<"dirty">>
        BY <1>6, <3>2 DEF StoreNext
      <4> QED
        BY <1>i, <4>1 DEF Displays, ToStore, NoCallback
    <3>3. ASSUME NEW t \in Words, NEW a \in Words, callback = <<t, a>>
          PROVE  display' \in Displays /\ callback' \in ToStore /\ callback' # NoCallback
      <4>1. display' = [display EXCEPT !.title = t] /\ callback' = <<a>>
        BY <1>6, <3>3 DEF StoreNext
      <4> QED
        BY <1>i, <4>1 DEF Displays, ToStore, NoCallback
    <3>4. callback \in ToStore
      BY DEF DisplayIInv, DisplayShape
    <3>5. \/ callback = <<"dirty">>
          \/ \E a \in Words : callback = <<a>>
          \/ \E t \in Words, a \in Words : callback = <<t, a>>
      BY <2>1, <3>4 DEF ToStore
    <3> QED
      BY <3>1, <3>2, <3>3, <3>5
  <2> QED
    BY <2>1, <2>2 DEF DisplayIInv, DisplayShape, Drawn, OledDraws, listenerVars
<1>7. CASE OledTask \/ LcdTask
  <2>1. /\ drawing.at = "rests" /\ UNCHANGED <<listenerVars, panel, callback, onPanel, seconds, notices>>
        /\ display' = [display EXCEPT !.dirty = FALSE] /\ drawing' = [drawing EXCEPT !.at = "state"]
    BY <1>7 DEF OledTask, LcdTask
  <2>2. display' \in Displays /\ drawing' \in Pictures /\ drawing'.at = "state"
    BY <1>i, <2>1 DEF Displays, Pictures
  <2> QED
    BY <2>1, <2>2 DEF DisplayIInv, DisplayShape, Drawn, OledDraws, listenerVars
<1>8. CASE display_render
  <2>1. /\ panel = "oled" /\ UNCHANGED <<listenerVars, panel, callback, seconds, notices>> /\ display' = display
    BY <1>8 DEF display_render
  <2>2. CASE drawing.at = "state"
    <3>1. /\ onPanel' = onPanel
          /\ drawing' = [drawing EXCEPT !.at = "artist", !.state = display.state, !.title = display.title]
      BY <1>8, <2>2 DEF display_render
    <3>2. drawing' \in Pictures /\ drawing'.at = "artist" /\ drawing'.state = display.state
          /\ drawing'.title = display.title
      BY <1>i, <3>1 DEF Pictures
    <3> QED
      BY <2>1, <3>1, <3>2 DEF DisplayIInv, DisplayShape, Drawn, OledDraws, listenerVars
  <2>3. CASE drawing.at # "state"
    <3>1. /\ drawing.at = "artist" /\ drawing' = Resting
          /\ onPanel' = [drawing EXCEPT !.at = "rests", !.artist = display.artist]
      BY <1>8, <2>3 DEF display_render
    <3>2. onPanel' \in Pictures /\ onPanel'.state = drawing.state /\ onPanel'.title = drawing.title
          /\ onPanel'.artist = display.artist
      BY <1>i, <3>1 DEF Pictures
    <3>3. drawing' \in Pictures /\ drawing'.at = "rests"
      BY <3>1, BlankIs
    <3>4. Drawn'
      BY <2>1, <3>1, <3>2, <3>3 DEF DisplayIInv, Drawn, UpToDate
    <3> QED
      BY <2>1, <3>2, <3>3, <3>4 DEF DisplayIInv, DisplayShape, OledDraws, listenerVars
  <2> QED
    BY <2>2, <2>3
<1>9. CASE ui_update
  <2>1. /\ panel = "st7789" /\ UNCHANGED <<listenerVars, panel, display, callback, seconds, notices>>
    BY <1>9 DEF ui_update
  <2>2. drawing' \in Pictures /\ onPanel' \in Pictures
    <3>1. [at |-> "copied", title |-> display.title, artist |-> display.artist,
           state |-> display.state] \in Pictures
      BY <1>i DEF Pictures
    <3>2. [drawing EXCEPT !.at = "rests"] \in Pictures
      BY <1>i DEF Pictures
    <3> QED
      BY <1>9, <1>i, <3>1, <3>2, BlankIs DEF ui_update
  <2> QED
    BY <2>1, <2>2 DEF DisplayIInv, DisplayShape, Drawn, OledDraws, listenerVars
<1> QED
  BY <1>1, <1>2, <1>3, <1>4, <1>5, <1>6, <1>7, <1>8, <1>9 DEF DisplayNext

-----------------------------------------------------------------------------
(* The invariant that every step of every part keeps. *)
ControlsIInv ==
  /\ ButtonsIInv /\ SpeakerIInv /\ ControlIInv /\ AvrcpIInv /\ LedIInv /\ DisplayIInv

(* A part that rests keeps its own. *)
LEMMA ButtonsRest == ASSUME ButtonsIInv, UNCHANGED buttonVars PROVE ButtonsIInv'
BY DEF buttonVars, ButtonsIInv, ButtonsTypeOK, NoClickLost, PressesAreEdges, ToCome

LEMMA SpeakerRests == ASSUME SpeakerIInv, UNCHANGED speakerVars PROVE SpeakerIInv'
BY DEF speakerVars, appVars, SpeakerIInv, SpeakerTypeOK, HeldLong, NoVolumeTaps,
       PowerOffIsDeliberate

LEMMA ControlRests ==
  ASSUME ControlIInv, UNCHANGED << controlVars, dacpVars >>
  PROVE  ControlIInv'
BY DEF controlVars, dacpVars, ControlIInv, ControlShape, DacpIInv, DacpShape, OneSender,
       TokenToItsSender

LEMMA AvrcpRests == ASSUME AvrcpIInv, UNCHANGED avrcpVars PROVE AvrcpIInv'
BY DEF avrcpVars, AvrcpIInv, AvrcpShape, Renewed, Waits

LEMMA LedRests == ASSUME LedIInv, UNCHANGED ledVars PROVE LedIInv'
BY DEF ledVars, LedIInv, LedShape, LedTypeOK, Unraced, Switching, At, Rendered, Blinks, WillTick

LEMMA DisplayRests == ASSUME DisplayIInv, UNCHANGED displayVars PROVE DisplayIInv'
BY DEF displayVars, DisplayIInv, DisplayShape, Drawn, OledDraws, UpToDate

(* Where each part starts. *)
LEMMA NothingQueued == ASSUME NEW S PROVE << >> \in Seq(S) /\ Len(<< >>) = 0
OBVIOUS

LEMMA ButtonsStart == ASSUME ButtonsInit PROVE ButtonsIInv
<1> USE DEF ButtonsInit
<1>1. timers \in [Timers -> Int] /\ \A t \in Timers : timers[t] = -1
  BY DEF Off
<1>2. \A t \in Timers : timers[t] \in Off .. (Periods[t] + REPEAT_INTERVAL)
  BY <1>1, PeriodsAre, ButtonsAssumption DEF Off
<1>3. down \in [Ids -> BOOLEAN] /\ pressed \in [Ids -> BOOLEAN] /\ asleep \in BOOLEAN
  OBVIOUS
<1>4. click_count \in 0 .. MaxEdges /\ edges \in 0 .. MaxEdges
  BY ButtonsAssumption
<1>5. actions \in Seq(Ids \cup {"channel"}) /\ Len(actions) <= ACTION_QUEUE_LEN
  BY NothingQueued, ButtonsAssumption
<1>6. ButtonsTypeOK
  BY <1>2, <1>3, <1>4, <1>5 DEF ButtonsTypeOK
<1>7. NoClickLost
  BY <1>1 DEF NoClickLost, Off, Timers
<1>8. PressesAreEdges /\ click_count <= 1
  <2>1. ~down["play"] /\ click_count = 0 /\ edges = 0
    BY DEF Ids
  <2>2. ToCome = 0
    BY <2>1 DEF ToCome
  <2> QED
    BY <2>1, <2>2 DEF PressesAreEdges
<1> QED
  BY <1>1, <1>6, <1>7, <1>8 DEF ButtonsIInv

LEMMA SpeakerStarts == ASSUME SpeakerInit PROVE SpeakerIInv
<1> USE DEF SpeakerInit
<1>1. Idle \in Contexts /\ Idle.state = "IDLE" /\ "POWER" \in Keys /\ {"VOL_UP", "VOL_DOWN"} \subseteq Keys
  BY IdleContext, KeysAre DEF Idle
<1>2. s_btns \in [Keys -> Contexts] /\ \A k \in Keys : s_btns[k].state = "IDLE"
  BY <1>1
<1>3. SpeakerTypeOK
  BY <1>2, SpeakerAssumption DEF SpeakerTypeOK, Contexts
<1> QED
  BY <1>1, <1>2, <1>3 DEF SpeakerIInv, HeldLong, NoVolumeTaps, PowerOffIsDeliberate

LEMMA ControlStarts == ASSUME ControlInit PROVE ControlIInv
<1> USE DEF ControlInit, DacpInit
<1>1. dacp \in Sessions /\ ~dacp.valid
  <2>1. Cleared \in Sessions /\ ~Cleared.valid
    BY DEF Cleared, Sessions, Ids0, NoPort
  <2> QED
    BY <2>1
<1>2. DacpShape
  <2>1. cmds \in Seq(Commands) /\ Len(cmds) <= CMD_QUEUE_LEN
    BY NothingQueued, DacpAssumption
  <2>2. sessions \in 0 .. MaxSessions /\ worker = WorkerIdle
    BY DacpAssumption
  <2> QED
    BY <1>1, <2>1, <2>2 DEF DacpShape
<1>3. worker \notin Requests
  BY DEF WorkerIdle, Requests
<1>4. OneSender /\ TokenToItsSender
  BY <1>1, <1>3 DEF OneSender, TokenToItsSender
<1>5. ControlShape
  BY VolumeAssumption DEF ControlShape, Pending, Volumes
<1> QED
  BY <1>2, <1>4, <1>5 DEF ControlIInv, DacpIInv

LEMMA AvrcpStarts == ASSUME AvrcpInit PROVE AvrcpIInv
<1> USE DEF AvrcpInit
<1>1. phone \in Phones /\ ~phone.linked
  BY AvrcpAssumption DEF Phones
<1>2. events \in Seq(PhoneEvents) /\ Len(events) <= BT_TASK_QLEN /\ commands \in Seq(PhoneCommands)
  BY NothingQueued, AvrcpAssumption
<1>3. s_avrc_volume \in 0 .. MAX_VOLUME /\ applied \in 0 .. MAX_VOLUME
  BY AvrcpAssumption
<1>4. s_avrc_playing \in BOOLEAN /\ s_vol_ntf_pending \in BOOLEAN /\ lost \in BOOLEAN
  OBVIOUS
<1>5. shown \in {"none", "playing", "paused"} /\ pressing \in {"none", "told", "play", "pause"}
  OBVIOUS
<1>6. AvrcpShape
  BY <1>1, <1>2, <1>3, <1>4, <1>5 DEF AvrcpShape
<1> QED
  BY <1>1, <1>6 DEF AvrcpIInv, Renewed

LEMMA LedStarts == ASSUME LedInit PROVE LedIInv
<1> DEFINE first == [at |-> "render", state |-> "STANDBY"]
           rest == [at |-> "idle", state |-> "STANDBY"]
<1> USE DEF LedInit
<1>1. call = [t \in LedTasks |-> IF t = "event" THEN first ELSE rest]
  BY DEF LedIdle
<1>2. first \in [at : Places, state : LedStates] /\ rest \in [at : Places, state : LedStates]
      /\ first.at = "render" /\ rest.at = "idle"
  BY DEF Places, LedStates
<1> HIDE DEF first, rest
<1>3. call \in Calls
  BY <1>1, <1>2 DEF Calls
<1>4. rgb \in [mode : LedModes, colour : {"none", "level"} \cup LedStates] /\ rgb.mode \in LedModes
  BY DEF LedModes
<1>5. on \in BOOLEAN /\ armed \in BOOLEAN /\ errorLit \in BOOLEAN /\ raced \in BOOLEAN
  OBVIOUS
<1>6. timerQueue \in Seq({"start", "stop", "change"})
  BY NothingQueued
<1>7. {prevState, curState} \subseteq LedStates /\ mode \in LedModes /\ duty \in {"dark", "lit"}
  BY DEF LedStates, LedModes
<1>8. ledCalls \in 0 .. MaxLedCalls
  BY LedAssumption
<1>9. LedTypeOK
  BY <1>4, <1>5, <1>6, <1>7, <1>8 DEF LedTypeOK
<1>10. Unraced
  <2>1. \A t \in Setters : call[t].at \in {"idle", "render"} /\ (t = "event" \/ call[t].at = "idle")
    BY <1>1, <1>2 DEF Setters, LedTasks
  <2>2. mode \notin Blinking
    BY DEF Blinking
  <2> HIDE DEF LedInit
  <2> QED
    BY <2>1, <2>2 DEF Unraced, At, Switching
<1> QED
  BY <1>3, <1>4, <1>9, <1>10 DEF LedIInv, LedShape

LEMMA DisplayStarts == ASSUME DisplayInit PROVE DisplayIInv
<1>1. display = [Blank EXCEPT !.dirty = TRUE] /\ drawing = Resting /\ onPanel = Resting
  BY DEF DisplayInit
<1>2. display \in Displays /\ display.dirty
  <2>1. Blank \in Displays
    BY WordsAre DEF Blank, Displays, States
  <2>2. display = [Blank EXCEPT !.dirty = TRUE]
    BY <1>1
  <2> HIDE DEF Blank
  <2> QED
    BY <2>1, <2>2 DEF Displays
<1>4. drawing \in Pictures /\ onPanel \in Pictures /\ drawing.at = "rests"
  <2>1. Resting \in Pictures /\ Resting.at = "rests"
    BY WordsAre DEF Resting, Pictures, States
  <2>2. drawing = Resting /\ onPanel = Resting
    BY <1>1
  <2> QED
    BY <2>1, <2>2
<1>5. listeners \in Seq(Parts) /\ Len(listeners) <= MAX_LISTENERS
  BY NothingQueued, DisplayAssumption DEF DisplayInit
<1>6. callback \in ToStore /\ booted \in 0 .. 5 /\ seconds \in 0 .. MaxSeconds /\ notices \in 0 .. MaxNotices
  BY DisplayAssumption DEF DisplayInit, ToStore
<1>7. DisplayShape
  BY <1>2, <1>4, <1>5, <1>6 DEF DisplayShape
<1> QED
  BY <1>2, <1>4, <1>7 DEF DisplayIInv, Drawn, OledDraws

LEMMA ControlsStart == ASSUME ControlsInit PROVE ControlsIInv
BY ButtonsStart, SpeakerStarts, ControlStarts, AvrcpStarts, LedStarts, DisplayStarts
   DEF ControlsInit, ControlsIInv

LEMMA ControlsStep ==
  ASSUME ControlsIInv, [ControlsNext]_controlsVars
  PROVE  ControlsIInv'
<1> USE DEF ControlsIInv
<1>0. CASE UNCHANGED controlsVars
  BY <1>0, ButtonsRest, SpeakerRests, ControlRests, AvrcpRests, LedRests, DisplayRests
     DEF controlsVars
<1>1. CASE ButtonsNext /\ UNCHANGED <<speakerVars, controlVars, dacpVars, avrcpVars, ledVars, displayVars>>
  BY <1>1, ButtonsStep, SpeakerRests, ControlRests, AvrcpRests, LedRests, DisplayRests
<1>2. CASE SpeakerNext /\ UNCHANGED <<buttonVars, controlVars, dacpVars, avrcpVars, ledVars, displayVars>>
  BY <1>2, ButtonsRest, SpeakerStep, ControlRests, AvrcpRests, LedRests, DisplayRests
<1>3. CASE ControlNext /\ UNCHANGED <<buttonVars, speakerVars, avrcpVars, ledVars, displayVars>>
  BY <1>3, ButtonsRest, SpeakerRests, ControlStep, AvrcpRests, LedRests, DisplayRests
<1>4. CASE AvrcpNext /\ UNCHANGED <<buttonVars, speakerVars, controlVars, dacpVars, ledVars, displayVars>>
  BY <1>4, ButtonsRest, SpeakerRests, ControlRests, AvrcpStep, LedRests, DisplayRests
<1>5. CASE LedNext /\ UNCHANGED <<buttonVars, speakerVars, controlVars, dacpVars, avrcpVars, displayVars>>
  BY <1>5, ButtonsRest, SpeakerRests, ControlRests, AvrcpRests, LedStep, DisplayRests
<1>6. CASE DisplayNext /\ UNCHANGED <<buttonVars, speakerVars, controlVars, dacpVars, avrcpVars, ledVars>>
  BY <1>6, ButtonsRest, SpeakerRests, ControlRests, AvrcpRests, LedRests, DisplayStep
<1> QED
  BY <1>0, <1>1, <1>2, <1>3, <1>4, <1>5, <1>6 DEF ControlsNext

(* It says all that the run checks of types and of things lost. *)
LEMMA ControlsHold == ASSUME ControlsIInv PROVE ControlsInv
<1> USE DEF ControlsIInv
<1>1. ButtonsTypeOK /\ NoClickLost
  BY DEF ButtonsIInv
<1>2. SpeakerTypeOK
  BY DEF SpeakerIInv
<1>3. ControlTypeOK
  <2>1. DacpShape /\ ControlShape
    BY DEF ControlIInv, DacpIInv
  <2>2. dacp \in Sessions /\ worker \in {WorkerIdle} \cup Queries \cup Requests
    BY <2>1 DEF DacpShape
  <2>3. worker.do \in {"idle", "query", "get"}
    BY <2>2 DEF WorkerIdle, Queries, Requests
  <2>4. DacpTypeOK
    BY <2>1, <2>2, <2>3, SessionFields DEF DacpShape, DacpTypeOK, Ids0
  <2>5. button.at \in {"idle", "cache", "rest"} /\ asking.at \in {"idle", "cache", "post"}
    BY <2>1 DEF ControlShape, Pending, Ready
  <2> QED
    BY <2>1, <2>4, <2>5 DEF ControlShape, ControlTypeOK
<1>4. AvrcpTypeOK
  BY PhoneFields DEF AvrcpIInv, AvrcpShape, AvrcpTypeOK
<1>5. LedTypeOK
  BY DEF LedIInv, LedShape
<1>6. BlinkGoesOn
  <2>1. ASSUME mode \in Blinking, ~raced, \A t \in Setters : At(t, "idle")
        PROVE  Blinks
    <3>1. \A t \in Setters : ~Switching(t)
      BY <2>1 DEF Switching, At
    <3> QED
      BY <2>1, <3>1 DEF LedIInv, Unraced
  <2> QED
    BY <2>1 DEF BlinkGoesOn, Blinks
<1>7. DisplayTypeOK
  BY DisplayFields, PictureFields DEF DisplayIInv, DisplayShape, DisplayTypeOK, States, Words
<1>8. OledUpToDate
  BY DEF DisplayIInv, Drawn, OledUpToDate
<1> QED
  BY <1>1, <1>2, <1>3, <1>4, <1>5, <1>6, <1>7, <1>8 DEF ControlsInv, TypeOK

(* The invariant holds in every reachable state. *)
THEOREM ControlsAlways == ControlsSpec => []ControlsIInv
<1>1. ControlsInit => ControlsIInv
  BY ControlsStart
<1>2. ControlsIInv /\ [ControlsNext]_controlsVars => ControlsIInv'
  BY ControlsStep
<1> QED
  BY <1>1, <1>2, PTL DEF ControlsSpec

(* No click of a button is lost, whatever bounces come between (buttons.c); *)
(* a LED that is to blink goes on blinking unless two setters have met      *)
(* (led.c); the OLED comes to show what the program knows, whichever event  *)
(* the drawing meets (display.c); and every variable keeps its range and    *)
(* every bounded queue its bound.                                           *)
THEOREM NothingGetsLost == ControlsSpec => []ControlsInv
<1>1. ControlsIInv => ControlsInv
  BY ControlsHold
<1> QED
  BY <1>1, ControlsAlways, PTL

(* The token of a sender only ever goes to that sender's address, whatever  *)
(* session is set or cleared while the worker of dacp_client.c is without   *)
(* the mutex: between two locks it uses only what it copied under one.      *)
THEOREM TokenIsKept == ControlsSpec => []TokenToItsSender
<1>1. ControlsIInv => TokenToItsSender
  BY DEF ControlsIInv, ControlIInv, DacpIInv
<1> QED
  BY <1>1, ControlsAlways, PTL

(* A notification of the Bluetooth source is registered for, or the         *)
(* registration is on its way, or an event waits that will send it          *)
(* (process_avrc_event in a2dp_sink.c), as long as no event was let go.     *)
THEOREM AlwaysRenewed == ControlsSpec => []Renewed
<1>1. ControlsIInv => Renewed
  BY DEF ControlsIInv, AvrcpIInv
<1> QED
  BY <1>1, ControlsAlways, PTL

(* The speaker goes to sleep only after POWER was found down for as many    *)
(* polls in a row as the long press takes (rl_buttons.c, rl_app.c).         *)
THEOREM SleepIsMeant == ControlsSpec => []PowerOffIsDeliberate
<1>1. ControlsIInv => PowerOffIsDeliberate
  BY DEF ControlsIInv, SpeakerIInv
<1> QED
  BY <1>1, ControlsAlways, PTL
=============================================================================
