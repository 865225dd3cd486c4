-------------------------------- MODULE Avrcp --------------------------------
(***************************************************************************)
(* AVRCP with a Bluetooth source (a2dp_sink.c).  As controller the speaker *)
(* registers for notifications, each of which fires once and is registered *)
(* again by the handler of its event; as target it answers the source's    *)
(* registration for the volume.  The stack's callbacks only queue events   *)
(* for the bt_app task, which lets one go when its queue stays full.       *)
(***************************************************************************)
EXTENDS Integers, Sequences, FiniteSets

CONSTANTS BT_TASK_QLEN,
          MAX_VOLUME, VOLUME_UNIT, BOOT_VOLUME,
          MaxChanges         \* bound: changes at the source, and presses of a button

ASSUME AvrcpAssumption ==
  /\ BT_TASK_QLEN \in Nat \ {0} /\ MaxChanges \in Nat
  /\ MAX_VOLUME \in Nat /\ VOLUME_UNIT \in 1 .. MAX_VOLUME /\ BOOT_VOLUME \in 0 .. MAX_VOLUME

VARIABLES
  phone,                     \* the source: linked, playing, registered, volume, waits
  commands,                  \* to the source, in order
  events,                    \* s_bt_task_queue
  s_avrc_playing, s_avrc_volume, s_vol_ntf_pending,
  applied,                   \* the volume the DAC was last given
  shown,                     \* what RTSP listeners were last told: playing or paused
  pressing,                  \* the button task: a key not yet released, the source told, or none
  lost,                      \* some event was let go
  changes

avrcpVars == << phone, commands, events, s_avrc_playing, s_avrc_volume, s_vol_ntf_pending,
                applied, shown, pressing, lost, changes >>

Notifications == {"track", "status", "position"}
Ev(what) == [what |-> what]
Reg(n) == [do |-> "register", n |-> n]
MetaCmd == [do |-> "metadata"]
StatusCmd == [do |-> "status"]

(* bt_stack_evt_handler restores the volume. *)
AvrcpInit ==
  /\ phone = [linked |-> FALSE, playing |-> FALSE, registered |-> {}, volume |-> BOOT_VOLUME,
              waits |-> FALSE]
  /\ commands = << >> /\ events = << >>
  /\ s_avrc_playing = FALSE /\ s_avrc_volume = BOOT_VOLUME /\ s_vol_ntf_pending = FALSE
  /\ applied = BOOT_VOLUME /\ shown = "none" /\ pressing = "none" /\ lost = FALSE /\ changes = 0

-----------------------------------------------------------------------------
(* bt_app_work_dispatch: 10 ms for a place in the queue, then it is lost. *)
Dispatched(more) ==
  IF Len(events) + Len(more) <= BT_TASK_QLEN
  THEN events' = events \o more /\ UNCHANGED lost
  ELSE events' = events /\ lost' = TRUE

(* The source: it connects, plays or pauses, changes its track or its      *)
(* volume; one registered notification at most comes of it.                *)
Own == UNCHANGED << s_avrc_playing, s_avrc_volume, s_vol_ntf_pending, applied, shown, pressing >>
Change == changes < MaxChanges /\ changes' = changes + 1

Link ==
  /\ ~phone.linked /\ Change
  /\ phone' = [phone EXCEPT !.linked = TRUE, !.waits = TRUE]
  /\ Dispatched(<< Ev("connected"), Ev("register volume") >>)
  /\ Own /\ UNCHANGED commands
Notify(n) ==
  /\ phone.linked /\ Change
  /\ phone' = [phone EXCEPT !.registered = @ \ {n},
                            !.playing = IF n = "status" THEN ~@ ELSE @]
  /\ IF n \in phone.registered
     THEN Dispatched(<< [what |-> n, playing |-> phone'.playing] >>)
     ELSE UNCHANGED << events, lost >>
  /\ Own /\ UNCHANGED commands
SetAbsolute(v) ==
  /\ phone.linked /\ v # phone.volume /\ Change
  /\ phone' = [phone EXCEPT !.volume = v]
  /\ Dispatched(<< [what |-> "set volume", volume |-> v] >>)
  /\ Own /\ UNCHANGED commands

(* It answers a command. *)
Answer ==
  /\ commands # << >> /\ commands' = Tail(commands)
  /\ LET c == Head(commands) IN
       IF c.do = "register"
       THEN phone' = [phone EXCEPT !.registered = @ \cup {c.n}] /\ UNCHANGED << events, lost >>
       ELSE /\ UNCHANGED phone
            /\ Dispatched(<< IF c.do = "status" THEN [what |-> "play status", playing |-> phone.playing]
                                                ELSE Ev("metadata") >>)
  /\ Own /\ UNCHANGED changes

-----------------------------------------------------------------------------
(* The handlers, in the bt_app task. *)
Take == events # << >> /\ events' = Tail(events)
Event == Head(events)
Is(what) == events # << >> /\ Event.what = what
Send(list) == commands' = commands \o list
Sounds(p) == s_avrc_playing' = p /\ shown' = IF p THEN "playing" ELSE "paused"
Quiet == UNCHANGED << s_avrc_playing, shown >>
Volumeless == UNCHANGED << s_avrc_volume, s_vol_ntf_pending, applied, pressing, phone, lost, changes >>

(* bt_avrc_ct_evt_handler. *)
Connected ==
  /\ Is("connected") /\ Take
  /\ Send(<< MetaCmd, StatusCmd, Reg("track"), Reg("status"), Reg("position") >>)
  /\ Quiet /\ Volumeless
Metadata == Is("metadata") /\ Take /\ UNCHANGED commands /\ Quiet /\ Volumeless
PlayStatus ==
  /\ Is("play status") /\ Take /\ Sounds(Event.playing)
  /\ UNCHANGED commands /\ Volumeless
TrackChange ==
  /\ Is("track") /\ Take /\ Send(<< MetaCmd, StatusCmd, Reg("track") >>)
  /\ Quiet /\ Volumeless
(* A mutant: the notification is registered when a song starts only. *)
StatusOnce ==
  /\ Is("status") /\ Take /\ Sounds(Event.playing)
  /\ Send(IF Event.playing THEN << StatusCmd, Reg("status") >> ELSE << StatusCmd >>)
  /\ Volumeless
StatusChange ==
  /\ Is("status") /\ Take /\ Sounds(Event.playing)
  /\ Send(<< StatusCmd, Reg("status") >>)
  /\ Volumeless
PositionChange == Is("position") /\ Take /\ Send(<< Reg("position") >>) /\ Quiet /\ Volumeless

(* bt_avrc_tg_evt_handler. *)
SetVolume ==
  /\ Is("set volume") /\ Take
  /\ s_avrc_volume' = Event.volume /\ applied' = Event.volume
  /\ Quiet /\ UNCHANGED << s_vol_ntf_pending, pressing, phone, lost, changes, commands >>
RegisterVolume ==
  /\ Is("register volume") /\ Take
  /\ s_vol_ntf_pending' = TRUE
  /\ phone' = [phone EXCEPT !.volume = s_avrc_volume]          \* the interim response
  /\ Quiet /\ UNCHANGED << s_avrc_volume, applied, pressing, lost, changes, commands >>

Handler ==
  \/ Connected \/ Metadata \/ PlayStatus \/ TrackChange \/ StatusChange \/ PositionChange
  \/ SetVolume \/ RegisterVolume

-----------------------------------------------------------------------------
(* The button task: bt_a2dp_send_volume_up and _down; then                 *)
(* notify_volume_changed, which tells the source and then forgets that it  *)
(* had registered; a source that was told registers again.                 *)
Up(v) == IF v <= MAX_VOLUME - VOLUME_UNIT THEN v + VOLUME_UNIT ELSE MAX_VOLUME
Down(v) == IF v >= VOLUME_UNIT THEN v - VOLUME_UNIT ELSE 0
VolumeButton(up) ==
  /\ pressing = "none" /\ Change
  /\ s_avrc_volume' = IF up THEN Up(s_avrc_volume) ELSE Down(s_avrc_volume)
  /\ applied' = s_avrc_volume'
  /\ IF s_vol_ntf_pending
     THEN /\ pressing' = "told"
          /\ phone' = [phone EXCEPT !.volume = s_avrc_volume']
          /\ Dispatched(<< Ev("register volume") >>)
     ELSE UNCHANGED << pressing, phone, events, lost >>
  /\ Quiet /\ UNCHANGED << s_vol_ntf_pending, commands >>
Told ==
  /\ pressing = "told" /\ pressing' = "none" /\ s_vol_ntf_pending' = FALSE
  /\ UNCHANGED << phone, commands, events, s_avrc_playing, s_avrc_volume, applied, shown, lost, changes >>

(* bt_a2dp_send_playpause, by what the source was last heard to do; the    *)
(* key is released 50 ms after it was pressed.                             *)
PlayPauseKey ==
  /\ pressing = "none" /\ phone.linked /\ Change
  /\ pressing' = IF s_avrc_playing THEN "pause" ELSE "play"
  /\ UNCHANGED << phone, commands, events, s_avrc_playing, s_avrc_volume, s_vol_ntf_pending,
                  applied, shown, lost >>
KeyReleased ==
  /\ pressing \in {"play", "pause"} /\ pressing' = "none"
  /\ LET will == pressing = "play" IN
       /\ phone' = [phone EXCEPT !.playing = will,
                                 !.registered = IF will = phone.playing THEN @ ELSE @ \ {"status"}]
       /\ IF will # phone.playing /\ "status" \in phone.registered
          THEN Dispatched(<< [what |-> "status", playing |-> will] >>)
          ELSE UNCHANGED << events, lost >>
  /\ UNCHANGED << commands, s_avrc_playing, s_avrc_volume, s_vol_ntf_pending, applied, shown, changes >>

AvrcpNext ==
  \/ Link \/ Answer \/ Handler \/ Told \/ PlayPauseKey \/ KeyReleased
  \/ \E n \in Notifications : Notify(n)
  \/ \E v \in {0, MAX_VOLUME} : SetAbsolute(v)
  \/ \E up \in BOOLEAN : VolumeButton(up)

-----------------------------------------------------------------------------
AvrcpTypeOK ==
  /\ phone.registered \subseteq Notifications /\ Len(events) <= BT_TASK_QLEN
  /\ {s_avrc_volume, applied, phone.volume} \subseteq 0 .. MAX_VOLUME
  /\ shown \in {"none", "playing", "paused"} /\ pressing \in {"none", "told", "play", "pause"}
  /\ s_avrc_playing \in BOOLEAN /\ s_vol_ntf_pending \in BOOLEAN /\ lost \in BOOLEAN

(* A notification that fired is registered again: unless the queue let an  *)
(* event go, each is registered at the source, on its way there, or waits  *)
(* in the queue as an event whose handler will register it.                *)
Waits(what) == \E i \in DOMAIN events : events[i].what = what
Renewed ==
  phone.linked /\ ~lost =>
    \A n \in Notifications :
      \/ n \in phone.registered \/ Waits(n) \/ Waits("connected")
      \/ \E i \in DOMAIN commands : commands[i] = Reg(n)

(* a2dp_sink.c: the source is told "if the phone previously registered".   *)
(* One that has registered is known to have, unless its event was let go.  *)
VolumeWillBeTold ==
  phone.linked /\ ~lost /\ pressing = "none" => s_vol_ntf_pending \/ Waits("register volume")
=============================================================================
