--------------------------- MODULE PlaybackControl ---------------------------
(***************************************************************************)
(* What a button does (playback_control.c): local volume and mute, or a    *)
(* command to the sender, by the source.  The button task shares the       *)
(* volume with the RTSP task of the connection (rtsp_conn.c, settings.c)   *)
(* and the DAC with both; nothing locks either.                            *)
(***************************************************************************)
EXTENDS DacpClient

CONSTANTS VOLUME_MIN, VOLUME_MAX, VOLUME_DEFAULT, VOLUME_STEP,
          NotLoaded,         \* no volume stored yet
          MaxPresses,        \* bound: actions of the buttons
          MaxAsks            \* bound: requests of the sender and changes of source

ASSUME VolumeAssumption ==
  /\ VOLUME_MIN \in Int /\ VOLUME_MAX \in Int /\ VOLUME_STEP \in Nat \ {0}
  /\ VOLUME_DEFAULT \in VOLUME_MIN .. VOLUME_MAX /\ NotLoaded \notin VOLUME_MIN .. VOLUME_MAX

VARIABLES
  active,                    \* s_source
  conn,                      \* the current slot has a connection, with its volume
  muted, pre_mute,           \* s_muted, s_pre_mute_db
  setting, stored,           \* g_volume_db, and its copy in NVS
  dac,                       \* the level the DAC was last given
  button, asking,            \* what the button task and the RTSP task are in the middle of
  avrcp,                     \* passthrough commands sent to a Bluetooth source
  presses, asks

controlVars == << active, conn, muted, pre_mute, setting, stored, dac, button, asking,
                  avrcp, presses, asks >>

Volumes == VOLUME_MIN .. VOLUME_MAX
Ready == [at |-> "idle"]
Loaded == IF setting = NotLoaded THEN VOLUME_DEFAULT ELSE setting
clamp_volume(v) == IF v < VOLUME_MIN THEN VOLUME_MIN ELSE IF v > VOLUME_MAX THEN VOLUME_MAX ELSE v

ControlInit ==
  /\ DacpInit
  /\ active = "none" /\ conn = FALSE /\ muted = FALSE /\ pre_mute = VOLUME_DEFAULT
  /\ setting = NotLoaded /\ stored = NotLoaded /\ dac = VOLUME_DEFAULT
  /\ button = Ready /\ asking = Ready /\ avrcp = 0 /\ presses = 0 /\ asks = 0

-----------------------------------------------------------------------------
(* playback_control_set_source, from main.c, which stops the RTSP server   *)
(* before AirPlay stops being the source.                                  *)
playback_control_set_source(s) ==
  /\ asks < MaxAsks /\ asks' = asks + 1
  /\ ~conn /\ asking = Ready
  /\ active' = s /\ muted' = FALSE
  /\ UNCHANGED << dacpVars, conn, pre_mute, setting, stored, dac, button, asking, avrcp, presses >>

(* settings_set_volume in two steps, the DAC and then the cached value;    *)
(* nothing at all when the value is the cached one.                        *)
Same(v) == setting # NotLoaded /\ setting = v
SetDac(v) == dac' = IF Same(v) THEN dac ELSE v
SetCached(v) == setting' = v

Pressed == button = Ready /\ presses < MaxPresses /\ presses' = presses + 1

(* airplay_adjust_volume: through the connection if there is one, then the *)
(* DAC, or the level to return to, and the sender told.                    *)
Volume(step) ==
  /\ Pressed /\ active = "airplay"
  /\ LET new == clamp_volume(Loaded + step) IN
       IF conn
       THEN /\ SetDac(new)
            /\ button' = [at |-> IF Same(new) THEN "rest" ELSE "cache", new |-> new]
       ELSE button' = [at |-> "rest", new |-> new] /\ UNCHANGED dac
  /\ UNCHANGED << dacpVars, active, conn, muted, pre_mute, setting, stored, asking, avrcp, asks >>
VolumeCached ==
  /\ button.at = "cache" /\ SetCached(button.new)
  /\ button' = [button EXCEPT !.at = "rest"]
  /\ UNCHANGED << dacpVars, active, conn, muted, pre_mute, stored, dac, asking, avrcp, presses, asks >>
VolumeRest ==
  /\ button.at = "rest" /\ button' = Ready
  /\ IF muted THEN pre_mute' = button.new /\ UNCHANGED dac
     ELSE dac' = button.new /\ UNCHANGED pre_mute
  /\ cmds' = Enqueued("volume")
  /\ UNCHANGED << dacp, worker, reached, sessions, active, conn, muted, setting, stored, asking,
                  avrcp, presses, asks >>

(* playback_control_toggle_mute, and what play/pause falls back to. *)
toggle_mute ==
  IF ~muted THEN /\ pre_mute' = Loaded /\ dac' = VOLUME_MIN /\ muted' = TRUE
  ELSE /\ dac' = pre_mute /\ muted' = FALSE /\ UNCHANGED pre_mute

(* playback_control_play_pause, for AirPlay. *)
PlayPause ==
  /\ Pressed /\ active = "airplay"
  /\ IF dacp_is_active
     THEN cmds' = Enqueued("playpause") /\ UNCHANGED << muted, pre_mute, dac >>
     ELSE toggle_mute /\ UNCHANGED cmds
  /\ UNCHANGED << dacp, worker, reached, sessions, active, conn, setting, stored, button, asking,
                  avrcp, asks >>

(* playback_control_next, playback_control_prev. *)
Skip ==
  /\ Pressed /\ active = "airplay" /\ cmds' = Enqueued("skip")
  /\ UNCHANGED << dacp, worker, reached, sessions, active, conn, muted, pre_mute, setting, stored,
                  dac, button, asking, avrcp, asks >>

(* Any button while Bluetooth plays is a command to its source; without a  *)
(* source it is nothing.                                                   *)
Passthrough ==
  /\ Pressed /\ active # "airplay"
  /\ avrcp' = IF active = "bluetooth" THEN avrcp + 1 ELSE avrcp
  /\ UNCHANGED << dacpVars, active, conn, muted, pre_mute, setting, stored, dac, button, asking, asks >>

-----------------------------------------------------------------------------
(* The RTSP task: a connection, its requests, a volume of the sender       *)
(* (rtsp_conn_set_volume), RECORD, which writes the connection's volume    *)
(* to the DAC, and the end, which stores the volume.                       *)
Asked == asking = Ready /\ active = "airplay" /\ asks < MaxAsks /\ asks' = asks + 1

Connect(s) ==
  /\ Asked /\ ~conn /\ conn' = TRUE
  /\ IF s = NoId THEN UNCHANGED dacpVars ELSE dacp_set_session(s)
  /\ asking' = IF s = NoId \/ SameSession(s) THEN Ready ELSE [at |-> "post"]
  /\ UNCHANGED << active, muted, pre_mute, setting, stored, dac, button, avrcp, presses >>
ConnectPosts ==
  /\ asking.at = "post" /\ PostDiscovery /\ asking' = Ready
  /\ UNCHANGED << active, conn, muted, pre_mute, setting, stored, dac, button, avrcp, presses, asks >>
SenderVolume(v) ==
  /\ Asked /\ conn /\ ~Same(v) /\ SetDac(v) /\ asking' = [at |-> "cache", new |-> v]
  /\ UNCHANGED << dacpVars, active, conn, muted, pre_mute, setting, stored, button, avrcp, presses >>
SenderVolumeCached ==
  /\ asking.at = "cache" /\ SetCached(asking.new) /\ asking' = Ready
  /\ UNCHANGED << dacpVars, active, conn, muted, pre_mute, stored, dac, button, avrcp, presses, asks >>
Record ==
  /\ Asked /\ conn /\ dac' = Loaded
  /\ UNCHANGED << dacpVars, active, conn, muted, pre_mute, setting, stored, button, asking, avrcp, presses >>
Close ==
  /\ Asked /\ conn /\ conn' = FALSE /\ dacp_clear_session
  /\ stored' = IF setting = NotLoaded THEN stored ELSE setting
  /\ UNCHANGED << active, muted, pre_mute, setting, dac, button, asking, avrcp, presses >>

ButtonTask ==
  \/ \E step \in {VOLUME_STEP, -VOLUME_STEP} : Volume(step)
  \/ VolumeCached \/ VolumeRest \/ PlayPause \/ Skip \/ Passthrough
RtspTaskOfControl ==
  \/ \E s \in DacpSenders \cup {NoId} : Connect(s)
  \/ ConnectPosts
  \/ \E v \in Volumes : SenderVolume(v)
  \/ SenderVolumeCached \/ Record \/ Close
ControlNext ==
  \/ ButtonTask \/ RtspTaskOfControl
  \/ \E s \in {"none", "airplay", "bluetooth"} : playback_control_set_source(s)
  \/ DacpNext /\ UNCHANGED controlVars

-----------------------------------------------------------------------------
ControlTypeOK ==
  /\ DacpTypeOK /\ active \in {"none", "airplay", "bluetooth"}
  /\ {setting, stored} \subseteq Volumes \cup {NotLoaded} /\ {dac, pre_mute} \subseteq Volumes
  /\ conn \in BOOLEAN /\ muted \in BOOLEAN
  /\ button.at \in {"idle", "cache", "rest"} /\ asking.at \in {"idle", "cache", "post"}

(* dacp_client.c, execute_dacp_request: after a failure "invalidate port   *)
(* so next command re-discovers".  So a session whose port is unknown, and *)
(* whose sender was not found missing, has its discovery ahead.            *)
Rediscovers ==
  dacp.valid /\ dacp.port = NoPort /\ ~dacp.failed /\ asking.at # "post" =>
    \/ worker.do = "query" \/ \E i \in DOMAIN cmds : cmds[i] = Discover

(* playback_control.c, play/pause without DACP: "mute/unmute the DAC       *)
(* locally", and of a volume set meanwhile, "update saved level so unmute  *)
(* restores the new volume".  So a muted DAC stays at its lowest level.    *)
MutedIsSilent == muted /\ button = Ready /\ asking = Ready => dac = VOLUME_MIN
=============================================================================
