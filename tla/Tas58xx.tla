------------------------------ MODULE Tas58xx ------------------------------
(***************************************************************************)
(* The amplifier of the Esparagus board: the TAS5825M driver               *)
(* (dac_tas58xx.c) under its register mutex, and those who call it: the    *)
(* tasks that emit the RTSP events (power and equaliser of board.c: the    *)
(* clients', two at a takeover, the event port's, the buttons'), the       *)
(* web page (equaliser), whoever sets the volume, and the speaker fault    *)
(* task with its interrupt.  What the chip loses in DEEP_SLEEP is the      *)
(* chip's choice ("all registers may revert to defaults").                 *)
(***************************************************************************)
EXTENDS Integers

CONSTANTS Volumes,           \* the volumes asked for
          UNITY,             \* DIG_VOL_0DB
          Gains,             \* settings of the equaliser
          NoGains,           \* none saved; also the flat bands of the chip
          Emitters,          \* the tasks that emit RTSP events
          MaxEqs             \* bound: equaliser settings from the web page

ASSUME AmplifierAssumption ==
  /\ UNITY \notin Volumes /\ NoGains \notin Gains /\ MaxEqs \in Nat
  /\ {"nobody", "webTask", "spk"} \cap Emitters = {}

VARIABLES
  power, mute,               \* DEVICE_CTRL2
  DIG_VOL, SAP_CTRL, USE_DEFAULT_COEFFS, coefficients, bands,
  s_dsp_defaults_written,
  holder, ctrl2,             \* s_reg_mutex, and DEVICE_CTRL2 as its holder read it
  rtsp, restored,            \* each emitting task, and the gains it read
  webTask, wanted, eqs,          \* the web page's request
  saved,                     \* the gains in NVS
  pin, bits, spk,            \* the fault pin, notifications, the fault task
  speaker_fault_active,
  ordered, asked             \* history: the last power mode and volume asked for

chipVars == << power, mute, DIG_VOL, SAP_CTRL, USE_DEFAULT_COEFFS, coefficients, bands,
               s_dsp_defaults_written >>
taskVars == << rtsp, restored, webTask, wanted, eqs, saved >>
faultVars == << pin, bits, spk, speaker_fault_active >>
amplifierVars == << chipVars, holder, ctrl2, taskVars, faultVars, ordered, asked >>

(* tas58xx_init, iot_board_init: the registers are written, then OFF, then *)
(* the saved volume.                                                       *)
AmplifierInit ==
  /\ power = "deep_sleep" /\ mute = FALSE
  /\ DIG_VOL \in Volumes /\ asked = DIG_VOL
  /\ SAP_CTRL = TRUE /\ USE_DEFAULT_COEFFS = TRUE /\ coefficients = FALSE /\ bands = NoGains
  /\ s_dsp_defaults_written = FALSE /\ holder = "nobody" /\ ctrl2 = << power, mute >>
  /\ rtsp = [e \in Emitters |-> "idle"] /\ restored = [e \in Emitters |-> NoGains]
  /\ webTask = "idle" /\ wanted = NoGains /\ eqs = 0 /\ saved \in Gains \union {NoGains}
  /\ pin = FALSE /\ bits = {} /\ spk = "waiting" /\ speaker_fault_active = FALSE
  /\ ordered = "deep_sleep"

-----------------------------------------------------------------------------
(* tas58xx_set_power_mode, all of it under the mutex.  DEVICE_CTRL2 is      *)
(* written whole: its mute bit is cleared.  Leaving DEEP_SLEEP may cost     *)
(* every register; the mode that finds it there writes them again.          *)
Reverted(reprogram) ==
  /\ SAP_CTRL' = reprogram /\ DIG_VOL' = UNITY
  /\ USE_DEFAULT_COEFFS' = TRUE /\ coefficients' = FALSE /\ bands' = NoGains
Kept(reprogram) ==
  /\ DIG_VOL' = IF reprogram THEN UNITY ELSE DIG_VOL
  /\ USE_DEFAULT_COEFFS' = (reprogram \/ USE_DEFAULT_COEFFS)
  /\ UNCHANGED << SAP_CTRL, coefficients, bands >>
Wake(reprogram) == Reverted(reprogram) \/ Kept(reprogram)
Stay == UNCHANGED << SAP_CTRL, DIG_VOL, USE_DEFAULT_COEFFS, coefficients, bands >>

DAC_POWER_ON ==
  /\ power' = "play" /\ mute' = FALSE
  /\ IF power = "deep_sleep"
     THEN Wake(TRUE) /\ s_dsp_defaults_written' = FALSE
     ELSE Stay /\ UNCHANGED s_dsp_defaults_written
DAC_POWER_STANDBY ==
  /\ power' = "hiz" /\ mute' = FALSE
  /\ IF power = "deep_sleep" THEN Wake(FALSE) ELSE Stay
  /\ UNCHANGED s_dsp_defaults_written
DAC_POWER_OFF ==
  /\ power' = "deep_sleep" /\ mute' = FALSE /\ Stay
  /\ s_dsp_defaults_written' = FALSE

(* ensure_custom_coeffs_mode and the biquads of tas58xx_eq_set_all: the     *)
(* signal path's defaults are written once, then the chip's own coefficients *)
(* are switched off.                                                        *)
WriteBands(gains) ==
  /\ bands' = gains
  /\ coefficients' = (coefficients \/ (USE_DEFAULT_COEFFS /\ ~s_dsp_defaults_written))
  /\ s_dsp_defaults_written' = (s_dsp_defaults_written \/ USE_DEFAULT_COEFFS)
  /\ USE_DEFAULT_COEFFS' = FALSE /\ UNCHANGED << DIG_VOL, SAP_CTRL >>

Take(task) == holder = "nobody" /\ holder' = task
Read == ctrl2' = << power, mute >>
Give == holder' = "nobody"

-----------------------------------------------------------------------------
(* on_rtsp_event of the board, in the task that emits.  Nothing orders the  *)
(* events of two tasks, and one of a task may be another's client's.        *)
PowerEvent(e, mode) ==
  /\ rtsp[e] = "idle" /\ holder = "nobody" /\ ordered' = mode
  /\ UNCHANGED << holder, ctrl2, restored, webTask, wanted, eqs, saved, faultVars, asked >>
ConnectedOrPaused(e) == DAC_POWER_STANDBY /\ PowerEvent(e, "hiz") /\ UNCHANGED rtsp
PLAYING(e) ==
  DAC_POWER_ON /\ PowerEvent(e, "play") /\ rtsp' = [rtsp EXCEPT ![e] = "restore"]
DISCONNECTED(e) == DAC_POWER_OFF /\ PowerEvent(e, "deep_sleep") /\ UNCHANGED rtsp

(* restore_eq_from_nvs, still of PLAYING. *)
ReadGains(e) ==
  /\ rtsp[e] = "restore" /\ restored' = [restored EXCEPT ![e] = saved]
  /\ rtsp' = [rtsp EXCEPT ![e] = IF saved = NoGains THEN "idle" ELSE "apply"]
  /\ UNCHANGED << chipVars, holder, ctrl2, webTask, wanted, eqs, saved, faultVars, ordered, asked >>

(* tas58xx_eq_set_all mutes and, at the end, writes back what it read. *)
BeginSetAll(task) == Take(task) /\ Read /\ mute' = TRUE
EndSetAll(gains) == WriteBands(gains) /\ power' = ctrl2[1] /\ mute' = ctrl2[2] /\ Give
Restoring(e) ==
  /\ rtsp[e] = "apply" /\ BeginSetAll(e) /\ rtsp' = [rtsp EXCEPT ![e] = "applying"]
  /\ UNCHANGED << power, DIG_VOL, SAP_CTRL, USE_DEFAULT_COEFFS, coefficients, bands >>
  /\ UNCHANGED << s_dsp_defaults_written, restored, webTask, wanted, eqs, saved >>
  /\ UNCHANGED << faultVars, ordered, asked >>
Restored(e) ==
  /\ rtsp[e] = "applying" /\ EndSetAll(restored[e]) /\ rtsp' = [rtsp EXCEPT ![e] = "idle"]
  /\ UNCHANGED << ctrl2, restored, webTask, wanted, eqs, saved, faultVars, ordered, asked >>

(* on_eq_event, EQ_EVENT_ALL_BANDS_SET: save, then apply. *)
EqSaved ==
  /\ webTask = "idle" /\ eqs < MaxEqs /\ eqs' = eqs + 1
  /\ \E gains \in Gains : wanted' = gains /\ saved' = gains
  /\ webTask' = "apply"
  /\ UNCHANGED << chipVars, holder, ctrl2, rtsp, restored, faultVars, ordered, asked >>
EqApplying ==
  /\ webTask = "apply" /\ BeginSetAll("webTask") /\ webTask' = "applying"
  /\ UNCHANGED << power, DIG_VOL, SAP_CTRL, USE_DEFAULT_COEFFS, coefficients, bands >>
  /\ UNCHANGED << s_dsp_defaults_written, rtsp, restored, wanted, eqs, saved >>
  /\ UNCHANGED << faultVars, ordered, asked >>
EqApplied ==
  /\ webTask = "applying" /\ EndSetAll(wanted) /\ webTask' = "idle"
  /\ UNCHANGED << ctrl2, rtsp, restored, wanted, eqs, saved, faultVars, ordered, asked >>

tas58xx_set_volume ==
  /\ holder = "nobody" /\ \E v \in Volumes : DIG_VOL' = v /\ asked' = v
  /\ UNCHANGED << power, mute, SAP_CTRL, USE_DEFAULT_COEFFS, coefficients, bands >>
  /\ UNCHANGED << s_dsp_defaults_written, holder, ctrl2, taskVars, faultVars, ordered >>

-----------------------------------------------------------------------------
(* The pin changes and spkfault_isr_handler sets the bit of its new level. *)
spkfault_isr_handler ==
  /\ pin' = ~pin /\ bits' = bits \union {IF pin' THEN "fault" ELSE "clear"}
  /\ UNCHANGED << chipVars, holder, ctrl2, taskVars, spk, speaker_fault_active, ordered, asked >>

(* spkfault_task takes all bits and looks at FAULT first. *)
TakeBits ==
  /\ spk = "waiting" /\ bits # {} /\ bits' = {}
  /\ LET fault == "fault" \in bits /\ ~speaker_fault_active
         clear == "clear" \in bits /\ (speaker_fault_active \/ fault)
     IN  /\ spk' = CASE fault /\ clear -> "disable, enable"
                     [] fault /\ ~clear -> "disable" [] clear /\ ~fault -> "enable"
                     [] OTHER -> "waiting"
         /\ speaker_fault_active' = ((speaker_fault_active \/ fault) /\ ~clear)
  /\ UNCHANGED << chipVars, holder, ctrl2, taskVars, pin, ordered, asked >>

(* tas58xx_enable_speaker: DEVICE_CTRL2 is read and, the mutex still held,  *)
(* written back with another mute bit.                                      *)
(* A mutant: the mutex is taken for the write only. *)
ReadUnlocked ==
  /\ spk \in {"disable", "enable", "disable, enable"} /\ holder = "nobody" /\ Read
  /\ spk' = CASE spk = "disable" -> "disabling" [] spk = "enable" -> "enabling"
              [] OTHER -> "disabling, enable"
  /\ UNCHANGED << chipVars, holder, taskVars, pin, bits, speaker_fault_active, ordered, asked >>
ReadControl ==
  /\ spk \in {"disable", "enable", "disable, enable"} /\ Take("spk") /\ Read
  /\ spk' = CASE spk = "disable" -> "disabling" [] spk = "enable" -> "enabling"
              [] OTHER -> "disabling, enable"
  /\ UNCHANGED << chipVars, taskVars, pin, bits, speaker_fault_active, ordered, asked >>
tas58xx_enable_speaker ==
  /\ spk \in {"disabling", "enabling", "disabling, enable"} /\ holder \in {"spk", "nobody"} /\ Give
  /\ power' = ctrl2[1] /\ mute' = (spk # "enabling")
  /\ spk' = IF spk = "disabling, enable" THEN "enable" ELSE "waiting"
  /\ UNCHANGED << DIG_VOL, SAP_CTRL, USE_DEFAULT_COEFFS, coefficients, bands >>
  /\ UNCHANGED << s_dsp_defaults_written, ctrl2, taskVars, pin, bits >>
  /\ UNCHANGED << speaker_fault_active, ordered, asked >>

AmplifierNext ==
  \/ \E e \in Emitters : \/ ConnectedOrPaused(e) \/ PLAYING(e) \/ DISCONNECTED(e)
                         \/ ReadGains(e) \/ Restoring(e) \/ Restored(e)
  \/ EqSaved \/ EqApplying \/ EqApplied
  \/ tas58xx_set_volume \/ spkfault_isr_handler \/ TakeBits \/ ReadControl
  \/ tas58xx_enable_speaker

-----------------------------------------------------------------------------
AmplifierTypeOK ==
  /\ power \in {"deep_sleep", "hiz", "play"} /\ mute \in BOOLEAN
  /\ DIG_VOL \in Volumes \union {UNITY} /\ asked \in Volumes
  /\ SAP_CTRL \in BOOLEAN /\ USE_DEFAULT_COEFFS \in BOOLEAN /\ coefficients \in BOOLEAN
  /\ s_dsp_defaults_written \in BOOLEAN
  /\ {bands, saved, wanted} \subseteq Gains \union {NoGains}
  /\ restored \in [Emitters -> Gains \union {NoGains}]
  /\ holder \in {"nobody", "webTask", "spk"} \union Emitters
  /\ rtsp \in [Emitters -> {"idle", "restore", "apply", "applying"}]
  /\ webTask \in {"idle", "apply", "applying"} /\ eqs \in 0 .. MaxEqs
  /\ pin \in BOOLEAN /\ bits \subseteq {"fault", "clear"} /\ speaker_fault_active \in BOOLEAN

(* The callers read DEVICE_CTRL2 and write it back later; none of them       *)
(* undoes the power mode another one ordered, or leaves the output of the    *)
(* equaliser's own mute behind.                                              *)
PowerFollows ==
  holder = "nobody" => power = ordered
      /\ (mute => (speaker_fault_active \/ spk # "waiting"))

(* board.c: "Speaker fault auto-mute and recovery".  An amplifier that plays *)
(* while its fault pin is low is muted, once the fault task has handled it.  *)
FaultMutes ==
  power = "play" /\ pin /\ bits = {} /\ spk = "waiting" /\ holder = "nobody" => mute

(* Not so, since leaving DEEP_SLEEP writes 0 dB: the volume that was asked   *)
(* for is that of the chip when it plays (tas58xx_set_power_mode).           *)
VolumeKept == holder = "nobody" /\ power = "play" => DIG_VOL = asked

(* Not so, when a setting from the web page comes between the reading of the *)
(* old ones and their restoring: the bands are those that were saved.        *)
EqFollows == (\A e \in Emitters : rtsp[e] = "idle") /\ webTask = "idle" /\ power = "play" => bands = saved
=============================================================================
