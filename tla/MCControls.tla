----------------------------- MODULE MCControls -----------------------------
(***************************************************************************)
(* What the listener touches and sees: the buttons of the boards and of    *)
(* the speaker, playback control with DACP and AVRCP behind it, the LEDs   *)
(* and the display.  They share no state: a behaviour is one part's,       *)
(* chosen at the start, while the others rest.                             *)
(***************************************************************************)
EXTENDS Buttons, Speaker, PlaybackControl, Avrcp, Led, Display

VARIABLE part

(* The defaults of Kconfig, and the builds with most and fewest listeners. *)
MCStatusMode ==
  [s \in LedStates \ {"ERROR"} |->
     CASE s = "PLAYING" -> "VU" [] s = "PAUSED" -> "BLINK_MEDIUM" [] OTHER -> "BLINK_SLOW"]
MCRgbMode ==
  [s \in LedStates \ {"ERROR"} |->
     CASE s = "PLAYING" -> "VU" [] s = "PAUSED" -> "STEADY" [] OTHER -> "OFF"]
MCBuilds == {{"led", "board", "display", "bluetooth", "app"}, {"led", "display"}}

controlsVars == <<part, buttonVars, speakerVars, controlVars, dacpVars, avrcpVars, ledVars,
                  displayVars>>

ControlsInit ==
  /\ part \in {"buttons", "speaker", "playback", "avrcp", "led", "display"}
  /\ ButtonsInit /\ SpeakerInit /\ ControlInit /\ AvrcpInit /\ LedInit /\ DisplayInit
  /\ part # "display" => build = {"led", "display"} /\ panel = "oled"

ControlsNext ==
  \/ /\ part = "buttons" /\ ButtonsNext
     /\ UNCHANGED <<part, speakerVars, controlVars, dacpVars, avrcpVars, ledVars, displayVars>>
  \/ /\ part = "speaker" /\ SpeakerNext
     /\ UNCHANGED <<part, buttonVars, controlVars, dacpVars, avrcpVars, ledVars, displayVars>>
  \/ /\ part = "playback" /\ ControlNext
     /\ UNCHANGED <<part, buttonVars, speakerVars, avrcpVars, ledVars, displayVars>>
  \/ /\ part = "avrcp" /\ AvrcpNext
     /\ UNCHANGED <<part, buttonVars, speakerVars, controlVars, dacpVars, ledVars, displayVars>>
  \/ /\ part = "led" /\ LedNext
     /\ UNCHANGED <<part, buttonVars, speakerVars, controlVars, dacpVars, avrcpVars, displayVars>>
  \/ /\ part = "display" /\ DisplayNext
     /\ UNCHANGED <<part, buttonVars, speakerVars, controlVars, dacpVars, avrcpVars, ledVars>>

ControlsSpec == ControlsInit /\ [][ControlsNext]_controlsVars

TypeOK ==
  /\ ButtonsTypeOK /\ SpeakerTypeOK /\ ControlTypeOK
  /\ AvrcpTypeOK /\ LedTypeOK /\ DisplayTypeOK

(* Each part's variables, and its bounded queues, hold what the code can    *)
(* put there; a click is acted on, a blinking LED goes on blinking, the     *)
(* panel comes to show what the program knows.                              *)
ControlsInv == TypeOK /\ NoClickLost /\ BlinkGoesOn /\ OledUpToDate
=============================================================================
