---------------------------- MODULE SqueezeAmp ----------------------------
(***************************************************************************)
(* The amplifier of the SqueezeAMP board: the TAS57xx driver               *)
(* (dac_tas57xx.c), the power modes the RTSP events order (board.c), and    *)
(* the GPIO task with its two interrupts, speaker fault and headphone jack. *)
(* The power modes hold s_dac_mutex; the task's enable_speaker does not.    *)
(***************************************************************************)
EXTENDS Integers

VARIABLES
  chip, muted, speaker,      \* registers 0x02, 0x03 and 0x56 (analogue output)
  hybrid_flow, volume,       \* miniDSP RAM loaded; "initial" or "asked"
  s_power_state, caller,     \* caller: the mode whose holder of the mutex waits
  jack_in, fault_pin,        \* the two pins
  notified, gpio, found,     \* bits set; what the task does; bits it took
  amp_fault, headphone_inserted   \* speaker_fault_active, headphone_inserted

dacVars == << chip, muted, speaker, hybrid_flow, volume, s_power_state, caller >>
gpioVars == << jack_in, fault_pin, notified, gpio, found, amp_fault, headphone_inserted >>
squeezeVars == << dacVars, gpioVars >>

(* iot_board_init: the hybrid flow and the registers are written, the saved  *)
(* volume is set, a pin low at start leaves its bit, and then OFF.           *)
SqueezeInit ==
  /\ chip = "down" /\ muted = TRUE /\ speaker = FALSE /\ hybrid_flow = FALSE
  /\ volume = "asked" /\ s_power_state = "OFF" /\ caller = "nobody"
  /\ jack_in \in BOOLEAN /\ fault_pin \in BOOLEAN
  /\ notified = (IF jack_in THEN {"jack"} ELSE {}) \union (IF fault_pin THEN {"fault"} ELSE {})
  /\ gpio = "waiting" /\ found = {} /\ amp_fault = FALSE /\ headphone_inserted = FALSE

-----------------------------------------------------------------------------
(* tas57xx_set_power_mode up to its wait of 50 ms, or to its end. *)
STANDBY ==
  /\ caller = "nobody" /\ speaker' = FALSE /\ muted' = TRUE /\ chip' = "standby"
  /\ caller' = IF s_power_state = "OFF" THEN "STANDBY" ELSE "nobody"
  /\ s_power_state' = IF s_power_state = "OFF" THEN "OFF" ELSE "STANDBY"
  /\ UNCHANGED << hybrid_flow, volume, gpioVars >>
ON ==
  /\ caller = "nobody" /\ speaker' = FALSE /\ muted' = TRUE /\ chip' = "active"
  /\ caller' = "ON" /\ UNCHANGED << hybrid_flow, volume, s_power_state, gpioVars >>
OFF ==
  /\ caller = "nobody" /\ speaker' = FALSE /\ muted' = TRUE /\ chip' = "down"
  /\ hybrid_flow' = FALSE /\ s_power_state' = "OFF"
  /\ UNCHANGED << volume, caller, gpioVars >>

(* After the wait.  The init registers hold a volume of their own. *)
tas57xx_restore_config ==
  /\ caller = "STANDBY" /\ caller' = "nobody" /\ s_power_state' = "STANDBY"
  /\ hybrid_flow' = TRUE /\ volume' = "initial"
  /\ UNCHANGED << chip, muted, speaker, gpioVars >>
Unmute ==
  /\ caller = "ON" /\ caller' = "nobody" /\ s_power_state' = "ON"
  /\ muted' = FALSE /\ speaker' = TRUE
  /\ UNCHANGED << chip, hybrid_flow, volume, gpioVars >>
tas57xx_set_volume ==
  /\ caller = "nobody" /\ volume' = "asked"
  /\ UNCHANGED << chip, muted, speaker, hybrid_flow, s_power_state, caller, gpioVars >>

-----------------------------------------------------------------------------
fault_isr ==
  /\ fault_pin' = ~fault_pin
  /\ notified' = notified \union {IF fault_pin' THEN "fault" ELSE "clear"}
  /\ UNCHANGED << dacVars, jack_in, gpio, found, amp_fault, headphone_inserted >>
(* A mutant: a change during the debounce is not notified. *)
jack_isr_masked ==
  /\ jack_in' = ~jack_in
  /\ notified' = notified \union (IF gpio = "waiting" THEN {"jack"} ELSE {})
  /\ UNCHANGED << dacVars, fault_pin, gpio, found, amp_fault, headphone_inserted >>
jack_isr_handler ==
  /\ jack_in' = ~jack_in /\ notified' = notified \union {"jack"}
  /\ UNCHANGED << dacVars, fault_pin, gpio, found, amp_fault, headphone_inserted >>

(* spkfault_task: it takes all bits at once, looks at FAULT, then CLEAR,    *)
(* then waits for the jack and reads its pin.                               *)
WaitForBits ==
  /\ gpio = "waiting" /\ notified # {} /\ found' = notified /\ notified' = {}
  /\ gpio' = "fault"
  /\ UNCHANGED << dacVars, jack_in, fault_pin, amp_fault, headphone_inserted >>
HandleFault ==
  /\ gpio = "fault" /\ gpio' = "clear"
  /\ amp_fault' = (amp_fault \/ "fault" \in found)
  /\ speaker' = (speaker /\ (amp_fault \/ "fault" \notin found))
  /\ UNCHANGED << chip, muted, hybrid_flow, volume, s_power_state, caller >>
  /\ UNCHANGED << jack_in, fault_pin, notified, found, headphone_inserted >>
HandleClear ==
  /\ gpio = "clear" /\ gpio' = IF "jack" \in found THEN "debounce" ELSE "waiting"
  /\ amp_fault' = (amp_fault /\ "clear" \notin found)
  /\ speaker' = (speaker \/ ("clear" \in found /\ amp_fault /\ ~headphone_inserted))
  /\ UNCHANGED << chip, muted, hybrid_flow, volume, s_power_state, caller >>
  /\ UNCHANGED << jack_in, fault_pin, notified, found, headphone_inserted >>
HandleJack ==
  /\ gpio = "debounce" /\ gpio' = "waiting" /\ headphone_inserted' = jack_in
  /\ speaker' = IF jack_in = headphone_inserted THEN speaker
                ELSE ~jack_in /\ (speaker \/ ~amp_fault)
  /\ UNCHANGED << chip, muted, hybrid_flow, volume, s_power_state, caller >>
  /\ UNCHANGED << jack_in, fault_pin, notified, found, amp_fault >>

GpioTask == WaitForBits \/ HandleFault \/ HandleClear \/ HandleJack
SqueezeNext ==
  \/ STANDBY \/ ON \/ OFF \/ tas57xx_restore_config \/ Unmute \/ tas57xx_set_volume
  \/ fault_isr \/ jack_isr_handler
  \/ WaitForBits \/ HandleFault \/ HandleClear \/ HandleJack

-----------------------------------------------------------------------------
SqueezeTypeOK ==
  /\ chip \in {"active", "standby", "down"} /\ {muted, speaker, hybrid_flow} \subseteq BOOLEAN
  /\ volume \in {"initial", "asked"} /\ s_power_state \in {"OFF", "STANDBY", "ON"}
  /\ caller \in {"nobody", "STANDBY", "ON"}
  /\ {jack_in, fault_pin, amp_fault, headphone_inserted} \subseteq BOOLEAN
  /\ (notified \union found) \subseteq {"fault", "clear", "jack"}
  /\ gpio \in {"waiting", "fault", "clear", "debounce"}

(* board.c, the jack's debounce: however the jack bounced before, during or  *)
(* after the task's 200 ms, once it rests the board's idea of it is right.   *)
JackSettles == \A in \in BOOLEAN : <>[](jack_in = in) => <>[](headphone_inserted = in)

(* board.c: "Headphone jack detection to disable speakers". *)
HeadphonesSilence == headphone_inserted /\ gpio = "waiting" => ~speaker
=============================================================================
