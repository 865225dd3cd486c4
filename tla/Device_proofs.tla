---------------------------- MODULE Device_proofs ----------------------------
(***************************************************************************)
(* What the run "device" checks of the parts of the box, for every value   *)
(* of the constants: nobody undoes another's write of the amplifier's      *)
(* control register, a stereo pair is never two slaves, the log keeps its  *)
(* newest lines and serves each client once, the flash holds a whole       *)
(* identity, whole settings and whole firmware, and the binary search of   *)
(* the audio pool finds its place.                                         *)
(*                                                                         *)
(* The parts share no variable, so each has its own inductive invariant,   *)
(* and one step of the device is a step of one of them.                    *)
(***************************************************************************)
EXTENDS MCDevice, TLAPS, FiniteSetTheorems, SequenceTheorems

-----------------------------------------------------------------------------
(* The amplifier.  DEVICE_CTRL2 is read under s_reg_mutex and written back  *)
(* before it is given, so what the holder read is still what was ordered;   *)
(* a mute that is there to be written back is the fault task's.             *)
FaultTaskAtWork == {"disabling", "enabling", "disabling, enable"}
FaultTaskStates ==
  {"waiting", "disable", "enable", "disable, enable"} \union FaultTaskAtWork

Fault == speaker_fault_active \/ spk # "waiting"

(* Who holds the mutex is between its reading and its writing. *)
HolderAtWork ==
  /\ \A e \in Emitters : (holder = e) <=> (rtsp[e] = "applying")
  /\ ((holder = "webTask") <=> (webTask = "applying"))
  /\ ((holder = "spk") <=> (spk \in FaultTaskAtWork))

(* What the holder will write back is what was ordered. *)
ControlHeld ==
  /\ power = ordered
  /\ holder # "nobody" => ctrl2[1] = ordered
  /\ holder = "nobody" /\ mute => Fault
  /\ holder \in {"webTask"} \union Emitters /\ ctrl2[2] => Fault

(* The types, apart: the chip's registers, and the tasks'. *)
RegisterTypes ==
  /\ power \in {"deep_sleep", "hiz", "play"} /\ mute \in BOOLEAN
  /\ DIG_VOL \in Volumes \union {UNITY} /\ asked \in Volumes
  /\ SAP_CTRL \in BOOLEAN /\ USE_DEFAULT_COEFFS \in BOOLEAN /\ coefficients \in BOOLEAN
  /\ s_dsp_defaults_written \in BOOLEAN
  /\ bands \in Gains \union {NoGains}
TaskTypes ==
  /\ saved \in Gains \union {NoGains} /\ wanted \in Gains \union {NoGains}
  /\ restored \in [Emitters -> Gains \union {NoGains}]
  /\ holder \in {"nobody", "webTask", "spk"} \union Emitters
  /\ rtsp \in [Emitters -> {"idle", "restore", "apply", "applying"}]
  /\ webTask \in {"idle", "apply", "applying"}
  /\ pin \in BOOLEAN /\ bits \subseteq {"fault", "clear"} /\ speaker_fault_active \in BOOLEAN
  /\ spk \in FaultTaskStates /\ ordered \in {"deep_sleep", "hiz", "play"}
ControlTypes == ctrl2[1] \in {"deep_sleep", "hiz", "play"} /\ ctrl2[2] \in BOOLEAN

AmplifierIInv ==
  /\ RegisterTypes /\ TaskTypes /\ ControlTypes /\ eqs \in 0 .. MaxEqs
  /\ HolderAtWork
  /\ ControlHeld
  /\ spk \in {"disable", "disabling"} => speaker_fault_active

LEMMA AmplifierTyped ==
  ASSUME AmplifierIInv
  PROVE  AmplifierTypeOK
<1>1. RegisterTypes /\ TaskTypes /\ eqs \in 0 .. MaxEqs
  BY DEF AmplifierIInv
<1>2. {bands, saved, wanted} \subseteq Gains \union {NoGains}
  BY <1>1 DEF RegisterTypes, TaskTypes
<1> QED
  BY <1>1, <1>2, Zenon DEF RegisterTypes, TaskTypes, AmplifierTypeOK

LEMMA AmplifierStarts ==
  ASSUME AmplifierInit
  PROVE  AmplifierIInv
<1>1. RegisterTypes
  BY DEF AmplifierInit, RegisterTypes
<1>2. TaskTypes
  BY DEF AmplifierInit, TaskTypes, FaultTaskStates
<1>3. eqs \in 0 .. MaxEqs
  BY AmplifierAssumption DEF AmplifierInit
<1>4. ctrl2[1] = "deep_sleep" /\ ctrl2[2] = FALSE
  BY DEF AmplifierInit
<1>5. HolderAtWork /\ ControlHeld /\ (spk \in {"disable", "disabling"} => speaker_fault_active)
  BY <1>4, AmplifierAssumption DEF AmplifierInit, HolderAtWork, ControlHeld, Fault, FaultTaskAtWork
<1> QED
  BY <1>1, <1>2, <1>3, <1>4, <1>5 DEF AmplifierIInv, ControlTypes

LEMMA AmplifierRests ==
  ASSUME AmplifierIInv, UNCHANGED amplifierVars
  PROVE  AmplifierIInv'
<1> USE DEF amplifierVars, chipVars, taskVars, faultVars, AmplifierIInv
<1>1. RegisterTypes'
  BY DEF RegisterTypes
<1>2. TaskTypes'
  BY DEF TaskTypes
<1>3. ControlTypes' /\ eqs' \in 0 .. MaxEqs
  BY DEF ControlTypes
<1>4. HolderAtWork'
  BY DEF HolderAtWork
<1>5. ControlHeld'
  BY DEF ControlHeld, Fault
<1>6. spk' \in {"disable", "disabling"} => speaker_fault_active'
  OBVIOUS
<1> QED
  BY <1>1, <1>2, <1>3, <1>4, <1>5, <1>6

(* An action of the amplifier leaves every register in its range. *)
LEMMA RegistersStayTyped ==
  ASSUME RegisterTypes, TaskTypes, ControlTypes, AmplifierNext
  PROVE  RegisterTypes'
<1> USE DEF RegisterTypes
<1>1. ASSUME NEW e \in Emitters, ConnectedOrPaused(e)
      PROVE  RegisterTypes'
  BY <1>1 DEF ConnectedOrPaused, PowerEvent, DAC_POWER_STANDBY, Wake, Kept, Reverted, Stay
<1>2. ASSUME NEW e \in Emitters, PLAYING(e)
      PROVE  RegisterTypes'
  BY <1>2 DEF PLAYING, PowerEvent, DAC_POWER_ON, Wake, Kept, Reverted, Stay
<1>3. ASSUME NEW e \in Emitters, DISCONNECTED(e)
      PROVE  RegisterTypes'
  BY <1>3 DEF DISCONNECTED, PowerEvent, DAC_POWER_OFF, Stay
<1>4. ASSUME NEW e \in Emitters, ReadGains(e)
      PROVE  RegisterTypes'
  BY <1>4 DEF ReadGains, chipVars
<1>5. CASE EqSaved \/ spkfault_isr_handler \/ TakeBits \/ ReadControl
  <2>1. UNCHANGED << chipVars, asked >>
    BY <1>5 DEF EqSaved, spkfault_isr_handler, TakeBits, ReadControl
  <2> QED
    BY <2>1 DEF chipVars
<1>6. ASSUME NEW e \in Emitters, Restoring(e)
      PROVE  RegisterTypes'
  BY <1>6 DEF Restoring, BeginSetAll
<1>7. CASE EqApplying
  BY <1>7 DEF EqApplying, BeginSetAll
<1>8. ASSUME NEW e \in Emitters, Restored(e)
      PROVE  RegisterTypes'
  <2>1. restored[e] \in Gains \union {NoGains}
    BY DEF TaskTypes
  <2> QED
    BY <1>8, <2>1 DEF Restored, EndSetAll, WriteBands, ControlTypes
<1>9. CASE EqApplied
  BY <1>9 DEF EqApplied, EndSetAll, WriteBands, TaskTypes, ControlTypes
<1>10. CASE tas58xx_set_volume
  BY <1>10 DEF tas58xx_set_volume
<1>11. CASE tas58xx_enable_speaker
  BY <1>11 DEF tas58xx_enable_speaker, ControlTypes
<1> QED
  BY <1>1, <1>2, <1>3, <1>4, <1>5, <1>6, <1>7, <1>8, <1>9, <1>10, <1>11 DEF AmplifierNext

(* Nor does it take a task where it has no line. *)
LEMMA TasksStayTyped ==
  ASSUME TaskTypes, AmplifierNext
  PROVE  TaskTypes'
<1> USE DEF TaskTypes
<1>1. ASSUME NEW e \in Emitters, ConnectedOrPaused(e)
      PROVE  TaskTypes'
  BY <1>1 DEF ConnectedOrPaused, PowerEvent, faultVars
<1>2. ASSUME NEW e \in Emitters, PLAYING(e)
      PROVE  TaskTypes'
  BY <1>2 DEF PLAYING, PowerEvent, faultVars
<1>3. ASSUME NEW e \in Emitters, DISCONNECTED(e)
      PROVE  TaskTypes'
  BY <1>3 DEF DISCONNECTED, PowerEvent, faultVars
<1>4. ASSUME NEW e \in Emitters, ReadGains(e)
      PROVE  TaskTypes'
  BY <1>4 DEF ReadGains, faultVars
<1>5. ASSUME NEW e \in Emitters, Restoring(e)
      PROVE  TaskTypes'
  BY <1>5 DEF Restoring, BeginSetAll, Take, faultVars
<1>6. ASSUME NEW e \in Emitters, Restored(e)
      PROVE  TaskTypes'
  BY <1>6 DEF Restored, EndSetAll, Give, faultVars
<1>7. CASE EqSaved
  BY <1>7 DEF EqSaved, faultVars
<1>8. CASE EqApplying
  BY <1>8 DEF EqApplying, BeginSetAll, Take, faultVars
<1>9. CASE EqApplied
  BY <1>9 DEF EqApplied, EndSetAll, Give, faultVars
<1>10. CASE tas58xx_set_volume
  BY <1>10 DEF tas58xx_set_volume, taskVars, faultVars
<1>11. CASE spkfault_isr_handler
  <2>1. pin' \in BOOLEAN /\ bits' \subseteq {"fault", "clear"}
    BY <1>11 DEF spkfault_isr_handler
  <2> QED
    BY <1>11, <2>1 DEF spkfault_isr_handler, taskVars
<1>12. CASE TakeBits
  BY <1>12 DEF TakeBits, taskVars, FaultTaskStates
<1>13. CASE ReadControl
  BY <1>13 DEF ReadControl, Take, taskVars, FaultTaskStates, FaultTaskAtWork
<1>14. CASE tas58xx_enable_speaker
  BY <1>14 DEF tas58xx_enable_speaker, Give, taskVars, FaultTaskStates
<1> QED
  BY <1>1, <1>2, <1>3, <1>4, <1>5, <1>6, <1>7, <1>8, <1>9, <1>10, <1>11, <1>12, <1>13,
     <1>14 DEF AmplifierNext

LEMMA ControlStaysTyped ==
  ASSUME RegisterTypes, ControlTypes, eqs \in 0 .. MaxEqs, AmplifierNext
  PROVE  ControlTypes' /\ eqs' \in 0 .. MaxEqs
<1>1. ctrl2' = ctrl2 \/ ctrl2' = << power, mute >>
  BY DEF AmplifierNext, ConnectedOrPaused, PLAYING, DISCONNECTED, PowerEvent, ReadGains,
     Restoring, Restored, EqSaved, EqApplying, EqApplied, BeginSetAll, Read, tas58xx_set_volume,
     spkfault_isr_handler, TakeBits, ReadControl, tas58xx_enable_speaker
<1>2. ControlTypes'
  BY <1>1 DEF ControlTypes, RegisterTypes
<1>3. eqs' = eqs \/ (eqs < MaxEqs /\ eqs' = eqs + 1)
  BY DEF AmplifierNext, ConnectedOrPaused, PLAYING, DISCONNECTED, PowerEvent, ReadGains,
     Restoring, Restored, EqSaved, EqApplying, EqApplied, taskVars, tas58xx_set_volume,
     spkfault_isr_handler, TakeBits, ReadControl, tas58xx_enable_speaker
<1> QED
  BY <1>2, <1>3, AmplifierAssumption

LEMMA AmplifierSteps ==
  ASSUME AmplifierIInv, AmplifierNext
  PROVE  AmplifierIInv'
<1>0. /\ HolderAtWork /\ ControlHeld
      /\ (spk \in {"disable", "disabling"} => speaker_fault_active)
      /\ spk \in FaultTaskStates /\ holder \in {"nobody", "webTask", "spk"} \union Emitters
      /\ rtsp \in [Emitters -> {"idle", "restore", "apply", "applying"}]
  BY DEF AmplifierIInv, TaskTypes
<1> DEFINE Held == /\ HolderAtWork /\ ControlHeld
                   /\ (spk \in {"disable", "disabling"} => speaker_fault_active)
<1> SUFFICES Held'
  BY RegistersStayTyped, TasksStayTyped, ControlStaysTyped DEF AmplifierIInv
<1> USE DEF HolderAtWork, ControlHeld, Fault, FaultTaskAtWork, FaultTaskStates
(* A power mode: nobody is between reading and writing, and the mute bit goes. *)
<1>1. ASSUME NEW e \in Emitters, ConnectedOrPaused(e) \/ PLAYING(e) \/ DISCONNECTED(e)
      PROVE  Held'
  <2>1. /\ holder = "nobody" /\ holder' = "nobody" /\ power' = ordered' /\ mute' = FALSE
        /\ webTask' = webTask /\ spk' = spk /\ speaker_fault_active' = speaker_fault_active
        /\ rtsp[e] = "idle"
        /\ rtsp' = rtsp \/ rtsp' = [rtsp EXCEPT ![e] = "restore"]
    BY <1>1 DEF ConnectedOrPaused, PLAYING, DISCONNECTED, PowerEvent, faultVars,
       DAC_POWER_ON, DAC_POWER_STANDBY, DAC_POWER_OFF
  <2>2. \A d \in Emitters : (rtsp'[d] = "applying") <=> (rtsp[d] = "applying")
    BY <1>0, <2>1
  <2> QED
    BY <1>0, <2>1, <2>2, AmplifierAssumption
<1>2. CASE EqSaved \/ spkfault_isr_handler \/ tas58xx_set_volume
  <2>1. /\ UNCHANGED << power, mute, holder, ctrl2, spk, ordered, rtsp >>
        /\ (speaker_fault_active' <=> speaker_fault_active)
        /\ ((webTask' = "applying") <=> (webTask = "applying"))
    BY <1>2 DEF EqSaved, spkfault_isr_handler, tas58xx_set_volume, chipVars,
       taskVars, faultVars
  <2> QED
    BY <1>0, <2>1
<1>3. ASSUME NEW e \in Emitters, ReadGains(e)
      PROVE  Held'
  <2>1. /\ UNCHANGED << power, mute, holder, ctrl2, spk, ordered, webTask >>
        /\ (speaker_fault_active' <=> speaker_fault_active)
        /\ rtsp[e] = "restore" /\ rtsp'[e] # "applying"
        /\ \A d \in Emitters : d # e => rtsp'[d] = rtsp[d]
    BY <1>0, <1>3 DEF ReadGains, chipVars, faultVars
  <2> QED
    BY <1>0, <2>1
(* The equaliser mutes by a bit of its own, having read the register. *)
<1>4. CASE EqApplying
  <2>1. ctrl2'[1] = power /\ ctrl2'[2] = mute
    BY <1>4 DEF EqApplying, BeginSetAll, Read
  <2> QED
    BY <1>0, <1>4, <2>1, AmplifierAssumption DEF EqApplying, BeginSetAll, Take, faultVars
<1>5. ASSUME NEW e \in Emitters, Restoring(e)
      PROVE  Held'
  <2>1. /\ ctrl2'[1] = power /\ ctrl2'[2] = mute /\ holder = "nobody" /\ holder' = e
        /\ UNCHANGED << power, spk, ordered, webTask >>
        /\ (speaker_fault_active' <=> speaker_fault_active)
        /\ rtsp'[e] = "applying" /\ \A d \in Emitters : d # e => rtsp'[d] = rtsp[d]
    BY <1>0, <1>5 DEF Restoring, BeginSetAll, Read, Take, faultVars
  <2> QED
    BY <1>0, <2>1, AmplifierAssumption
<1>6. ASSUME NEW e \in Emitters, Restored(e)
      PROVE  Held'
  <2>1. /\ power' = ctrl2[1] /\ mute' = ctrl2[2] /\ holder' = "nobody" /\ ctrl2' = ctrl2
        /\ UNCHANGED << spk, ordered, webTask >>
        /\ (speaker_fault_active' <=> speaker_fault_active)
        /\ rtsp[e] = "applying" /\ rtsp'[e] = "idle"
        /\ \A d \in Emitters : d # e => rtsp'[d] = rtsp[d]
    BY <1>0, <1>6 DEF Restored, EndSetAll, Give, faultVars
  <2> QED
    BY <1>0, <2>1, AmplifierAssumption
<1>7. CASE EqApplied
  BY <1>0, <1>7, AmplifierAssumption DEF EqApplied, EndSetAll, Give, faultVars
(* The fault task. *)
<1>8. CASE TakeBits
  <2>1. /\ UNCHANGED << power, mute, holder, ctrl2, ordered, rtsp, webTask >>
        /\ spk = "waiting" /\ spk' \in {"waiting", "disable", "enable", "disable, enable"}
    BY <1>8 DEF TakeBits, chipVars, taskVars
  <2> DEFINE fault == "fault" \in bits /\ ~speaker_fault_active
             clear == "clear" \in bits /\ (speaker_fault_active \/ fault)
  <2>3. /\ spk' = CASE fault /\ clear -> "disable, enable"
                     [] fault /\ ~clear -> "disable" [] clear /\ ~fault -> "enable"
                     [] OTHER -> "waiting"
        /\ speaker_fault_active' = ((speaker_fault_active \/ fault) /\ ~clear)
    BY <1>8, Zenon DEF TakeBits
  <2>4. /\ (spk' = "waiting" => ~fault /\ ~clear)
        /\ (spk' = "disable" => fault /\ ~clear)
    <3>1. /\ (fault /\ clear => spk' = "disable, enable")
          /\ (fault /\ ~clear => spk' = "disable")
          /\ (clear /\ ~fault => spk' = "enable")
          /\ (~fault /\ ~clear => spk' = "waiting")
      <4> HIDE DEF fault, clear
      <4> QED
        BY <2>3
    <3> HIDE DEF fault, clear
    <3> QED
      BY <3>1
  <2>5. speaker_fault_active' <=> ((speaker_fault_active \/ fault) /\ ~clear)
    BY <2>3, Zenon
  <2>2. /\ (spk' = "waiting" => (speaker_fault_active' <=> speaker_fault_active))
        /\ (spk' = "disable" => speaker_fault_active')
    <3> HIDE DEF fault, clear
    <3> QED
      BY <2>4, <2>5
  <2> QED
    BY <1>0, <2>1, <2>2
<1>9. CASE ReadControl
  <2>1. ctrl2'[1] = power
    BY <1>9 DEF ReadControl, Read
  <2> QED
    BY <1>0, <1>9, <2>1, AmplifierAssumption DEF ReadControl, Take, chipVars, taskVars
<1>10. CASE tas58xx_enable_speaker
  BY <1>0, <1>10, AmplifierAssumption DEF tas58xx_enable_speaker, Give, taskVars
<1> QED
  BY <1>1, <1>2, <1>3, <1>4, <1>5, <1>6, <1>7, <1>8, <1>9, <1>10
  DEF AmplifierNext

-----------------------------------------------------------------------------
(* The pair.  A beacon in the air to a box comes from a master, which only  *)
(* a power cycle makes anything else, and that outlives the beacon.         *)
BeaconsFromMasters ==
  \A b \in Boxes : "beacon" \in air[b] => role[Other(b)] = "MASTER"

PairIInv == TwsTypeOK /\ NeverBothSlaves /\ BeaconsFromMasters

LEMMA TheOther ==
  ASSUME NEW b \in Boxes
  PROVE  /\ Other(b) \in Boxes /\ Other(b) # b
         /\ \A c \in Boxes : c = b \/ c = Other(b)
         /\ Other(Other(b)) = b
BY TwsAssumption DEF Other

LEMMA RestartsBound == MaxRestarts \in Nat
BY TwsAssumption

LEMMA PairStarts ==
  ASSUME TwsInit
  PROVE  PairIInv
<1>3. restarts = 0
  BY DEF TwsInit
<1>0. restarts \in 0 .. MaxRestarts
  BY <1>3, RestartsBound
<1>1. TwsTypeOK
  BY <1>0 DEF TwsInit, TwsTypeOK
<1>2. BeaconsFromMasters
  BY DEF TwsInit, BeaconsFromMasters
<1>4. NeverBothSlaves
  BY TwsAssumption DEF TwsInit, NeverBothSlaves
<1> QED
  BY <1>1, <1>2, <1>4 DEF PairIInv

LEMMA PairRests ==
  ASSUME PairIInv, UNCHANGED twsVars
  PROVE  PairIInv'
BY DEF PairIInv, TwsTypeOK, NeverBothSlaves, BeaconsFromMasters, twsVars

LEMMA PairSteps ==
  ASSUME PairIInv, TwsNext
  PROVE  PairIInv'
<1> PICK b \in Boxes : \/ RunOut(b) \/ become_master(b) \/ Beacon(b) \/ SlaveTimeout(b)
                       \/ HearBeacon(b) \/ HearAck(b) \/ Lost(b) \/ PowerCycle(b)
  BY DEF TwsNext
<1> DEFINE o == Other(b)
<1>1. o \in Boxes /\ o # b /\ (\A c \in Boxes : c = b \/ c = o) /\ Other(o) = b
  BY TheOther
<1>2. TwsTypeOK /\ (role[b] # "SLAVE" \/ role[o] # "SLAVE")
      /\ ("beacon" \in air[b] => role[o] = "MASTER")
      /\ ("beacon" \in air[o] => role[b] = "MASTER")
  BY <1>1 DEF PairIInv, NeverBothSlaves, BeaconsFromMasters
<1> SUFFICES TwsTypeOK' /\ (role'[b] # "SLAVE" \/ role'[o] # "SLAVE")
             /\ ("beacon" \in air'[b] => role'[o] = "MASTER")
             /\ ("beacon" \in air'[o] => role'[b] = "MASTER")
  BY <1>1 DEF PairIInv, NeverBothSlaves, BeaconsFromMasters
<1> HIDE DEF o
<1> USE RestartsBound DEF TwsTypeOK
<1>3. CASE RunOut(b) \/ become_master(b) \/ SlaveTimeout(b)
  BY <1>1, <1>2, <1>3 DEF RunOut, become_master, SlaveTimeout
<1>4. CASE Beacon(b)
  BY <1>1, <1>2, <1>4 DEF Beacon, o
<1>5. CASE HearBeacon(b)
  BY <1>1, <1>2, <1>5 DEF HearBeacon, o
<1>6. CASE HearAck(b) \/ Lost(b)
  <2>1. PICK p : air' = [air EXCEPT ![b] = @ \ {p}]
    BY <1>6 DEF HearAck, Lost
  <2>2. role' = role /\ timer' = timer /\ restarts' = restarts
        /\ slave_conn' \in [Boxes -> BOOLEAN]
    BY <1>2, <1>6 DEF HearAck, Lost
  <2> QED
    BY <1>1, <1>2, <2>1, <2>2
<1>7. CASE PowerCycle(b)
  <2>1. air'[b] = {} /\ air'[o] = {} /\ air' \in [Boxes -> SUBSET {"beacon", "ack"}]
    BY <1>1, <1>2, <1>7 DEF PowerCycle, o
  <2>2. role'[b] = "SEARCHING" /\ role' \in [Boxes -> {"SEARCHING", "MASTER", "SLAVE"}]
        /\ slave_conn' \in [Boxes -> BOOLEAN] /\ timer' \in [Boxes -> {"", "search", "slave"}]
    BY <1>2, <1>7 DEF PowerCycle
  <2>3. restarts' = restarts + 1 /\ restarts < MaxRestarts /\ restarts \in 0 .. MaxRestarts
    BY <1>2, <1>7 DEF PowerCycle
  <2>4. restarts' \in 0 .. MaxRestarts
    BY <2>3
  <2>5. TwsTypeOK'
    BY <2>1, <2>2, <2>4, Zenon
  <2> QED
    BY <2>1, <2>2, <2>5
<1> QED
  BY <1>3, <1>4, <1>5, <1>6, <1>7

-----------------------------------------------------------------------------
(* The flash.  The key pair: a secret half that is stored is the half of    *)
(* the stored public one, so hap_init, which makes a new pair only while    *)
(* there is none, never replaces a pair that was announced.                 *)
KeyTypes ==
  /\ keys \in [{"public", "secret"} -> Nat] /\ generated \in Nat
  /\ identity \in [at : {"off", "generate", "public", "secret", "ready"},
                   public : Nat, secret : Nat]
OnePair ==
  /\ keys["secret"] # 0 => keys["public"] = keys["secret"]
  /\ announced = {} \/ (keys["secret"] # 0 /\ announced = {keys["public"]})
PairInTheMaking ==
  /\ identity.at \in {"generate", "public", "secret"} => keys["secret"] = 0 \/ keys["public"] = 0
  /\ identity.at \in {"public", "secret"} =>
       identity.public = identity.secret /\ identity.public # 0
  /\ identity.at = "secret" => keys["public"] = identity.public
  /\ identity.at = "ready" =>
       /\ identity.public = identity.secret /\ keys["public"] = identity.public
       /\ keys["secret"] = identity.secret /\ identity.public # 0
       /\ announced = {identity.public}

IdentityIInv == KeyTypes /\ OnePair /\ PairInTheMaking

LEMMA IdentityHolds ==
  ASSUME IdentityIInv
  PROVE  IdentityStays
<1> SUFFICES ASSUME identity.at = "ready"
             PROVE  keys = [public |-> identity.public, secret |-> identity.secret]
  BY DEF IdentityIInv, PairInTheMaking, IdentityStays
<1>1. keys \in [{"public", "secret"} -> Nat]
      /\ keys["public"] = identity.public /\ keys["secret"] = identity.secret
  BY DEF IdentityIInv, KeyTypes, PairInTheMaking
<1> QED
  BY <1>1

LEMMA IdentityStarts ==
  ASSUME StorageInit
  PROVE  IdentityIInv
<1>1. keys["public"] = 0 /\ keys["secret"] = 0 /\ identity.at = "off" /\ announced = {}
  BY DEF StorageInit, NoIdentity
<1>2. KeyTypes
  BY DEF StorageInit, NoIdentity, KeyTypes
<1> QED
  BY <1>1, <1>2 DEF IdentityIInv, OnePair, PairInTheMaking

LEMMA IdentityKept ==
  ASSUME IdentityIInv, UNCHANGED identityVars
  PROVE  IdentityIInv'
BY DEF IdentityIInv, KeyTypes, OnePair, PairInTheMaking, identityVars

LEMMA IdentityBoots ==
  ASSUME IdentityIInv, NEW kept \in BOOLEAN, Boot(kept)
  PROVE  IdentityIInv'
<1>1. identity'.at = "off" /\ identity' = NoIdentity /\ generated' = generated
  BY DEF Boot, NoIdentity
<1>2. CASE kept
  <2>1. keys' = keys /\ announced' = announced
    BY <1>2 DEF Boot
  <2> QED
    BY <1>1, <2>1 DEF IdentityIInv, KeyTypes, OnePair, PairInTheMaking, NoIdentity
<1>3. CASE ~kept
  <2>1. keys' = [public |-> 0, secret |-> 0] /\ announced' = {}
    BY <1>3 DEF Boot
  <2>2. keys'["public"] = 0 /\ keys'["secret"] = 0 /\ keys' \in [{"public", "secret"} -> Nat]
    BY <2>1
  <2> QED
    BY <1>1, <2>1, <2>2 DEF IdentityIInv, KeyTypes, OnePair, PairInTheMaking, NoIdentity
<1> QED
  BY <1>2, <1>3

LEMMA IdentityMade ==
  ASSUME IdentityIInv, hap_init
  PROVE  IdentityIInv'
<1> USE DEF IdentityIInv, KeyTypes, OnePair, PairInTheMaking
<1>1. CASE identity.at = "off"
  <2> DEFINE found == keys.public # 0 /\ keys.secret # 0
  <2>1. /\ identity' = [at |-> IF found THEN "ready" ELSE "generate",
                        public |-> keys.public, secret |-> keys.secret]
        /\ announced' = IF found THEN announced \cup {keys.public} ELSE announced
        /\ keys' = keys /\ generated' = generated
    BY <1>1 DEF hap_init
  <2> QED
    BY <2>1
<1>2. CASE identity.at = "generate"
  BY <1>2 DEF hap_init
<1>3. CASE identity.at = "public"
  BY <1>3 DEF hap_init
<1>4. CASE identity.at = "secret"
  BY <1>4 DEF hap_init
<1> QED
  BY <1>1, <1>2, <1>3, <1>4 DEF hap_init

(* The settings and the web server's request.  Only the request's own steps *)
(* write the credentials, and the other settings of the web page are        *)
(* written while there is none.                                             *)
Values == StoredValues \cup {Absent}

SettingTypes ==
  /\ nvs \in [NvsKeys -> Values]
  /\ ram \in [volume : Values, bt : Values, eq : Values, bright : Values]
  /\ persisting \in [RtspTasks -> StoredValues \cup {NoVolume}]
RequestTypes ==
  web \in [op : {"none", "wifi", "ota", "upload", "restart"},
           at : {"idle", "ssid", "pass", "receive", "write", "end", "boot", "failed", "restart"},
           ssid : Values, pass : Values, whole : BOOLEAN]
FirmwareTypes ==
  firmware \in [running : Slots, boot : Slots, image : [Slots -> {"whole", "partial"}]]

(* How far a request has come. *)
RequestUnderWay ==
  /\ web.op = "wifi" => web.at \in {"ssid", "pass", "restart"}
  /\ web.op = "ota" => web.at \in {"receive", "write", "end", "boot", "failed", "restart"}
  /\ web.at \in {"ssid", "pass"} => web.op = "wifi"
  /\ web.op = "upload" => web.at = "receive"
  /\ web.op = "none" => web.at = "idle"
StoredSoFar ==
  /\ web.at = "pass" => nvs["wifi_ssid"] = web.ssid
  /\ web.op = "wifi" /\ web.at = "restart" =>
       nvs["wifi_ssid"] = web.ssid /\ nvs["wifi_pass"] = web.pass
WrittenSoFar ==
  /\ web.op = "ota" /\ web.at \in {"boot", "restart"} => firmware.image[OtherSlot] = "whole"
  /\ web.op = "ota" /\ web.at = "restart" => firmware.boot = OtherSlot

RequestIInv ==
  /\ SettingTypes /\ RequestTypes /\ FirmwareTypes
  /\ CopiesAreStored /\ RequestUnderWay /\ StoredSoFar /\ WrittenSoFar

LEMMA RequestStarts ==
  ASSUME StorageInit
  PROVE  RequestIInv
<1>1. SettingTypes
  BY DEF StorageInit, SettingTypes, Values
<1>2. RequestTypes /\ web = WebIdle
  BY DEF StorageInit, WebIdle, RequestTypes, Values
<1>3. FirmwareTypes
  BY DEF StorageInit, FirmwareTypes, Slots
<1>4. CopiesAreStored
  BY DEF StorageInit, CopiesAreStored, NvsKeys
<1> QED
  BY <1>1, <1>2, <1>3, <1>4 DEF RequestIInv, RequestUnderWay, StoredSoFar, WrittenSoFar, WebIdle

LEMMA RequestRests ==
  ASSUME RequestIInv, UNCHANGED << settingVars, web, firmware >>
  PROVE  RequestIInv'
<1> USE DEF settingVars
<1>1. SettingTypes' /\ RequestTypes' /\ FirmwareTypes'
  BY DEF RequestIInv, SettingTypes, RequestTypes, FirmwareTypes
<1>2. CopiesAreStored' /\ RequestUnderWay' /\ StoredSoFar' /\ WrittenSoFar'
  BY DEF RequestIInv, CopiesAreStored, RequestUnderWay, StoredSoFar, WrittenSoFar, OtherSlot
<1> QED
  BY <1>1, <1>2 DEF RequestIInv

LEMMA RequestBoots ==
  ASSUME RequestIInv, NEW kept \in BOOLEAN, Boot(kept)
  PROVE  RequestIInv'
<1>1. /\ SettingTypes' /\ ram'.eq = nvs'["eq_gains"] /\ ram'.bright = nvs'["led_bright"]
  <2>1. nvs' \in [NvsKeys -> Values]
    BY DEF Boot, RequestIInv, SettingTypes, Values
  <2>2. /\ ram' = [volume |-> nvs'["volume_db"], bt |-> Absent, eq |-> nvs'["eq_gains"],
                   bright |-> nvs'["led_bright"]]
        /\ persisting' = [t \in RtspTasks |-> NoVolume]
    BY DEF Boot
  <2> QED
    BY <2>1, <2>2 DEF SettingTypes, Values, NvsKeys
<1>2. RequestTypes' /\ web' = WebIdle
  BY DEF Boot, WebIdle, RequestTypes, Values
<1>3. FirmwareTypes'
  BY DEF Boot, RequestIInv, FirmwareTypes
<1> QED
  BY <1>1, <1>2, <1>3 DEF RequestIInv, CopiesAreStored, RequestUnderWay, StoredSoFar,
     WrittenSoFar, WebIdle

(* A step that stores settings, the request as it was. *)
SettingStored ==
  \/ \E v \in StoredValues :
       \/ settings_set_volume(v) \/ settings_set_bt_volume(v) \/ settings_set_device_name(v)
       \/ settings_set_led_brightness(v) \/ settings_set_eq_gains(v)
  \/ \E t \in RtspTasks : settings_persist_volume(t)
  \/ settings_get_bt_volume \/ settings_persist_bt_volume

LEMMA SettingsStored ==
  ASSUME RequestIInv, SettingStored
  PROVE  RequestIInv'
<1>1. /\ web' = web /\ firmware' = firmware
      /\ SettingTypes /\ RequestTypes /\ FirmwareTypes /\ CopiesAreStored
      /\ RequestUnderWay /\ StoredSoFar /\ WrittenSoFar
  BY DEF SettingStored, settings_set_volume, settings_set_bt_volume, settings_set_device_name,
     settings_set_led_brightness, settings_set_eq_gains, settings_persist_volume,
     settings_get_bt_volume, settings_persist_bt_volume, updateVars, RequestIInv
<1> SUFFICES /\ SettingTypes' /\ CopiesAreStored'
             /\ nvs'["wifi_ssid"] = nvs["wifi_ssid"] /\ nvs'["wifi_pass"] = nvs["wifi_pass"]
  BY <1>1 DEF RequestIInv, RequestTypes, FirmwareTypes, RequestUnderWay, StoredSoFar,
     WrittenSoFar, OtherSlot
<1> USE <1>1 DEF SettingTypes, CopiesAreStored, Writes, Fails, Values, NvsKeys
<1>2. ASSUME NEW v \in StoredValues, settings_set_volume(v) \/ settings_set_bt_volume(v)
      PROVE  /\ SettingTypes' /\ CopiesAreStored'
             /\ nvs'["wifi_ssid"] = nvs["wifi_ssid"] /\ nvs'["wifi_pass"] = nvs["wifi_pass"]
  BY <1>2 DEF settings_set_volume, settings_set_bt_volume
<1>3. ASSUME NEW v \in StoredValues, settings_set_device_name(v)
      PROVE  /\ SettingTypes' /\ CopiesAreStored'
             /\ nvs'["wifi_ssid"] = nvs["wifi_ssid"] /\ nvs'["wifi_pass"] = nvs["wifi_pass"]
  BY <1>3 DEF settings_set_device_name
<1>4. ASSUME NEW v \in StoredValues, settings_set_led_brightness(v)
      PROVE  /\ SettingTypes' /\ CopiesAreStored'
             /\ nvs'["wifi_ssid"] = nvs["wifi_ssid"] /\ nvs'["wifi_pass"] = nvs["wifi_pass"]
  BY <1>4 DEF settings_set_led_brightness
<1>5. ASSUME NEW v \in StoredValues, settings_set_eq_gains(v)
      PROVE  /\ SettingTypes' /\ CopiesAreStored'
             /\ nvs'["wifi_ssid"] = nvs["wifi_ssid"] /\ nvs'["wifi_pass"] = nvs["wifi_pass"]
  BY <1>5 DEF settings_set_eq_gains
<1>6. ASSUME NEW t \in RtspTasks, settings_persist_volume(t)
      PROVE  /\ SettingTypes' /\ CopiesAreStored'
             /\ nvs'["wifi_ssid"] = nvs["wifi_ssid"] /\ nvs'["wifi_pass"] = nvs["wifi_pass"]
  <2>1. CASE persisting[t] = NoVolume
    BY <1>6, <2>1 DEF settings_persist_volume
  <2>2. CASE persisting[t] # NoVolume
    BY <1>6, <2>2 DEF settings_persist_volume
  <2> QED
    BY <2>1, <2>2
<1>7. CASE settings_get_bt_volume
  BY <1>7 DEF settings_get_bt_volume
<1>8. CASE settings_persist_bt_volume
  BY <1>8 DEF settings_persist_bt_volume
<1> QED
  BY <1>2, <1>3, <1>4, <1>5, <1>6, <1>7, <1>8 DEF SettingStored

(* A step of the request, the settings' copies as they were. *)
LEMMA CredentialsStored ==
  ASSUME RequestIInv, StoreCredentials
  PROVE  RequestIInv'
<1>1. /\ SettingTypes /\ RequestTypes /\ FirmwareTypes /\ CopiesAreStored
      /\ RequestUnderWay /\ StoredSoFar
      /\ ram' = ram /\ persisting' = persisting /\ firmware' = firmware
      /\ web.op = "wifi"
  BY DEF RequestIInv, StoreCredentials, settings_set_wifi_credentials, updateVars,
     RequestUnderWay
<1> USE DEF SettingTypes, RequestTypes, FirmwareTypes, NvsKeys, CopiesAreStored, RequestUnderWay,
        StoredSoFar, WrittenSoFar
<1>2. ASSUME NEW k \in {"wifi_ssid", "wifi_pass"}, NEW v \in Values, NEW next \in {"pass", "restart"},
             Writes(k, v), web' = [web EXCEPT !.at = next],
             next = "pass" => k = "wifi_ssid" /\ v = web.ssid,
             next = "restart" => k = "wifi_pass" /\ v = web.pass /\ nvs["wifi_ssid"] = web.ssid
      PROVE  RequestIInv'
  <2>1. nvs' \in [NvsKeys -> Values] /\ nvs'[k] = v
        /\ \A x \in NvsKeys \ {k} : nvs'[x] = nvs[x]
    BY <1>1, <1>2 DEF Writes
  <2>2. /\ web' \in [op : {"none", "wifi", "ota", "upload", "restart"},
                     at : {"idle", "ssid", "pass", "receive", "write", "end", "boot", "failed",
                           "restart"},
                     ssid : Values, pass : Values, whole : BOOLEAN]
        /\ web'.op = "wifi" /\ web'.at = next /\ web'.ssid = web.ssid /\ web'.pass = web.pass
    BY <1>1, <1>2
  <2> QED
    BY <1>1, <1>2, <2>1, <2>2 DEF RequestIInv
<1>3. CASE Fails /\ web' = WebIdle
  BY <1>1, <1>3 DEF Fails, WebIdle, RequestIInv, Values
<1>4. web.ssid \in Values /\ web.pass \in Values
  BY <1>1
<1>5. CASE web.at = "ssid"
  BY <1>2, <1>3, <1>4, <1>5 DEF StoreCredentials, settings_set_wifi_credentials
<1>6. CASE web.at = "pass"
  BY <1>1, <1>2, <1>3, <1>4, <1>6 DEF StoreCredentials, settings_set_wifi_credentials
<1> QED
  BY <1>5, <1>6 DEF StoreCredentials, settings_set_wifi_credentials

(* A request that begins, or is done with. *)
FirstRequests ==
  [op : {"wifi"}, at : {"ssid"}, ssid : StoredValues, pass : StoredValues, whole : BOOLEAN]
  \union [op : {"ota", "upload"}, at : {"receive"}, ssid : {Absent}, pass : {Absent},
          whole : BOOLEAN]
  \union [op : {"restart"}, at : {"restart"}, ssid : {Absent}, pass : {Absent}, whole : BOOLEAN]
  \union {WebIdle}

LEMMA RequestBegins ==
  ASSUME RequestIInv, UNCHANGED << settingVars, firmware >>,
         web' \in FirstRequests
  PROVE  RequestIInv'
<1>1. SettingTypes' /\ FirmwareTypes' /\ CopiesAreStored'
  BY DEF RequestIInv, SettingTypes, FirmwareTypes, CopiesAreStored, settingVars
<1>2. RequestTypes'
  <2>1. CASE web' = WebIdle
    BY <2>1 DEF RequestTypes, Values, WebIdle
  <2>2. CASE web' # WebIdle
    BY <2>2 DEF FirstRequests, RequestTypes, Values
  <2> QED
    BY <2>1, <2>2
<1>3. RequestUnderWay' /\ StoredSoFar' /\ WrittenSoFar'
  BY DEF FirstRequests, RequestUnderWay, StoredSoFar, WrittenSoFar, WebIdle
<1> QED
  BY <1>1, <1>2, <1>3 DEF RequestIInv

(* The update: the other slot is written, checked, and made the one to boot. *)
LEMMA UpdateGoesOn ==
  ASSUME RequestIInv, Update
  PROVE  RequestIInv'
<1>1. /\ SettingTypes /\ RequestTypes /\ FirmwareTypes /\ CopiesAreStored
      /\ RequestUnderWay /\ WrittenSoFar /\ web.op = "ota"
      /\ nvs' = nvs /\ ram' = ram /\ persisting' = persisting
  BY DEF RequestIInv, Update, settingVars
<1>2. OtherSlot \in Slots /\ firmware.running \in Slots
  BY <1>1 DEF OtherSlot, Slots, FirmwareTypes
<1>3. SettingTypes' /\ CopiesAreStored'
  BY <1>1 DEF SettingTypes, CopiesAreStored
<1>4. ASSUME NEW at \in {"write", "end", "boot", "failed", "restart"}, OtaGoes(at)
      PROVE  /\ RequestTypes' /\ RequestUnderWay' /\ StoredSoFar'
             /\ web'.at = at /\ web'.op = "ota"
  <2>1. RequestTypes' /\ web'.at = at /\ web'.op = "ota"
    BY <1>1, <1>4 DEF OtaGoes, RequestTypes
  <2> QED
    BY <2>1 DEF RequestUnderWay, StoredSoFar
<1>5. ASSUME NEW i \in {"whole", "partial"}, OtherImage(i)
      PROVE  FirmwareTypes' /\ OtherSlot' = OtherSlot /\ firmware'.image[OtherSlot] = i
  BY <1>1, <1>2, <1>5 DEF OtherImage, FirmwareTypes, OtherSlot
<1>6. ASSUME NEW at \in {"write", "end", "failed"}, OtaGoes(at), FirmwareTypes'
      PROVE  RequestIInv'
  BY <1>3, <1>4, <1>6 DEF RequestIInv, WrittenSoFar
<1>7. CASE UNCHANGED firmware /\ \E at \in {"write", "end", "failed"} : OtaGoes(at)
  BY <1>1, <1>6, <1>7 DEF FirmwareTypes
<1>8. CASE OtherImage("partial") /\ \E at \in {"write", "end", "failed"} : OtaGoes(at)
  BY <1>5, <1>6, <1>8
<1>9. CASE OtherImage("whole") /\ (OtaGoes("boot") \/ OtaGoes("failed"))
  <2>1. FirmwareTypes' /\ OtherSlot' = OtherSlot /\ firmware'.image[OtherSlot] = "whole"
    BY <1>5, <1>9
  <2>2. CASE OtaGoes("boot")
    BY <1>3, <1>4, <2>1, <2>2 DEF RequestIInv, WrittenSoFar
  <2> QED
    BY <1>6, <1>9, <2>1, <2>2
<1>10. CASE web.at = "boot" /\ firmware' = [firmware EXCEPT !.boot = OtherSlot]
            /\ OtaGoes("restart")
  <2>1. /\ FirmwareTypes' /\ firmware'.running = firmware.running
        /\ firmware'.image = firmware.image /\ firmware'.boot = OtherSlot
    BY <1>1, <1>2, <1>10 DEF FirmwareTypes
  <2>2. firmware.image[OtherSlot] = "whole"
    BY <1>1, <1>10 DEF WrittenSoFar
  <2>3. OtherSlot' = OtherSlot
    BY <2>1 DEF OtherSlot
  <2> QED
    BY <1>3, <1>4, <1>10, <2>1, <2>2, <2>3 DEF RequestIInv, WrittenSoFar
<1>11. CASE OtaFailed
  BY <1>11, RequestBegins DEF OtaFailed, Update, FirstRequests
<1>12. CASE ota_buffered
  BY <1>7, <1>8, <1>12 DEF ota_buffered
<1>13. CASE ota_streaming
  BY <1>8, <1>13 DEF ota_streaming
<1>14. CASE OtaEnds
  BY <1>7, <1>9, <1>10, <1>14 DEF OtaEnds
<1> QED
  BY <1>11, <1>12, <1>13, <1>14 DEF Update

-----------------------------------------------------------------------------
(* The flash, all of it. *)
CounterTypes ==
  airplay \in BOOLEAN /\ stores \in 0 .. MaxStores /\ powerCuts \in 0 .. MaxPowerCuts

FlashIInv == IdentityIInv /\ RequestIInv /\ CounterTypes

LEMMA FlashHolds ==
  ASSUME FlashIInv
  PROVE  StorageTypeOK /\ FlashInv
<1>1. FlashInv
  BY IdentityHolds DEF FlashIInv, FlashInv, RequestIInv, RestartsAsAsked, StoredSoFar,
     WrittenSoFar
<1>2. /\ nvs \in [NvsKeys -> Values]
      /\ ram \in [volume : Values, bt : Values, eq : Values, bright : Values]
      /\ persisting \in [RtspTasks -> StoredValues \cup {NoVolume}]
      /\ keys \in [{"public", "secret"} -> Nat]
      /\ firmware.boot \in Slots /\ firmware.running \in Slots
  BY DEF FlashIInv, IdentityIInv, KeyTypes, RequestIInv, SettingTypes, FirmwareTypes
<1>3. \A x \in {"volume", "bt", "eq", "bright"} : ram[x] \in Values
  BY <1>2
<1> QED
  BY <1>1, <1>2, <1>3 DEF StorageTypeOK, FlashIInv, CounterTypes, Values

LEMMA FlashStarts ==
  ASSUME StorageInit
  PROVE  FlashIInv
<1>1. airplay \in BOOLEAN /\ stores = 0 /\ powerCuts = 0
  BY DEF StorageInit
<1>2. CounterTypes
  BY <1>1, StorageAssumption DEF CounterTypes
<1> QED
  BY <1>2, IdentityStarts, RequestStarts DEF FlashIInv

LEMMA FlashRests ==
  ASSUME FlashIInv, UNCHANGED storageVars
  PROVE  FlashIInv'
BY IdentityKept, RequestRests DEF FlashIInv, CounterTypes, storageVars, identityVars, settingVars

(* What each step of the storage is to the identity, the request, the counters. *)
LEMMA CountersCount ==
  ASSUME CounterTypes, StorageNext
  PROVE  CounterTypes'
<1> USE StorageAssumption DEF CounterTypes, Stored
<1>1. airplay' \in BOOLEAN
  <2>1. airplay' = airplay \/ airplay' \in BOOLEAN
    BY DEF StorageNext, PowerCut, Identify, Restart, Boot, hap_init, settings_set_volume,
       settings_set_bt_volume, settings_persist_volume, settings_get_bt_volume,
       settings_persist_bt_volume, wifi_config_handler, Request, StoreCredentials,
       settings_set_device_name, settings_set_led_brightness, settings_set_eq_gains,
       ota_update_handler, Update, fs_upload_handler, fs_delete_handler,
       system_restart_handler, updateVars
  <2> QED
    BY <2>1, Zenon
<1>2. stores' = stores \/ (stores < MaxStores /\ stores' = stores + 1)
  BY DEF StorageNext, PowerCut, Identify, Restart, Boot, settings_set_volume,
     settings_set_bt_volume, settings_persist_volume, settings_get_bt_volume,
     settings_persist_bt_volume, wifi_config_handler, Request, StoreCredentials,
     settings_set_device_name, settings_set_led_brightness, settings_set_eq_gains,
     ota_update_handler, Update, fs_upload_handler, fs_delete_handler, system_restart_handler
<1>3. powerCuts' = powerCuts \/ (powerCuts < MaxPowerCuts /\ powerCuts' = powerCuts + 1)
  BY DEF StorageNext, PowerCut, Identify, Restart, settings_set_volume,
     settings_set_bt_volume, settings_persist_volume, settings_get_bt_volume,
     settings_persist_bt_volume, wifi_config_handler, Request, StoreCredentials,
     settings_set_device_name, settings_set_led_brightness, settings_set_eq_gains,
     ota_update_handler, Update, fs_upload_handler, fs_delete_handler, system_restart_handler
<1> QED
  BY <1>1, <1>2, <1>3

LEMMA FlashSteps ==
  ASSUME FlashIInv, StorageNext
  PROVE  FlashIInv'
<1> USE DEF FlashIInv
<1>1. CounterTypes'
  BY CountersCount
<1>2. CASE PowerCut \/ Restart
  <2>1. PICK kept \in BOOLEAN : Boot(kept)
    BY <1>2 DEF PowerCut, Restart
  <2> QED
    BY <1>1, <2>1, IdentityBoots, RequestBoots
<1>3. CASE Identify
  <2>1. hap_init /\ UNCHANGED << settingVars, web, firmware >>
    BY <1>3 DEF Identify
  <2> QED
    BY <1>1, <2>1, IdentityMade, RequestRests
<1>4. CASE SettingStored
  <2>1. UNCHANGED identityVars
    BY <1>4 DEF SettingStored, settings_set_volume, settings_set_bt_volume,
       settings_set_device_name, settings_set_led_brightness, settings_set_eq_gains,
       settings_persist_volume, settings_get_bt_volume, settings_persist_bt_volume
  <2> QED
    BY <1>1, <1>4, <2>1, IdentityKept, SettingsStored
<1>5. CASE StoreCredentials
  BY <1>1, <1>5, IdentityKept, CredentialsStored DEF StoreCredentials
<1>6. CASE Update
  BY <1>1, <1>6, IdentityKept, UpdateGoesOn DEF Update
<1>7. CASE wifi_config_handler \/ system_restart_handler \/ ota_update_handler \/ fs_upload_handler
  <2>1. UNCHANGED << settingVars, firmware >> /\ UNCHANGED identityVars
    BY <1>7 DEF wifi_config_handler, system_restart_handler, ota_update_handler,
       fs_upload_handler, Request, updateVars
  <2>2. web' \in FirstRequests
    <3>1. CASE wifi_config_handler
      BY <3>1 DEF wifi_config_handler, Request, FirstRequests
    <3>2. CASE system_restart_handler
      BY <3>2 DEF system_restart_handler, Request, FirstRequests
    <3>3. CASE ota_update_handler
      BY <3>3 DEF ota_update_handler, WebIdle, FirstRequests
    <3>4. CASE fs_upload_handler
      BY <3>4 DEF fs_upload_handler, WebIdle, FirstRequests
    <3> QED
      BY <1>7, <3>1, <3>2, <3>3, <3>4
  <2> QED
    BY <1>1, <2>1, <2>2, IdentityKept, RequestBegins
<1>8. CASE fs_delete_handler
  BY <1>1, <1>8, IdentityKept, RequestRests DEF fs_delete_handler
<1> QED
  BY <1>2, <1>3, <1>4, <1>5, <1>6, <1>7, <1>8 DEF StorageNext, SettingStored

-----------------------------------------------------------------------------
(* The log's ring: between tail and head are the lines up to the last, one  *)
(* place after the other, the place after the last being the first.         *)
Places == 0 .. LOG_RING_SIZE - 1
Wrap(x) == IF x < LOG_RING_SIZE THEN x ELSE x - LOG_RING_SIZE
Filled(h, t) == IF h >= t THEN h - t ELSE h + LOG_RING_SIZE - t

Newest(r, h, t, last) ==
  \A k \in 1 .. Filled(h, t) : r[Wrap(t + k - 1)] = last - Filled(h, t) + k

RingIInv ==
  /\ ring \in [Places -> Int] /\ head \in Places /\ tail \in Places
  /\ lastLine \in 0 .. MaxLines /\ taken \in Int
  /\ Newest(ring, head, tail, lastLine)
  /\ lastLine - Filled(head, tail) > taken => Filled(head, tail) = LOG_RING_SIZE - 1

LEMMA WrapIs ==
  ASSUME NEW x \in 0 .. 2 * LOG_RING_SIZE - 1
  PROVE  x % LOG_RING_SIZE = Wrap(x) /\ Wrap(x) \in Places
<1>1. LOG_RING_SIZE \in Nat \ {0}
  BY LogAssumption
<1> QED
  BY <1>1 DEF Wrap, Places

LEMMA FilledIs ==
  ASSUME head \in Places, tail \in Places
  PROVE  /\ Used = Filled(head, tail) /\ Filled(head, tail) \in Places
         /\ NextPos(head) = Wrap(head + 1) /\ NextPos(tail) = Wrap(tail + 1)
<1>1. LOG_RING_SIZE \in Nat \ {0}
  BY LogAssumption
<1>2. /\ head + LOG_RING_SIZE - tail \in 0 .. 2 * LOG_RING_SIZE - 1
      /\ head + 1 \in 0 .. 2 * LOG_RING_SIZE - 1 /\ tail + 1 \in 0 .. 2 * LOG_RING_SIZE - 1
  BY <1>1 DEF Places
<1>3. Used = Wrap(head + LOG_RING_SIZE - tail)
  BY <1>2, WrapIs DEF Used
<1>4. Wrap(head + LOG_RING_SIZE - tail) = Filled(head, tail) /\ Filled(head, tail) \in Places
  BY <1>1 DEF Wrap, Filled, Places
<1> QED
  BY <1>2, <1>3, <1>4, WrapIs DEF NextPos

LEMMA InRingIs ==
  ASSUME head \in Places, tail \in Places, NEW k \in 1 .. Used
  PROVE  InRing[k] = ring[Wrap(tail + k - 1)]
<1>1. LOG_RING_SIZE \in Nat \ {0}
  BY LogAssumption
<1>2. Used \in Places
  BY FilledIs
<1>3. tail + k - 1 \in 0 .. 2 * LOG_RING_SIZE - 1
  BY <1>1, <1>2 DEF Places
<1> QED
  BY <1>3, WrapIs DEF InRing

LEMMA RingHolds ==
  ASSUME RingIInv
  PROVE  NewestKept
BY FilledIs, InRingIs DEF RingIInv, NewestKept, Newest

LEMMA RingWritten ==
  ASSUME RingIInv, ring_write, taken' = taken
  PROVE  RingIInv'
<1>1. LOG_RING_SIZE \in Nat \ {0} /\ MaxLines \in Nat
  BY LogAssumption
<1>2. /\ ring \in [Places -> Int] /\ head \in Places /\ tail \in Places
      /\ lastLine \in 0 .. MaxLines /\ taken \in Int
      /\ lastLine' \in 0 .. MaxLines /\ lastLine' = lastLine + 1
      /\ ring' = [ring EXCEPT ![head] = lastLine'] /\ head' = Wrap(head + 1)
      /\ tail' = IF Wrap(head + 1) = tail THEN Wrap(tail + 1) ELSE tail
  BY <1>1, FilledIs DEF RingIInv, ring_write
<1> DEFINE u == Filled(head, tail)
<1>3. /\ head' \in Places /\ tail' \in Places /\ ring' \in [Places -> Int]
      /\ u \in Places /\ ring'[head] = lastLine'
      /\ \A p \in Places : p # head => ring'[p] = ring[p]
  BY <1>1, <1>2, FilledIs DEF Wrap, Places
<1>4. CASE Wrap(head + 1) # tail
  <2>1. Filled(head', tail') = u + 1 /\ u + 1 <= LOG_RING_SIZE - 1 /\ tail' = tail
    BY <1>1, <1>2, <1>4 DEF Filled, Wrap, Places
  <2>2. ASSUME NEW k \in 1 .. u + 1
        PROVE  ring'[Wrap(tail + k - 1)] = lastLine' - (u + 1) + k
    <3>1. CASE k = u + 1
      <4>1. Wrap(tail + k - 1) = head
        BY <1>1, <1>2, <3>1 DEF Filled, Wrap, Places
      <4>2. lastLine' - (u + 1) + k = lastLine'
        <5>1. lastLine' \in Int /\ u \in Int
          BY <1>1, <1>2, <1>3 DEF Places
        <5> QED
          BY <3>1, <5>1
      <4> QED
        BY <1>3, <4>1, <4>2
    <3>2. CASE k # u + 1
      <4>1. k \in 1 .. u /\ Wrap(tail + k - 1) \in Places /\ Wrap(tail + k - 1) # head
        BY <1>1, <1>2, <1>3, <3>2 DEF Filled, Wrap, Places
      <4>2. ring[Wrap(tail + k - 1)] = lastLine - u + k
        BY <4>1 DEF RingIInv, Newest
      <4> QED
        BY <1>2, <1>3, <4>1, <4>2 DEF Places
    <3> QED
      BY <3>1, <3>2
  <2>3. Newest(ring, head, tail, lastLine)'
    BY <2>1, <2>2 DEF Newest
  <2>4. lastLine' - (u + 1) > taken' => u + 1 = LOG_RING_SIZE - 1
    <3>1. lastLine - u > taken => u = LOG_RING_SIZE - 1
      BY DEF RingIInv
    <3>2. u \in Int /\ lastLine \in Int /\ lastLine' = lastLine + 1
      BY <1>1, <1>2, <1>3 DEF Places
    <3>3. lastLine' - (u + 1) = lastLine - u
      BY <3>2
    <3>4. lastLine - u > taken /\ u = LOG_RING_SIZE - 1 => LOG_RING_SIZE <= LOG_RING_SIZE - 1
      BY <1>1, <2>1
    <3>5. ~(LOG_RING_SIZE <= LOG_RING_SIZE - 1)
      BY <1>1
    <3> QED
      BY <3>1, <3>3, <3>4, <3>5
  <2> QED
    BY <1>2, <1>3, <2>1, <2>3, <2>4 DEF RingIInv
<1>5. CASE Wrap(head + 1) = tail
  <2>1. Filled(head', tail') = u /\ u = LOG_RING_SIZE - 1 /\ tail' = Wrap(tail + 1)
    BY <1>1, <1>2, <1>5 DEF Filled, Wrap, Places
  <2>2. ASSUME NEW k \in 1 .. u
        PROVE  ring'[Wrap(tail' + k - 1)] = lastLine' - u + k
    <3>1. CASE k = u
      <4>1. Wrap(tail' + k - 1) = head
        BY <1>1, <1>2, <1>5, <2>1, <3>1 DEF Wrap, Places
      <4>2. u \in Int /\ lastLine' \in Int
        BY <1>1, <1>2, <1>3 DEF Places
      <4>3. lastLine' - u + k = lastLine'
        BY <3>1, <4>2
      <4> QED
        BY <1>3, <4>1, <4>3
    <3>2. CASE k # u
      <4>1. /\ k + 1 \in 1 .. u /\ Wrap(tail' + k - 1) = Wrap(tail + (k + 1) - 1)
            /\ Wrap(tail' + k - 1) \in Places /\ Wrap(tail' + k - 1) # head
        BY <1>1, <1>2, <1>3, <1>5, <2>1, <3>2 DEF Wrap, Places
      <4>2. ring[Wrap(tail + (k + 1) - 1)] = lastLine - u + (k + 1)
        BY <4>1 DEF RingIInv, Newest
      <4> QED
        BY <1>2, <1>3, <4>1, <4>2 DEF Places
    <3> QED
      BY <3>1, <3>2
  <2>3. Newest(ring, head, tail, lastLine)'
    BY <2>1, <2>2 DEF Newest
  <2> QED
    BY <1>2, <1>3, <2>1, <2>3 DEF RingIInv
<1> QED
  BY <1>4, <1>5

LEMMA RingRead ==
  ASSUME RingIInv, ring_read
  PROVE  RingIInv'
<1>1. LOG_RING_SIZE \in Nat \ {0} /\ MAX_SEND_CHUNK \in Nat \ {0}
  BY LogAssumption
<1> DEFINE u == Filled(head, tail)
           n == IF u < MAX_SEND_CHUNK THEN u ELSE MAX_SEND_CHUNK
<1>2. /\ ring \in [Places -> Int] /\ head \in Places /\ tail \in Places
      /\ lastLine \in 0 .. MaxLines /\ taken \in Int
      /\ u = Used /\ u \in Places /\ u > 0
  BY FilledIs DEF RingIInv, ring_read
<1>3. n \in 1 .. u /\ tail + n \in 0 .. 2 * LOG_RING_SIZE - 1
  BY <1>1, <1>2 DEF Places
<1>4. /\ taken' = InRing[n] /\ tail' = (tail + n) % LOG_RING_SIZE
      /\ UNCHANGED << ring, head, lastLine >>
  BY <1>2 DEF ring_read
<1> HIDE DEF n
<1>5. tail' = Wrap(tail + n) /\ tail' \in Places
  BY <1>3, <1>4, WrapIs
<1>6. taken' = lastLine - u + n
  BY <1>2, <1>3, <1>4, InRingIs DEF RingIInv, Newest
<1>7. Filled(head', tail') = u - n
  <2>1. n \in Int /\ n <= u /\ n > 0 /\ head' = head
    BY <1>2, <1>3, <1>4 DEF Places
  <2>2. CASE tail + n < LOG_RING_SIZE
    <3>1. tail' = tail + n
      BY <1>5, <2>2 DEF Wrap
    <3> QED
      BY <1>1, <1>2, <2>1, <2>2, <3>1 DEF Filled, Places
  <2>3. CASE ~(tail + n < LOG_RING_SIZE)
    <3>1. tail' = tail + n - LOG_RING_SIZE
      BY <1>1, <1>2, <1>5, <2>1, <2>3 DEF Wrap, Places
    <3> QED
      BY <1>1, <1>2, <2>1, <2>3, <3>1 DEF Filled, Places
  <2> QED
    BY <2>2, <2>3
<1>8. ASSUME NEW k \in 1 .. u - n
      PROVE  ring[Wrap(tail' + k - 1)] = lastLine - (u - n) + k
  <2>1. n + k \in 1 .. u /\ Wrap(tail' + k - 1) = Wrap(tail + (n + k) - 1)
    BY <1>1, <1>2, <1>3, <1>5 DEF Filled, Wrap, Places
  <2>2. ring[Wrap(tail + (n + k) - 1)] = lastLine - u + (n + k)
    BY <2>1 DEF RingIInv, Newest
  <2> QED
    BY <1>2, <1>3, <2>1, <2>2 DEF Places
<1>9. Newest(ring, head, tail, lastLine)'
  BY <1>4, <1>7, <1>8 DEF Newest
<1>10. taken' \in Int /\ ~(lastLine' - Filled(head', tail') > taken')
  BY <1>2, <1>3, <1>4, <1>6, <1>7 DEF Places
<1> QED
  BY <1>2, <1>4, <1>5, <1>9, <1>10 DEF RingIInv

(* The walk over the table, downwards: who was served are the last of the   *)
(* round, and below them the table is still the round's.  The one a client  *)
(* that is gone is replaced by has been served.                             *)
RoundIInv ==
  /\ clients \in Seq(Fds) /\ round \in Seq(Fds) /\ served \in Seq(Fds)
  /\ Len(clients) <= MAX_WS_CLIENTS /\ Len(served) <= Len(round)
  /\ \A k \in 1 .. Len(served) : served[k] = round[Len(round) - k + 1]
  /\ broadcast = "has" => clients # << >>
  /\ broadcast = "sends" =>
       /\ Len(served) < Len(round) /\ Len(round) - Len(served) <= Len(clients)
       /\ \A k \in 1 .. Len(round) - Len(served) : clients[k] = round[k]
  /\ broadcast # "sends" /\ served # << >> => Len(served) = Len(round)

LogTypes ==
  /\ socket \in [Fds -> {"closed", "page", "log", "registered"}]
  /\ broadcast \in {"sleeps", "has", "sends"} /\ opens \in 0 .. MaxOpens

LogIInv == RingIInv /\ RoundIInv /\ LogTypes

LEMMA RoundHolds ==
  ASSUME RoundIInv
  PROVE  ServedOnce
<1> SUFFICES ASSUME NEW f \in Fds
             PROVE  /\ Times(served, f) <= Times(round, f)
                    /\ Len(served) = Len(round) => Times(served, f) = Times(round, f)
  BY DEF RoundIInv, ServedOnce, Times
<1> DEFINE S == {i \in 1 .. Len(served) : served[i] = f}
           R == {i \in 1 .. Len(round) : round[i] = f}
           g == [i \in S |-> Len(round) - i + 1]
<1>1. /\ Len(served) \in Nat /\ Len(round) \in Nat /\ Len(served) <= Len(round)
      /\ \A k \in 1 .. Len(served) : served[k] = round[Len(round) - k + 1]
  BY DEF RoundIInv
<1>2. IsFiniteSet(R)
  <2>1. IsFiniteSet(1 .. Len(round)) /\ R \in SUBSET (1 .. Len(round))
    BY <1>1, FS_Interval
  <2> HIDE DEF R
  <2> QED
    BY <2>1, FS_Subset
<1>3. g \in Injection(S, R)
  <2>1. \A i \in S : Len(round) - i + 1 \in R
    BY <1>1
  <2>2. \A i, j \in S : Len(round) - i + 1 = Len(round) - j + 1 => i = j
    BY <1>1
  <2> HIDE DEF S, R
  <2>3. g \in [S -> R] /\ \A i, j \in S : g[i] = g[j] => i = j
    BY <2>1, <2>2
  <2> HIDE DEF g
  <2> QED
    BY <2>3 DEF Injection, IsInjective
<1>4. Cardinality(S) <= Cardinality(R)
      /\ (Cardinality(S) = Cardinality(R) <=> g \in Surjection(S, R))
  <2> HIDE DEF S, R, g
  <2> QED
    BY <1>2, <1>3, FS_Injection, Zenon
<1>5. ASSUME Len(served) = Len(round)
      PROVE  g \in Surjection(S, R)
  <2>1. ASSUME NEW r \in R
        PROVE  \E i \in S : g[i] = r
    <3>1. Len(round) - r + 1 \in 1 .. Len(served)
      BY <1>1, <1>5
    <3>2. served[Len(round) - r + 1] = round[r]
      BY <1>1, <3>1
    <3>3. Len(round) - r + 1 \in S /\ Len(round) - (Len(round) - r + 1) + 1 = r
      BY <1>1, <3>1, <3>2
    <3> QED
      BY <3>3
  <2>2. g \in [S -> R]
    BY <1>3 DEF Injection
  <2> HIDE DEF S, R, g
  <2> QED
    BY <2>1, <2>2 DEF Surjection
<1> QED
  BY <1>4, <1>5 DEF Times

LEMMA TableShrinks ==
  ASSUME clients \in Seq(Fds), NEW i \in 1 .. Len(clients)
  PROVE  /\ remove_client(i) \in Seq(Fds) /\ Len(remove_client(i)) = Len(clients) - 1
         /\ \A k \in 1 .. i - 1 : remove_client(i)[k] = clients[k]
<1> DEFINE n == Len(clients)
           e(k) == IF k = i THEN clients[n] ELSE clients[k]
<1>1. n \in Nat /\ n - 1 \in Nat /\ n \in 1 .. n /\ \A k \in 1 .. n : clients[k] \in Fds
  OBVIOUS
<1>2. remove_client(i) = [k \in 1 .. (n - 1) |-> e(k)]
  BY DEF remove_client
<1>3. \A k \in 1 .. (n - 1) : e(k) \in Fds
  BY <1>1
<1>4. [k \in 1 .. (n - 1) |-> e(k)] \in Seq(Fds)
  <2> HIDE DEF e, n
  <2> QED
    BY <1>1, <1>3, IsASeq
<1>5. DOMAIN remove_client(i) = 1 .. (n - 1)
  BY <1>2
<1>6. Len(remove_client(i)) = n - 1
  BY <1>1, <1>2, <1>4, <1>5, LenProperties
<1>7. \A k \in 1 .. i - 1 : remove_client(i)[k] = clients[k]
  BY <1>1, <1>2
<1> QED
  BY <1>2, <1>4, <1>6, <1>7

LEMMA NextServed ==
  ASSUME RoundIInv, SendToNext
  PROVE  RoundIInv'
<1> DEFINE i == Len(round) - Len(served)
<1>1. /\ broadcast = "sends" /\ round' = round
      /\ served' = Append(served, clients[i])
      /\ clients' = clients \/ clients' = remove_client(i)
      /\ broadcast' = IF i = 1 THEN "sleeps" ELSE "sends"
  BY DEF SendToNext, AfterSend
<1>2. /\ clients \in Seq(Fds) /\ round \in Seq(Fds) /\ served \in Seq(Fds)
      /\ Len(clients) \in Nat /\ Len(round) \in Nat /\ Len(served) \in Nat
      /\ i \in 1 .. Len(clients) /\ i \in 1 .. Len(round)
      /\ \A k \in 1 .. i : clients[k] = round[k]
      /\ Len(clients) <= MAX_WS_CLIENTS /\ MAX_WS_CLIENTS \in Nat
  BY <1>1, LogAssumption DEF RoundIInv
<1>3. clients[i] \in Fds /\ clients[i] = round[i]
  BY <1>2
<1>4. /\ served' \in Seq(Fds) /\ Len(served') = Len(served) + 1
      /\ \A k \in 1 .. Len(served) : served'[k] = served[k]
      /\ served'[Len(served) + 1] = clients[i]
  BY <1>1, <1>2, <1>3, AppendProperties
<1>5. /\ clients' \in Seq(Fds) /\ Len(clients') \in {Len(clients), Len(clients) - 1}
      /\ \A k \in 1 .. i - 1 : clients'[k] = clients[k]
  BY <1>1, <1>2, TableShrinks
<1>6. \A k \in 1 .. Len(served') : served'[k] = round[Len(round) - k + 1]
  <2> SUFFICES ASSUME NEW k \in 1 .. Len(served')
               PROVE  served'[k] = round[Len(round) - k + 1]
    OBVIOUS
  <2>1. CASE k = Len(served) + 1
    <3>1. Len(round) - k + 1 = i
      BY <1>2, <2>1
    <3> QED
      BY <1>3, <1>4, <2>1, <3>1
  <2>2. CASE k # Len(served) + 1
    <3>1. k \in 1 .. Len(served)
      BY <1>2, <1>4, <2>2
    <3>2. served[k] = round[Len(round) - k + 1]
      BY <3>1 DEF RoundIInv
    <3> QED
      BY <1>4, <3>1, <3>2
  <2> QED
    BY <2>1, <2>2
<1>7. Len(round) - Len(served') = i - 1
  BY <1>2, <1>4
<1>8. \A k \in 1 .. i - 1 : clients'[k] = round[k]
  BY <1>2, <1>5
<1>9. /\ Len(clients') <= MAX_WS_CLIENTS /\ Len(served') <= Len(round)
      /\ i - 1 <= Len(clients')
      /\ (broadcast' = "sends" => Len(served') < Len(round))
      /\ (broadcast' # "sends" => Len(served') = Len(round))
  BY <1>1, <1>2, <1>4, <1>5
<1> HIDE DEF i
<1> QED
  BY <1>1, <1>2, <1>4, <1>5, <1>6, <1>7, <1>8, <1>9 DEF RoundIInv

LEMMA LogStarts ==
  ASSUME LogInit
  PROVE  LogIInv
<1>1. LOG_RING_SIZE \in Nat \ {0} /\ MAX_WS_CLIENTS \in Nat /\ MaxLines \in Nat /\ MaxOpens \in Nat
  BY LogAssumption
<1>2. /\ head = 0 /\ tail = 0 /\ lastLine = 0 /\ taken = 0 /\ opens = 0
      /\ ring = [p \in 0 .. LOG_RING_SIZE - 1 |-> 0]
      /\ clients = << >> /\ round = << >> /\ served = << >> /\ broadcast = "sleeps"
      /\ socket = [f \in Fds |-> "closed"]
  BY DEF LogInit
<1>3. ring \in [Places -> Int] /\ head \in Places /\ tail \in Places
  BY <1>1, <1>2 DEF Places
<1>4. Filled(head, tail) = 0
  BY <1>2 DEF Filled
<1>5. RingIInv
  BY <1>1, <1>2, <1>3, <1>4 DEF RingIInv, Newest
<1>6. RoundIInv
  BY <1>1, <1>2, EmptySeq DEF RoundIInv
<1>7. LogTypes
  BY <1>1, <1>2 DEF LogTypes
<1> QED
  BY <1>5, <1>6, <1>7 DEF LogIInv

LEMMA RingRests ==
  ASSUME RingIInv, UNCHANGED ringVarsOfLog
  PROVE  RingIInv'
BY DEF RingIInv, Newest, Filled, Wrap, ringVarsOfLog

LEMMA RoundRests ==
  ASSUME RoundIInv, UNCHANGED << clients, roundVars >>
  PROVE  RoundIInv'
BY DEF RoundIInv, roundVars

LEMMA LogRests ==
  ASSUME LogIInv, UNCHANGED logVars
  PROVE  LogIInv'
BY RingRests, RoundRests DEF LogIInv, LogTypes, logVars, ringVarsOfLog, roundVars

LEMMA TableGrows ==
  ASSUME RoundIInv, broadcast # "sends", NEW f \in Fds, Len(clients) < MAX_WS_CLIENTS,
         clients' = Append(clients, f), UNCHANGED roundVars
  PROVE  RoundIInv'
<1>1. clients \in Seq(Fds) /\ MAX_WS_CLIENTS \in Nat /\ Len(clients) \in Nat
  BY LogAssumption DEF RoundIInv
<1>2. clients' \in Seq(Fds) /\ Len(clients') = Len(clients) + 1 /\ clients' # << >>
  BY <1>1, AppendProperties
<1> QED
  BY <1>1, <1>2 DEF RoundIInv, roundVars

LEMMA LogSteps ==
  ASSUME LogIInv, LogNext
  PROVE  LogIInv'
<1> USE DEF LogIInv
<1>1. MaxOpens \in Nat /\ LogTypes
  BY LogAssumption
<1>2. CASE log_vprintf_hook
  BY <1>2, RingWritten, RoundRests DEF log_vprintf_hook, LogTypes, roundVars
<1>3. ASSUME NEW f \in Fds, Open(f)
      PROVE  LogIInv'
  <2>1. UNCHANGED << ringVarsOfLog, clients, roundVars >>
    BY <1>3 DEF Open
  <2>2. opens' \in 0 .. MaxOpens
    BY <1>1, <1>3 DEF Open, LogTypes
  <2>3. LogTypes'
    BY <1>1, <1>3, <2>2 DEF Open, LogTypes, roundVars
  <2> QED
    BY <2>1, <2>3, RingRests, RoundRests
<1>4. ASSUME NEW f \in Fds, Close(f) \/ RefusedInTime(f)
      PROVE  LogIInv'
  BY <1>1, <1>4, RingRests, RoundRests DEF Close, RefusedInTime, LogTypes, roundVars
<1>5. ASSUME NEW f \in Fds, ws_log_handler(f)
      PROVE  LogIInv'
  <2>1. UNCHANGED << ringVarsOfLog, roundVars, opens >> /\ broadcast # "sends"
    BY <1>5 DEF ws_log_handler
  <2>2. LogTypes'
    BY <1>1, <1>5, <2>1 DEF ws_log_handler, LogTypes, roundVars
  <2>3. CASE Len(clients) < MAX_WS_CLIENTS
    BY <1>5, <2>1, <2>2, <2>3, RingRests, TableGrows DEF ws_log_handler
  <2>4. CASE ~(Len(clients) < MAX_WS_CLIENTS)
    BY <1>5, <2>1, <2>2, <2>4, RingRests, RoundRests DEF ws_log_handler
  <2> QED
    BY <2>3, <2>4
<1>6. CASE ring_read
  <2>1. RingIInv'
    BY <1>6, RingRead
  <2>2. /\ broadcast = "sleeps" /\ broadcast' = "has" /\ clients # << >>
        /\ UNCHANGED << socket, clients, round, served, opens >>
    BY <1>6 DEF ring_read
  <2> QED
    BY <1>1, <2>1, <2>2 DEF RoundIInv, LogTypes
<1>7. CASE TakeTable
  <2>1. UNCHANGED << ringVarsOfLog, socket, clients, opens >> /\ broadcast = "has"
    BY <1>7 DEF TakeTable
  <2>2. CASE broadcast' = "sends" /\ round' = clients /\ served' = << >>
    <3>1. clients \in Seq(Fds) /\ clients # << >> /\ Len(clients) <= MAX_WS_CLIENTS
      BY <2>1 DEF RoundIInv
    <3>2. Len(clients) \in Nat \ {0} /\ Len(served') = 0 /\ served' \in Seq(Fds)
      BY <2>2, <3>1, EmptySeq
    <3>3. RoundIInv'
      BY <2>1, <2>2, <3>1, <3>2 DEF RoundIInv
    <3> QED
      BY <1>1, <2>1, <2>2, <3>3, RingRests DEF LogTypes
  <2>3. CASE broadcast' = "sleeps" /\ UNCHANGED << round, served >>
    <3>1. RoundIInv'
      BY <2>1, <2>3 DEF RoundIInv
    <3> QED
      BY <1>1, <2>1, <2>3, <3>1, RingRests DEF LogTypes
  <2> QED
    BY <1>7, <2>2, <2>3 DEF TakeTable
<1>8. CASE SendToNext
  BY <1>1, <1>8, NextServed, RingRests DEF SendToNext, LogTypes
<1> QED
  BY <1>2, <1>3, <1>4, <1>5, <1>6, <1>7, <1>8 DEF LogNext

-----------------------------------------------------------------------------
(* The device. *)
DeviceIInv == AmplifierIInv /\ PairIInv /\ FlashIInv /\ LogIInv

LEMMA DeviceInductive == DeviceSpec => []DeviceIInv
<1>1. DeviceInit => DeviceIInv
  BY AmplifierStarts, PairStarts, FlashStarts, LogStarts DEF DeviceInit, DeviceIInv
<1>2. DeviceIInv /\ [DeviceNext]_deviceVars => DeviceIInv'
  <2> SUFFICES ASSUME DeviceIInv, [DeviceNext]_deviceVars
               PROVE  DeviceIInv'
    OBVIOUS
  <2>1. AmplifierIInv'
    <3>1. AmplifierNext \/ UNCHANGED amplifierVars
      BY DEF DeviceNext, deviceVars
    <3> QED
      BY <3>1, AmplifierSteps, AmplifierRests DEF DeviceIInv
  <2>2. PairIInv'
    <3>1. TwsNext \/ UNCHANGED twsVars
      BY DEF DeviceNext, deviceVars
    <3> QED
      BY <3>1, PairSteps, PairRests DEF DeviceIInv
  <2>3. FlashIInv'
    <3>1. StorageNext \/ UNCHANGED storageVars
      BY DEF DeviceNext, deviceVars
    <3> QED
      BY <3>1, FlashSteps, FlashRests DEF DeviceIInv
  <2>4. LogIInv'
    <3>1. LogNext \/ UNCHANGED logVars
      BY DEF DeviceNext, deviceVars
    <3> QED
      BY <3>1, LogSteps, LogRests DEF DeviceIInv
  <2> QED
    BY <2>1, <2>2, <2>3, <2>4 DEF DeviceIInv
<1> QED
  BY <1>1, <1>2, PTL DEF DeviceSpec

(* The amplifier's control register (dac_tas58xx.c): when nobody holds the   *)
(* register mutex, the chip is in the power mode that was last ordered, and  *)
(* a mute is the fault task's, not one the equaliser left behind.            *)
THEOREM ControlRegisterKept == DeviceSpec => []PowerFollows
<1>1. DeviceIInv => PowerFollows
  BY DEF DeviceIInv, AmplifierIInv, ControlHeld, Fault, PowerFollows
<1> QED
  BY <1>1, DeviceInductive, PTL

(* Every variable of the parts has its type, a stereo pair is never two     *)
(* slaves (rl_tws.c), the log's ring holds the newest lines without a gap   *)
(* (ring_write, ring_read), and a frame of it goes once to every client     *)
(* that was in the table (broadcast_task).                                  *)
THEOREM PartsAreRight == DeviceSpec => []DeviceInv
<1>1. DeviceIInv => DeviceInv
  <2> SUFFICES ASSUME DeviceIInv
               PROVE  DeviceInv
    OBVIOUS
  <2>1. AmplifierTypeOK
    BY AmplifierTyped DEF DeviceIInv
  <2>2. TwsTypeOK /\ NeverBothSlaves
    BY DEF DeviceIInv, PairIInv
  <2>3. StorageTypeOK
    BY FlashHolds DEF DeviceIInv
  <2>4. LogTypeOK /\ NewestKept /\ ServedOnce
    BY RingHolds, RoundHolds DEF DeviceIInv, LogIInv, RingIInv, RoundIInv, LogTypes, LogTypeOK,
       Places
  <2> QED
    BY <2>1, <2>2, <2>3, <2>4 DEF DeviceInv, TypeOK
<1> QED
  BY <1>1, DeviceInductive, PTL

(* The flash, wherever the power is cut or a write fails: the identity that  *)
(* senders were told is the stored pair (hap_init), a restart for a request  *)
(* finds what was asked for (wifi_config_handler, ota_update_handler), and   *)
(* the copies in RAM that claim to be stored are (settings.c, led.c).        *)
THEOREM FlashIsWhole == DeviceSpec => []FlashInv
<1>1. DeviceIInv => FlashInv
  BY FlashHolds DEF DeviceIInv
<1> QED
  BY <1>1, DeviceInductive, PTL

-----------------------------------------------------------------------------
(* The binary search of the frame pool, by itself. *)
(* The search invariant together with what never changes. *)
SearchIInv == /\ index \in Seq(Timestamps) /\ Ascending(index)
        /\ timestamp \in Timestamps
        /\ SearchInv

(* Before the first probe of sorted_insert_pos the whole index is in question. *)
LEMMA SearchStarts == Init => SearchIInv
<1> SUFFICES ASSUME Init PROVE SearchIInv
  OBVIOUS
<1>1. index \in Seq(Timestamps) /\ count \in Nat
  <2>1. PICK n \in 0 .. MaxCount : index \in [1 .. n -> Timestamps]
    BY DEF Init
  <2>2. n \in Nat
    BY <2>1, OrderAssumption
  <2> QED
    BY <2>1, <2>2 DEF count
<1> QED
  BY <1>1 DEF Init, SearchIInv, SearchInv

(* One probe of the binary search keeps the invariant, by the order of the index. *)
LEMMA SearchGoesOn == SearchIInv /\ [Step]_vars => SearchIInv'
<1> SUFFICES ASSUME SearchIInv, [Step]_vars PROVE SearchIInv'
  OBVIOUS
<1>1. CASE UNCHANGED vars
  BY <1>1 DEF vars, SearchIInv, SearchInv, count, Ascending
<1>2. CASE Step
  <2> DEFINE mid == lo + (hi - lo) \div 2
             m == index[mid + 1]
  <2>1. /\ lo \in Nat /\ hi \in Nat /\ count \in Nat /\ hi <= count
        /\ lo <= mid /\ mid < hi /\ mid \in Nat
    BY <1>2 DEF SearchIInv, SearchInv, Step, count
  <2>2. /\ index' = index /\ timestamp' = timestamp /\ count' = count
        /\ Ascending(index)'
    BY <1>2 DEF Step, SearchIInv, Ascending, count
  <2>3. m \in Timestamps /\ mid + 1 \in 1 .. count
    BY <2>1 DEF SearchIInv, count
  <2>4. CASE ts_cmp(m, timestamp) < 0
    <3>1. lo' = mid + 1 /\ hi' = hi
      BY <1>2, <2>4 DEF Step
    <3>2. ASSUME NEW i \in 1 .. mid + 1 PROVE ts_cmp(index[i], timestamp) < 0
      <4>1. i \in 1 .. count /\ index[i] \in Timestamps
        BY <2>1, <2>3 DEF SearchIInv, count
      <4>2. CASE i = mid + 1
        BY <2>4, <4>2
      <4>3. CASE i < mid + 1
        <5>1. ts_cmp(index[i], m) <= 0
          BY <2>3, <4>1, <4>3 DEF SearchIInv, Ascending, count
        <5> QED
          BY <5>1, <4>1, <2>3, <2>4, OrderAssumption DEF SearchIInv
      <4> QED
        BY <4>2, <4>3, <2>1
    <3> QED
      BY <2>1, <2>2, <3>1, <3>2 DEF SearchIInv, SearchInv
  <2>5. CASE ~(ts_cmp(m, timestamp) < 0)
    <3>1. lo' = lo /\ hi' = mid
      BY <1>2, <2>5 DEF Step
    <3>2. ASSUME NEW a \in Timestamps, NEW b \in Timestamps
          PROVE  ts_cmp(a, b) \in Int
      BY OrderAssumption DEF ts_cmp
    <3>3. ASSUME NEW i \in mid + 1 .. count PROVE ts_cmp(index[i], timestamp) >= 0
      <4>1. i \in 1 .. count /\ index[i] \in Timestamps
        BY <2>1 DEF SearchIInv, count
      <4>2. ts_cmp(index[i], timestamp) \in Int /\ ts_cmp(m, timestamp) \in Int
        BY <3>2, <4>1, <2>3 DEF SearchIInv
      <4>3. CASE i = mid + 1
        BY <2>5, <4>2, <4>3
      <4>4. CASE mid + 1 < i
        <5>1. ts_cmp(m, index[i]) <= 0
          BY <2>3, <4>1, <4>4 DEF SearchIInv, Ascending, count
        <5>2. ~(ts_cmp(index[i], timestamp) < 0)
          BY <5>1, <4>1, <2>3, <2>5, OrderAssumption DEF SearchIInv
        <5> QED
          BY <5>2, <4>2
      <4> QED
        BY <4>3, <4>4, <2>1
    <3> QED
      BY <2>1, <2>2, <3>1, <3>3 DEF SearchIInv, SearchInv
  <2> QED
    BY <2>4, <2>5
<1> QED
  BY <1>1, <1>2

(* Whatever the ascending index and the new timestamp, the place the search *)
(* of sorted_insert_pos returns is after all older frames and before the    *)
(* others.                                                                  *)
THEOREM SearchFindsPlace == Spec => []FoundPlace
<1>1. SearchIInv => FoundPlace
  BY DEF SearchIInv, SearchInv, FoundPlace
<1> QED
  BY SearchStarts, SearchGoesOn, <1>1, PTL DEF Spec
=============================================================================
