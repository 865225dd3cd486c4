------------------------------ MODULE MCDevice ------------------------------
(***************************************************************************)
(* What the box keeps: the amplifier's registers, its half of a stereo     *)
(* pair, its flash, its log, and the place of a frame in the sorted index. *)
(* They share no state: a behaviour is one part's, chosen at the start,    *)
(* while the others rest.                                                  *)
(***************************************************************************)
EXTENDS Tas58xx, Tws, Storage, LogStream, InsertPos

VARIABLE part

(* Timestamps on both sides of the wrap. *)
MCTimestamps == {13, 15, 0, 2}

indexVars == <<index, timestamp, lo, hi>>
deviceVars == <<part, amplifierVars, twsVars, storageVars, logVars, indexVars>>

DeviceInit ==
  /\ part \in {"amplifier", "pair", "storage", "log", "index"}
  /\ AmplifierInit /\ TwsInit /\ StorageInit /\ LogInit /\ Init
  /\ part # "amplifier" => saved = NoGains
  /\ part # "index" => index = <<>> /\ timestamp = 0

DeviceNext ==
  \/ /\ part = "amplifier" /\ AmplifierNext
     /\ UNCHANGED <<part, twsVars, storageVars, logVars, indexVars>>
  \/ /\ part = "pair" /\ TwsNext
     /\ UNCHANGED <<part, amplifierVars, storageVars, logVars, indexVars>>
  \/ /\ part = "storage" /\ StorageNext
     /\ UNCHANGED <<part, amplifierVars, twsVars, logVars, indexVars>>
  \/ /\ part = "log" /\ LogNext
     /\ UNCHANGED <<part, amplifierVars, twsVars, storageVars, indexVars>>
  \/ /\ part = "index" /\ Step
     /\ UNCHANGED <<part, amplifierVars, twsVars, storageVars, logVars>>

DeviceSpec == DeviceInit /\ [][DeviceNext]_deviceVars

TypeOK == AmplifierTypeOK /\ TwsTypeOK /\ StorageTypeOK /\ LogTypeOK

(* Each part's variables hold what the code can put there; a pair is never  *)
(* two slaves; a reader of the log gets its newest lines, each once.        *)
DeviceInv == TypeOK /\ NeverBothSlaves /\ NewestKept /\ ServedOnce

(* What the flash holds is whole wherever the power is cut: the identity    *)
(* that was announced, the settings and the firmware that were asked for.   *)
FlashInv == IdentityStays /\ RestartsAsAsked /\ CopiesAreStored
=============================================================================
