------------------------------ MODULE MCLinks ------------------------------
(***************************************************************************)
(* Four ways into the box, each of which must work again after whatever    *)
(* went wrong: the RTSP connection, the network, Bluetooth's sound, and    *)
(* the jack and fault interrupts.  They share no state: a behaviour is     *)
(* one part's, chosen at the start, while the others rest.                 *)
(***************************************************************************)
EXTENDS RtspChannel, Network, BtRing, SqueezeAmp

VARIABLE part

linksVars == <<part, channelVars, networkVars, ringVars, squeezeVars>>

(* What a client may say; it stays silent while the part is another's. *)
Pair(do, ok, fast) == [do |-> do, size |-> 1, answer |-> 1, good |-> ok, transient |-> fast]
Ask(n, m) == [do |-> "other", size |-> n, answer |-> m, good |-> TRUE, transient |-> FALSE]
Silent == <<>>
MCScripts == {
  Silent,
  << Pair("setup1", TRUE, TRUE), Pair("setup3", TRUE, TRUE), Ask(1, 2), Ask(3, 1), Ask(1, 1) >>,
  << Pair("setup1", TRUE, TRUE), Pair("setup3", FALSE, TRUE), Pair("setup1", TRUE, TRUE),
     Pair("setup3", TRUE, TRUE), Ask(4, 1) >>,
  << Pair("verify1", TRUE, TRUE), Pair("verify3", TRUE, TRUE), Ask(2, 2), Ask(1, 1) >>,
  << Pair("raw1", TRUE, TRUE), Pair("raw3", TRUE, TRUE), Ask(2, 1), Ask(1, 1) >>,
  << Pair("setup1", TRUE, FALSE), Pair("setup3", TRUE, FALSE), Pair("setup5", TRUE, FALSE),
     Ask(1, 1), Ask(2, 1) >>,
  << Ask(1, 1), Ask(1, 1), Ask(4, 1), Ask(1, 1), Ask(2, 1) >>, << Ask(1, 1), Ask(5, 1) >>,
  << Ask(1, 1), Ask(7, 1) >> }

LinksInit ==
  /\ part \in {"channel", "network", "ring", "jack"}
  /\ ChannelInit /\ NetworkInit /\ RingInit /\ SqueezeInit
  /\ (part = "channel") = (script # Silent)
  /\ part # "network" => credentials
  /\ part # "jack" => ~jack_in /\ ~fault_pin

LinksNext ==
  \/ part = "channel" /\ ChannelNext /\ UNCHANGED <<part, networkVars, ringVars, squeezeVars>>
  \/ part = "network" /\ NetworkNext /\ UNCHANGED <<part, channelVars, ringVars, squeezeVars>>
  \/ part = "ring" /\ RingNext /\ UNCHANGED <<part, channelVars, networkVars, squeezeVars>>
  \/ part = "jack" /\ SqueezeNext /\ UNCHANGED <<part, channelVars, networkVars, ringVars>>

LinksSpec == LinksInit /\ [][LinksNext]_linksVars

(* Each part's tasks run while it is the part's turn: those that can only  *)
(* take a bounded number of steps, or that take turns, under one condition. *)
(* A source that goes on sending is connected; an access point in reach     *)
(* lets the station in at last, however often it failed.                    *)
LinksFairSpec ==
  /\ LinksSpec
  /\ WF_channelVars(part = "channel" /\ (Send \/ ReadAnswer \/ Receiver))
  /\ SF_networkVars(part = "network" /\ Associate)
  /\ WF_networkVars(part = "network" /\ HandleEvent)
  /\ WF_networkVars(part = "network" /\ retry_timer_callback)
  /\ WF_networkVars(part = "network" /\ (ScanTasks \/ AppMain \/ MonitorStarts))
  /\ WF_networkVars(part = "network" /\ (Poll \/ PollAborts))
  /\ WF_ringVars(part = "ring" /\ (DataArrives \/ DataStored))
  /\ WF_ringVars(part = "ring" /\ Writer)
  /\ WF_ringVars(part = "ring" /\ (FreeRing \/ (streaming /\ i2s_task_start)))
  /\ WF_squeezeVars(part = "jack" /\ GpioTask)

LinksTypeOK == ChannelTypeOK /\ NetworkTypeOK /\ RingTypeOK /\ SqueezeTypeOK

(* Each part's variables, its bounded queues and buffers among them, hold   *)
(* what the code can put there, and a box that cannot reach its network can *)
(* be configured.                                                           *)
LinksInv == LinksTypeOK /\ SetupReachable

(* What goes over an RTSP connection arrives in order, and can be read.     *)
ChannelInv == InOrder /\ AnswersReadable
=============================================================================
