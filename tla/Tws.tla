-------------------------------- MODULE Tws --------------------------------
(***************************************************************************)
(* The stereo pair (rl_tws.c): two speakers that look for each other over   *)
(* ESP-NOW, one MASTER that sends beacons, one SLAVE that acknowledges one.  *)
(* A packet is received at once, late, or not at all; a speaker may be      *)
(* switched off and on.  Neither rl_tws_send_audio nor rl_tws_reset has a   *)
(* caller, and nothing sends PKT_GONE: they are left out.                    *)
(***************************************************************************)
EXTENDS Naturals

CONSTANTS Boxes, MaxRestarts

(* Two speakers: a box with the other role is "the other one". *)
ASSUME TwsAssumption ==
  /\ MaxRestarts \in Nat
  /\ \E a, b \in Boxes : a # b /\ Boxes = {a, b}

VARIABLES
  role, slave_conn,          \* s_role, s_slave_conn
  timer,                     \* what tws_task found run out: "", "search", "slave"
  air,                       \* packets to a box: "beacon", "ack"
  restarts

twsVars == << role, slave_conn, timer, air, restarts >>

TwsInit ==
  /\ role = [b \in Boxes |-> "SEARCHING"] /\ slave_conn = [b \in Boxes |-> FALSE]
  /\ timer = [b \in Boxes |-> ""] /\ air = [b \in Boxes |-> {}] /\ restarts = 0

Other(b) == CHOOSE c \in Boxes : c # b

(* tws_task: a time that has run out, and 0 or 5 s later become_master. *)
RunOut(b) ==
  /\ timer[b] = "" /\ role[b] \in {"SEARCHING", "SLAVE"}
  /\ timer' = [timer EXCEPT ![b] = IF role[b] = "SLAVE" THEN "slave" ELSE "search"]
  /\ UNCHANGED << role, slave_conn, air, restarts >>
become_master(b) ==
  /\ timer[b] # "" /\ timer' = [timer EXCEPT ![b] = ""]
  /\ role' = [role EXCEPT ![b] = "MASTER"] /\ slave_conn' = [slave_conn EXCEPT ![b] = FALSE]
  /\ UNCHANGED << air, restarts >>
Beacon(b) ==
  /\ role[b] = "MASTER" /\ air' = [air EXCEPT ![Other(b)] = @ \union {"beacon"}]
  /\ UNCHANGED << role, slave_conn, timer, restarts >>
SlaveTimeout(b) ==
  /\ role[b] = "MASTER" /\ slave_conn[b] /\ slave_conn' = [slave_conn EXCEPT ![b] = FALSE]
  /\ UNCHANGED << role, timer, air, restarts >>

(* on_recv, on the Wi-Fi task: beside tws_task.                             *)
HearBeacon(b) ==
  /\ "beacon" \in air[b] /\ role[b] = "SEARCHING" /\ role' = [role EXCEPT ![b] = "SLAVE"]
  /\ air' = [air EXCEPT ![b] = @ \ {"beacon"}, ![Other(b)] = @ \union {"ack"}]
  /\ UNCHANGED << slave_conn, timer, restarts >>
HearAck(b) ==
  /\ "ack" \in air[b] /\ role[b] = "MASTER" /\ slave_conn' = [slave_conn EXCEPT ![b] = TRUE]
  /\ air' = [air EXCEPT ![b] = @ \ {"ack"}] /\ UNCHANGED << role, timer, restarts >>

(* A packet is lost, or received in a role that does not look at it. *)
Lost(b) ==
  /\ \E p \in air[b] : air' = [air EXCEPT ![b] = @ \ {p}]
  /\ UNCHANGED << role, slave_conn, timer, restarts >>
(* A boot outlives whatever is in the air. *)
PowerCycle(b) ==
  /\ restarts < MaxRestarts /\ restarts' = restarts + 1 /\ air' = [air EXCEPT ![b] = {}, ![Other(b)] = {}]
  /\ role' = [role EXCEPT ![b] = "SEARCHING"] /\ slave_conn' = [slave_conn EXCEPT ![b] = FALSE]
  /\ timer' = [timer EXCEPT ![b] = ""]

TwsNext ==
  \E b \in Boxes :
    \/ RunOut(b) \/ become_master(b) \/ Beacon(b) \/ SlaveTimeout(b)
    \/ HearBeacon(b) \/ HearAck(b) \/ Lost(b) \/ PowerCycle(b)

-----------------------------------------------------------------------------
TwsTypeOK ==
  /\ role \in [Boxes -> {"SEARCHING", "MASTER", "SLAVE"}] /\ slave_conn \in [Boxes -> BOOLEAN]
  /\ timer \in [Boxes -> {"", "search", "slave"}] /\ air \in [Boxes -> SUBSET {"beacon", "ack"}]
  /\ restarts \in 0 .. MaxRestarts

(* rl_tws.c, on_recv beside tws_task: the two never both end as slaves, each *)
(* waiting for the other's music.                                            *)
NeverBothSlaves == \E b \in Boxes : role[b] # "SLAVE"
=============================================================================
