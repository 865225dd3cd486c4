----------------------------- MODULE RtspServer -----------------------------
(***************************************************************************)
(* main/rtsp/rtsp_server.c: the server task, the tasks of the clients it   *)
(* accepts, and what they share: two slots, the flag of the resume button, *)
(* and the one audio receiver, NTP client, PTP clock, DACP session and     *)
(* event port task of the device.  The requests are those of               *)
(* rtsp_handlers.c that start or stop one of these.  A client is one TCP   *)
(* connection; its task keeps running after the connection is lost.        *)
(***************************************************************************)
EXTENDS Integers, FiniteSets

CONSTANTS
  Clients,        \* the connections that are made, each once
  Scenarios,      \* who they are and what may happen (see Scenario)
  NoClient

(* v1: the clients that speak AirPlay 1, the others speak AirPlay 2;       *)
(* remote: those of v1 with a DACP remote (DACP-ID, Active-Remote); arrive:*)
(* where other client tasks may be when a connection is made; fickle:      *)
(* whether a sender may reconnect and withdraw its DACP service; presses,  *)
(* restarts: bounds on presses of the resume button and on                 *)
(* rtsp_server_stop with rtsp_server_start.                                *)
Cleanup == {"audio", "ntp", "grace", "phase1", "phase2", "expire", "clear", "global",
            "ptp", "event", "free"}
Scenario ==
  [v1 : SUBSET Clients, remote : SUBSET Clients,
   arrive : SUBSET ({"backlog", "begin", "serve"} \cup Cleanup), fickle : BOOLEAN,
   presses : Nat, restarts : Nat]

ASSUME ClientAssumption == NoClient \notin Clients
ASSUME ScenarioAssumption == \A s \in Scenarios : s \in Scenario /\ s.remote \subseteq s.v1

VARIABLES
  plan,           \* the scenario, chosen once
  slots,          \* clients[2]
  current_slot,
  server,         \* the server task: pc, and the connection it is handling
  server_running,
  pc, slot,       \* per client: where its task is, which slot it uses
  resume_requested,
  device,         \* who uses the receiver, NTP, event port, DACP session, PTP master
  ptp_running,
  shown,          \* the last rtsp_events_emit, and whose it was
  presses, restarts   \* for the bounds

vars == << plan, slots, current_slot, server, server_running, pc, slot, resume_requested,
           device, ptp_running, shown, presses, restarts >>

control == << plan, slots, current_slot, server, server_running, slot, resume_requested,
              presses, restarts >>

EmptySlot == [task |-> NoClient, conn |-> NoClient, socket |-> FALSE,
              should_stop |-> FALSE, is_old |-> FALSE]

Live(c) == pc[c] \notin {"new", "backlog", "gone"}
Mine(c) == slots[slot[c]]
Goto(c, label) == pc' = [pc EXCEPT ![c] = label]
Emit(c, event) == shown' = [event |-> event, client |-> c]

Init ==
  /\ plan \in Scenarios
  /\ slots = [i \in {0, 1} |-> EmptySlot] /\ current_slot = 0
  /\ server = [pc |-> "accept", client |-> NoClient] /\ server_running = TRUE
  /\ pc = [c \in Clients |-> "new"] /\ slot = [c \in Clients |-> 0]
  /\ resume_requested = FALSE
  /\ device = [stream |-> NoClient, ntp |-> NoClient, event |-> NoClient,
               dacp |-> NoClient, master |-> NoClient]
  /\ ptp_running = TRUE
  /\ shown = [event |-> "none", client |-> NoClient]
  /\ presses = 0 /\ restarts = 0

-----------------------------------------------------------------------------
(* The server task. *)
new_slot == 1 - current_slot
ServerGoto(label) == server' = [server EXCEPT !.pc = label]
Stop(i) == slots' = [slots EXCEPT ![i].should_stop = TRUE]

Connect(c) ==
  /\ pc[c] = "new" /\ server_running
  /\ \A d \in Clients : pc[d] \in plan.arrive \cup {"new", "gone"}
  /\ Goto(c, "backlog")
  /\ UNCHANGED << control, device, ptp_running, shown >>

(* Mutant: the slot is taken whoever uses it. *)
AcceptAtOnce(c) ==
  /\ server.pc = "accept" /\ server_running /\ pc[c] = "backlog"
  /\ server' = [pc |-> "mark", client |-> c]
  /\ UNCHANGED << plan, slots, current_slot, server_running, pc, slot, resume_requested, device,
                  ptp_running, shown, presses, restarts >>

(* accept: the slot that is not current is for the new client.  If its     *)
(* task is still there it is told to stop and waited for.                  *)
Accept(c) ==
  /\ server.pc = "accept" /\ server_running /\ pc[c] = "backlog"
  /\ IF slots[new_slot].task # NoClient
       THEN Stop(new_slot) /\ server' = [pc |-> "wait", client |-> c]
       ELSE UNCHANGED slots /\ server' = [pc |-> "mark", client |-> c]
  /\ UNCHANGED << plan, current_slot, server_running, pc, slot, resume_requested, device,
                  ptp_running, shown, presses, restarts >>

WaitEnds ==
  /\ server.pc = "wait" /\ slots[new_slot].task = NoClient
  /\ ServerGoto("mark")
  /\ UNCHANGED << plan, slots, current_slot, server_running, pc, slot, resume_requested, device,
                  ptp_running, shown, presses, restarts >>

Refuse(c) ==
  /\ Goto(c, "gone") /\ server' = [pc |-> "accept", client |-> NoClient]

(* 3 s later it is still there: the connection is refused. *)
WaitTimesOut ==
  /\ server.pc = "wait" /\ slots[new_slot].task # NoClient
  /\ Refuse(server.client)
  /\ UNCHANGED << plan, slots, current_slot, server_running, slot, resume_requested, device,
                  ptp_running, shown, presses, restarts >>

(* signal_old_client_stop: first is_old, then should_stop. *)
MarkOld ==
  /\ server.pc = "mark"
  /\ IF slots[current_slot].task # NoClient
       THEN slots' = [slots EXCEPT ![current_slot].is_old = TRUE] /\ ServerGoto("stop")
       ELSE UNCHANGED slots /\ ServerGoto("launch")
  /\ UNCHANGED << plan, current_slot, server_running, pc, slot, resume_requested, device,
                  ptp_running, shown, presses, restarts >>

StopOld ==
  /\ server.pc = "stop" /\ ServerGoto("launch")
  /\ Stop(current_slot)
  /\ UNCHANGED << plan, current_slot, server_running, pc, slot, resume_requested, device,
                  ptp_running, shown, presses, restarts >>

(* The new slot is filled in and its task created, unless that fails. *)
Launch ==
  /\ server.pc = "launch"
  /\ \/ /\ slots' = [slots EXCEPT ![new_slot] = [EmptySlot EXCEPT !.task = server.client,
                                                                 !.socket = TRUE]]
        /\ slot' = [slot EXCEPT ![server.client] = new_slot]
        /\ Goto(server.client, "begin")
        /\ ServerGoto("launched")
     \/ /\ slots' = [slots EXCEPT ![new_slot] = EmptySlot]
        /\ Refuse(server.client)
        /\ UNCHANGED slot
  /\ UNCHANGED << plan, current_slot, server_running, resume_requested, device, ptp_running,
                  shown, presses, restarts >>

Launched ==
  /\ server.pc = "launched"
  /\ current_slot' = IF slots[new_slot].task # NoClient THEN new_slot ELSE current_slot
  /\ server' = [pc |-> "accept", client |-> NoClient]
  /\ UNCHANGED << plan, slots, server_running, pc, slot, resume_requested, device, ptp_running,
                  shown, presses, restarts >>

(* rtsp_server_stop; the server task then tells both clients to stop. *)
ServerStop ==
  /\ server_running /\ restarts < plan.restarts
  /\ server_running' = FALSE
  /\ UNCHANGED << plan, slots, current_slot, server, pc, slot, resume_requested, device,
                  ptp_running, shown, presses, restarts >>

ServerExit ==
  /\ server.pc = "accept" /\ ~server_running
  /\ slots' = [i \in {0, 1} |->
                 [slots[i] EXCEPT !.should_stop = @ \/ slots[i].task # NoClient]]
  /\ server' = [pc |-> "off", client |-> NoClient]
  /\ UNCHANGED << plan, current_slot, server_running, pc, slot, resume_requested, device,
                  ptp_running, shown, presses, restarts >>

(* rtsp_server_start, once the old server task is gone: the new one clears *)
(* both slots.  The old one waited half a second, enough for every client  *)
(* task but one that is probing the network for its sender.                *)
ServerStart ==
  /\ server.pc = "off"
  /\ \A c \in Clients : Live(c) => pc[c] \in {"phase1", "phase2"}
  /\ slots' = [i \in {0, 1} |-> EmptySlot]
  /\ server_running' = TRUE /\ restarts' = restarts + 1
  /\ server' = [pc |-> "accept", client |-> NoClient]
  /\ UNCHANGED << plan, current_slot, pc, slot, resume_requested, device, ptp_running, shown,
                  presses >>

-----------------------------------------------------------------------------

(* A client task: the connection state, or out of memory. *)
Begin(c) ==
  /\ pc[c] = "begin"
  /\ \/ Goto(c, "serve") /\ slots' = [slots EXCEPT ![slot[c]].conn = c]
     \/ /\ Goto(c, "gone")
        /\ slots' = [slots EXCEPT ![slot[c]].task = NoClient, ![slot[c]].socket = FALSE]
  /\ UNCHANGED << plan, current_slot, server, server_running, slot, resume_requested, device,
                  ptp_running, shown, presses, restarts >>

(* rtsp_dispatch: every request of a client with a remote renews the DACP  *)
(* session; then the handler.                                              *)
Dispatched(c) == IF c \in plan.remote THEN [device EXCEPT !.dacp = c] ELSE device
Serving(c) == pc[c] = "serve" /\ server_running /\ ~Mine(c).should_stop

(* SETUP: AirPlay 1 starts the NTP client and stops PTP; AirPlay 2 starts  *)
(* the event port task and the stream.                                     *)
Setup(c) ==
  /\ Serving(c)
  /\ IF c \in plan.v1
       THEN device' = [Dispatched(c) EXCEPT !.ntp = c] /\ ptp_running' = FALSE
       ELSE device' = [Dispatched(c) EXCEPT !.event = c, !.stream = c] /\ UNCHANGED ptp_running
  /\ UNCHANGED << control, pc, shown >>

(* RECORD, or SETRATEANCHORTIME, which names the PTP master. *)
Play(c) ==
  /\ Serving(c)
  /\ IF c \in plan.v1
       THEN device.ntp = c /\ device' = [Dispatched(c) EXCEPT !.stream = c]
       ELSE device.stream = c /\ device' = [Dispatched(c) EXCEPT !.master = c]
  /\ Emit(c, "playing")
  /\ UNCHANGED << control, pc, ptp_running >>

(* TEARDOWN, of the streams or of the session. *)
Teardown(c) ==
  /\ Serving(c) /\ device.stream = c
  /\ LET d == [Dispatched(c) EXCEPT !.stream = NoClient, !.master = NoClient]
     IN  \/ device' = d /\ Emit(c, "paused")
         \/ /\ device' = [d EXCEPT !.ntp = NoClient,
                                   !.dacp = IF c \in plan.v1 THEN @ ELSE NoClient]
            /\ UNCHANGED shown
  /\ UNCHANGED << control, pc, ptp_running >>

(* Mutant: the receive loop does not look at should_stop. *)
DisconnectLost(c) ==
  /\ pc[c] = "serve" /\ ~Mine(c).should_stop
  /\ Goto(c, "audio")
  /\ slots' = [slots EXCEPT ![slot[c]].socket = FALSE]
  /\ UNCHANGED << plan, current_slot, server, server_running, slot, resume_requested, device,
                  ptp_running, shown, presses, restarts >>

(* The connection is lost, or the task sees it is to stop. *)
Disconnect(c) ==
  /\ pc[c] = "serve"
  /\ Goto(c, "audio")
  /\ slots' = [slots EXCEPT ![slot[c]].socket = FALSE]
  /\ UNCHANGED << plan, current_slot, server, server_running, slot, resume_requested, device,
                  ptp_running, shown, presses, restarts >>

-----------------------------------------------------------------------------
(* The cleanup of a client task. *)
StopAudio(c) ==
  /\ pc[c] = "audio" /\ Goto(c, "ntp")
  /\ device' = [device EXCEPT !.stream = NoClient]
  /\ UNCHANGED << control, ptp_running, shown >>

StopNtp(c) ==
  /\ pc[c] = "ntp"
  /\ Goto(c, IF c \in plan.remote /\ ~Mine(c).should_stop THEN "grace" ELSE "clear")
  /\ device' = [device EXCEPT !.ntp = NoClient]
  /\ UNCHANGED << control, ptp_running, shown >>

(* The grace period: 3 s, then as long as the DACP service is advertised. *)
Grace(c) ==
  /\ pc[c] = "grace" /\ Goto(c, "phase1")
  /\ resume_requested' = FALSE
  /\ Emit(c, "paused")
  /\ UNCHANGED << plan, slots, current_slot, server, server_running, slot, device, ptp_running,
                  presses, restarts >>

(* dacp_probe_service.  Unless it is fickle, the sender withdraws its      *)
(* service only when it leaves, not while it reconnects.                   *)
Reconnecting == server.client # NoClient \/ \E c \in Clients : pc[c] = "backlog"
Probe == IF plan.fickle \/ ~Reconnecting THEN BOOLEAN ELSE {TRUE}

Phase1(c) ==
  /\ pc[c] = "phase1"
  /\ IF Mine(c).should_stop
       THEN Goto(c, "expire") /\ UNCHANGED resume_requested
       ELSE /\ \E advertised \in Probe :
                 Goto(c, IF advertised \/ resume_requested THEN "phase2" ELSE "expire")
            /\ resume_requested' = FALSE
  /\ UNCHANGED << plan, slots, current_slot, server, server_running, slot, device, ptp_running,
                  shown, presses, restarts >>

Phase2Button(c) ==
  /\ pc[c] = "phase2" /\ resume_requested
  /\ resume_requested' = FALSE
  /\ UNCHANGED << plan, slots, current_slot, server, server_running, pc, slot, device,
                  ptp_running, shown, presses, restarts >>

Phase2(c) ==
  /\ pc[c] = "phase2"
  /\ IF Mine(c).should_stop
       THEN Goto(c, "expire")
       ELSE \E advertised \in Probe : Goto(c, IF advertised THEN "phase2" ELSE "expire")
 
  /\ UNCHANGED << plan, slots, current_slot, server, server_running, slot, resume_requested,
                  device, ptp_running, shown, presses, restarts >>

(* Mutant: a reconnect is taken for a disconnect. *)
ExpireAlways(c) ==
  /\ pc[c] = "expire" /\ Goto(c, "clear")
  /\ UNCHANGED << control, device, ptp_running, shown >>

(* Replaced meanwhile: a reconnect, nothing to clear. *)
Expire(c) ==
  /\ pc[c] = "expire" /\ Goto(c, IF Mine(c).is_old THEN "global" ELSE "clear")
  /\ UNCHANGED << control, device, ptp_running, shown >>

Clear(c) ==
  /\ pc[c] = "clear" /\ Goto(c, "global")
  /\ device' = [device EXCEPT !.dacp = NoClient]
  /\ Emit(c, "disconnected")
  /\ UNCHANGED << control, ptp_running >>

(* A replaced client stops the event port task only when it is its own. *)
Global(c) ==
  /\ pc[c] = "global" /\ Goto(c, IF Mine(c).is_old THEN "free" ELSE "ptp")
  /\ device' = IF Mine(c).is_old /\ device.event = c
               THEN [device EXCEPT !.event = NoClient] ELSE device
  /\ UNCHANGED << control, ptp_running, shown >>

StartPtp(c) ==
  /\ pc[c] = "ptp" /\ Goto(c, "event")
  /\ ptp_running' = TRUE
  /\ UNCHANGED << control, device, shown >>

StopEvent(c) ==
  /\ pc[c] = "event" /\ Goto(c, "free")
  /\ device' = [device EXCEPT !.event = NoClient]
  /\ UNCHANGED << control, ptp_running, shown >>

(* rtsp_conn_cleanup, which clears the PTP clock, and the end of the task. *)
Free(c) ==
  /\ pc[c] = "free" /\ Goto(c, "gone")
  /\ device' = [device EXCEPT !.master = NoClient]
  /\ slots' = [slots EXCEPT ![slot[c]] = EmptySlot]
  /\ UNCHANGED << plan, current_slot, server, server_running, slot, resume_requested,
                  ptp_running, shown, presses, restarts >>

(* rtsp_server_request_resume, from the play/pause button. *)
Press ==
  /\ presses < plan.presses /\ presses' = presses + 1
  /\ resume_requested' = TRUE
  /\ UNCHANGED << plan, slots, current_slot, server, server_running, pc, slot, device,
                  ptp_running, shown, restarts >>

-----------------------------------------------------------------------------
Server == WaitEnds \/ WaitTimesOut \/ MarkOld \/ StopOld \/ Launch \/ Launched
          \/ ServerStop \/ ServerExit \/ ServerStart \/ \E c \in Clients : Accept(c)
Request(c) == Setup(c) \/ Play(c) \/ Teardown(c)
CleanUp(c) == StopAudio(c) \/ StopNtp(c) \/ Grace(c) \/ Phase1(c) \/ Phase2(c) \/ Expire(c)
              \/ Clear(c) \/ Global(c) \/ StartPtp(c) \/ StopEvent(c) \/ Free(c)
Task(c) == Begin(c) \/ Request(c) \/ Disconnect(c) \/ Phase2Button(c) \/ CleanUp(c)

Next == Server \/ Press \/ \E c \in Clients : Connect(c) \/ Task(c)

Spec == Init /\ [][Next]_vars

(* The scheduler runs every task: receive calls and waits time out, and a  *)
(* task that is to stop leaves its receive loop.  A sender need not leave. *)
Fairness ==
  /\ WF_vars(WaitEnds \/ WaitTimesOut \/ MarkOld \/ StopOld \/ Launch \/ Launched)
  /\ \A c \in Clients :
       /\ WF_vars(Begin(c))
       /\ WF_vars(Disconnect(c) /\ Mine(c).should_stop)
       /\ WF_vars(CleanUp(c) /\ (pc[c] = "phase2" => Mine(c).should_stop))

FairSpec == Spec /\ Fairness

-----------------------------------------------------------------------------
TypeOK ==
  /\ slots \in [{0, 1} -> [task : Clients \cup {NoClient}, conn : Clients \cup {NoClient},
                           socket : BOOLEAN, should_stop : BOOLEAN, is_old : BOOLEAN]]
  /\ current_slot \in {0, 1} /\ server_running \in BOOLEAN
  /\ server.pc \in {"accept", "wait", "mark", "stop", "launch", "launched", "off"}
  /\ server.client \in Clients \cup {NoClient}
  /\ server.pc \in {"accept", "off"} <=> server.client = NoClient
  /\ \A i \in {0, 1} : slots[i].task = NoClient => slots[i].conn = NoClient /\ ~slots[i].socket
  /\ pc \in [Clients -> {"new", "backlog", "begin", "serve", "gone"} \cup Cleanup]
  /\ slot \in [Clients -> {0, 1}]
  /\ \A f \in DOMAIN device : device[f] \in Clients \cup {NoClient}
  /\ resume_requested \in BOOLEAN /\ ptp_running \in BOOLEAN
  /\ presses \in 0 .. plan.presses /\ restarts \in 0 .. plan.restarts

(* No slot is given to a new client before the task of its last one is     *)
(* gone: two tasks never share a slot and its flags.                       *)
SlotHasOneTask ==
  \A c, d \in Clients : Live(c) /\ Live(d) /\ c # d => slot[c] # slot[d]

(* A new client's task starts only after every older one has been told to  *)
(* stop, in whatever part of its life or cleanup that one is.              *)
OneClientUnstopped ==
  \A c, d \in Clients :
    Live(c) /\ Live(d) /\ ~Mine(c).should_stop /\ ~Mine(d).should_stop => c = d

(* The cleanup of one client takes nothing from one that is served: not    *)
(* its audio, clocks, DACP session or event port task, and does not show   *)
(* "disconnected" over it.                                                 *)
KeepsOthers(c) ==
  /\ \A f \in DOMAIN device :
       device'[f] # device[f] /\ device[f] # c => pc[device[f]] # "serve"
  /\ (shown' # shown /\ shown'.event = "disconnected")
       => \A d \in Clients \ {c} : pc[d] # "serve"

NewSessionKept ==
  [][\A c \in Clients : pc[c] \in Cleanup /\ pc'[c] # pc[c] => KeepsOthers(c)]_vars

(* So it is at least for senders that reconnect while their predecessor    *)
(* waits in its grace period, and keep their DACP service advertised.      *)
GraceKeepsSession ==
  [][plan.arrive \subseteq {"phase1", "phase2"} /\ ~plan.fickle =>
       \A c \in Clients : pc[c] \in Cleanup /\ pc'[c] # pc[c] => KeepsOthers(c)]_vars

(* When connections are made one after the other and the last has gone,    *)
(* nothing is left over, even across a restart of the server: PTP runs for *)
(* the next one, and no stream, NTP client or event port task remains.     *)
IdleIsClean ==
  plan.arrive = {} /\ (\A c \in Clients : pc[c] \in {"new", "gone"}) =>
    /\ ptp_running
    /\ device.stream = NoClient /\ device.ntp = NoClient /\ device.event = NoClient

(* What holds of the slots and their tasks in every state: types, one task  *)
(* to a slot, one client not told to stop, nothing left when all are gone.  *)
ServerInv == TypeOK /\ SlotHasOneTask /\ OneClientUnstopped /\ IdleIsClean

(* A client that is told to stop goes, wherever it is, unless the server   *)
(* is restarted: server_task then clears its flags.                        *)
StoppedClientGoes ==
  \A c \in Clients :
    (Live(c) /\ Mine(c).should_stop) ~> (~Live(c) \/ restarts > 0)
=============================================================================
