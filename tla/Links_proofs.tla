---------------------------- MODULE Links_proofs ----------------------------
(***************************************************************************)
(* Two parts.  The server task and the client tasks of rtsp_server.c, for  *)
(* any number of connections: a slot and its task, one client that is not  *)
(* told to stop, what is left when all are gone, and what a cleanup leaves *)
(* to the connection that follows it.  And the links of MCLinks, for any   *)
(* sizes and bounds: the jack, Bluetooth's ring buffer, the network, and   *)
(* one RTSP connection from its bytes up, whatever an orderly client says. *)
(***************************************************************************)
EXTENDS RtspServer, MCLinks, TLAPS, SequenceTheorems, FiniteSetTheorems, WellFoundedInduction

Maybe == Clients \cup {NoClient}
SlotType ==
  [task : Maybe, conn : Maybe, socket : BOOLEAN, should_stop : BOOLEAN, is_old : BOOLEAN]
DeviceType == [stream : Maybe, ntp : Maybe, event : Maybe, dacp : Maybe, master : Maybe]
ServerType ==
  [pc : {"accept", "wait", "mark", "stop", "launch", "launched", "off"}, client : Maybe]
Labels == {"new", "backlog", "begin", "serve", "gone"} \cup Cleanup

Active(c) == pc[c] \notin {"new", "gone"}

(* The types, with the records whole. *)
Types ==
  /\ plan \in Scenario /\ slots \in [{0, 1} -> SlotType] /\ current_slot \in {0, 1}
  /\ server \in ServerType /\ server_running \in BOOLEAN
  /\ pc \in [Clients -> Labels] /\ slot \in [Clients -> {0, 1}]
  /\ device \in DeviceType /\ resume_requested \in BOOLEAN /\ ptp_running \in BOOLEAN
  /\ presses \in 0 .. plan.presses /\ restarts \in 0 .. plan.restarts
  /\ server.pc \in {"accept", "off"} <=> server.client = NoClient
  /\ (server.pc = "off" => ~server_running) /\ (~server_running => restarts < plan.restarts)

(* A slot in use is the slot of its task, and a task that is there has its *)
(* slot, unless the slots were cleared under a task that is alone.         *)
Owners ==
  /\ \A i \in {0, 1} :
       IF slots[i].task # NoClient
         THEN Live(slots[i].task) /\ slot[slots[i].task] = i
         ELSE slots[i].conn = NoClient /\ ~slots[i].socket
  /\ \A c \in Clients : Live(c) => Mine(c).task = c \/ plan.arrive = {}
  /\ \A c \in Clients : pc[c] = "begin" => Mine(c).task = c /\ Mine(c).conn = NoClient

(* One connection after the other. *)
OneAtATime ==
  plan.arrive = {} =>
    /\ \A c, d \in Clients : Active(c) /\ Active(d) => c = d
    /\ \A i \in {0, 1} : ~slots[i].is_old

(* The connection the server task has accepted waits until it is launched, *)
(* and the slot it gets is free from the time the server has seen it so.   *)
Handling ==
  /\ server.pc \in {"wait", "mark", "stop", "launch"} => pc[server.client] = "backlog"
  /\ server.pc \in {"mark", "stop", "launch"} => slots[new_slot].task = NoClient

(* All tasks but the current one's are told to stop, and that one too once *)
(* a new one is launched.                                                  *)
Stopped(i) == slots[i].task # NoClient => slots[i].should_stop
Told ==
  /\ server.pc # "launched" => Stopped(new_slot)
  /\ server.pc \in {"launch", "launched"} => Stopped(current_slot)

(* What is in use belongs to a task that still has the step before it that *)
(* stops it.                                                               *)
InUse(client, before) == client # NoClient => pc[client] \in before
UntilNtp == {"serve", "audio", "ntp"}
UntilPtp == UntilNtp \cup {"grace", "phase1", "phase2", "expire", "clear", "global", "ptp"}
Leftovers ==
  plan.arrive = {} =>
    /\ InUse(device.stream, {"serve", "audio"})
    /\ InUse(device.ntp, UntilNtp)
    /\ InUse(device.event, UntilPtp \cup {"event"})
    /\ ~ptp_running => \E c \in Clients : pc[c] \in UntilPtp

(* The scenarios in which the flags are never cleared under a task that    *)
(* another one follows.                                                    *)
Undisturbed == restarts = 0 \/ plan.arrive = {}

IInv == Types /\ (Undisturbed => Owners /\ OneAtATime /\ Handling /\ Told /\ Leftovers)

(* For connections made in the grace period of their predecessor: of two   *)
(* that are there one is marked old and in its grace period or at the end  *)
(* of its cleanup, or it is in its grace period and the other one waits to *)
(* be accepted.  The server task marks the current client before it starts *)
(* the next, and stops no other.                                           *)
Graceful ==
  /\ plan.arrive \subseteq {"phase1", "phase2"} /\ plan.arrive # {} /\ ~plan.fickle
  /\ plan.restarts = 0 /\ plan.v1 = Clients
Old(c) == Live(c) /\ Mine(c).is_old
Trails(c) == Old(c) /\ pc[c] \in {"phase1", "phase2", "expire", "global", "free"}
Follows(c, d) == pc[c] = "backlog" /\ pc[d] \in {"phase1", "phase2"}
InTurn ==
  \A c, d \in Clients :
    Active(c) /\ Active(d) /\ c # d => Trails(c) \/ Trails(d) \/ Follows(c, d) \/ Follows(d, c)
Marked(i) == slots[i].task # NoClient => slots[i].is_old
MarkedInTime ==
  /\ server.pc # "launched" => Marked(new_slot)
  /\ server.pc \in {"stop", "launch", "launched"} => Marked(current_slot)
  /\ \A i \in {0, 1} : slots[i].task # NoClient /\ slots[i].should_stop => slots[i].is_old
MasterIsBuffered == device.master # NoClient => device.master \notin plan.v1
GraceInv == MasterIsBuffered /\ (Graceful => InTurn /\ MarkedInTime)

Good == Owners /\ OneAtATime /\ Handling /\ Told /\ Leftovers

-----------------------------------------------------------------------------
(* The two slots, and the parts of a state that has the types. *)
LEMMA Parts ==
  ASSUME Types
  PROVE  /\ new_slot \in {0, 1} /\ new_slot # current_slot /\ current_slot \in {0, 1}
         /\ \A i \in {0, 1} : i = new_slot \/ i = current_slot
         /\ \A i \in {0, 1} : slots[i] \in SlotType
         /\ \A c \in Clients : /\ slot[c] \in {0, 1} /\ pc[c] \in Labels
                              /\ Mine(c) \in SlotType
         /\ NoClient \notin Clients /\ NoClient \in Maybe /\ Clients \subseteq Maybe
         /\ restarts \in Nat
BY ClientAssumption DEF Types, new_slot, Mine, Maybe, Scenario

LEMMA InitIInv == Init => IInv /\ GraceInv
<1> SUFFICES ASSUME Init PROVE IInv /\ GraceInv
  OBVIOUS
<1>1. plan \in Scenario
  BY ScenarioAssumption DEF Init
<1>2. EmptySlot \in SlotType
  BY DEF EmptySlot, SlotType, Maybe
<1>3. Types
  <2>1. presses \in 0 .. plan.presses /\ restarts \in 0 .. plan.restarts
    BY <1>1 DEF Init, Scenario
  <2>2. slots \in [{0, 1} -> SlotType] /\ pc \in [Clients -> Labels] /\ slot \in [Clients -> {0, 1}]
    BY <1>2 DEF Init, Labels
  <2>3. server \in ServerType /\ device \in DeviceType
    BY DEF Init, ServerType, DeviceType, Maybe
  <2> QED
    BY <1>1, <2>1, <2>2, <2>3 DEF Init, Types
<1>4. \A c \in Clients : pc[c] = "new"
  BY DEF Init
<1>5. \A i \in {0, 1} : slots[i] = EmptySlot
  BY DEF Init
<1>6. Owners /\ OneAtATime
  BY <1>4, <1>5 DEF Owners, OneAtATime, EmptySlot, Live, Active
<1>7. Handling /\ Told /\ Leftovers
  BY <1>3, <1>5, Parts
  DEF Init, Handling, Told, Stopped, Leftovers, InUse, EmptySlot
<1>8. GraceInv
  BY <1>3, <1>4, <1>5, Parts
  DEF Init, GraceInv, MasterIsBuffered, MarkedInTime, InTurn, Marked, EmptySlot, Active
<1> QED
  BY <1>3, <1>6, <1>7, <1>8 DEF IInv

-----------------------------------------------------------------------------
(* The steps of a client task, and the button. *)

(* A step of a task that is there and stays leaves the slots and the server *)
(* task alone, and disturbs only what it does to the device.                *)
Quiet == UNCHANGED << plan, slots, current_slot, server, server_running, slot, presses, restarts >>
Walks(c) ==
  /\ Live(c) /\ Quiet
  /\ UNCHANGED pc \/ \E l \in Labels \ {"new", "backlog", "begin", "gone"} : Goto(c, l)

LEMMA TaskFrame ==
  ASSUME IInv, Undisturbed,
         UNCHANGED << plan, current_slot, server, slot, restarts >>,
         \A i \in {0, 1} :
           /\ slots'[i].task = slots[i].task
           /\ (slots'[i].should_stop <=> slots[i].should_stop)
           /\ (slots'[i].is_old <=> slots[i].is_old)
           /\ (slots[i].task = NoClient => slots'[i].conn = NoClient /\ ~slots'[i].socket),
         \A d \in Clients :
           /\ (Live(d)' <=> Live(d)) /\ (Active(d)' <=> Active(d))
           /\ (pc'[d] = "backlog" <=> pc[d] = "backlog")
           /\ (pc'[d] = "begin" => pc[d] = "begin" /\ slots'[slot[d]].conn = slots[slot[d]].conn)
  PROVE  Owners' /\ OneAtATime' /\ Handling' /\ Told'
<1> USE DEF Mine, Stopped, new_slot
<1>1. Types /\ Owners /\ OneAtATime /\ Handling /\ Told
  BY DEF IInv
<1>0. \A d \in Clients : slot[d] \in {0, 1}
  BY <1>1, Parts
<1>2. Owners'
  <2>1. \A i \in {0, 1} : slots[i].task \in Maybe
    BY <1>1, Parts DEF SlotType
  <2>2. ASSUME NEW i \in {0, 1}, slots[i].task # NoClient
        PROVE  Live(slots[i].task)' /\ slot[slots[i].task] = i
    BY <1>1, <2>1, <2>2 DEF Owners, Maybe
  <2>3. ASSUME NEW c \in Clients, Live(c)' PROVE slots[slot[c]].task = c \/ plan.arrive = {}
    BY <1>1, <2>3 DEF Owners
  <2>4. ASSUME NEW c \in Clients, pc'[c] = "begin"
        PROVE  slots[slot[c]].task = c /\ slots'[slot[c]].conn = NoClient
    BY <1>1, <2>4 DEF Owners
  <2> QED
    BY <1>0, <1>1, <2>1, <2>2, <2>3, <2>4 DEF Owners
<1>3. OneAtATime'
  <2>1. \A c, d \in Clients : Active(c)' /\ Active(d)' => Active(c) /\ Active(d)
    OBVIOUS
  <2> QED
    BY <1>1, <2>1 DEF OneAtATime
<1>4. Handling' /\ Told'
  <2>1. server.pc \in {"wait", "mark", "stop", "launch"} => server.client \in Clients
    BY <1>1, Parts DEF Types, ServerType, Maybe
  <2>2. server.client \in Clients => (pc'[server.client] = "backlog" <=> pc[server.client] = "backlog")
    OBVIOUS
  <2>3. Handling'
    BY <1>1, <2>1, <2>2, Parts DEF Handling
  <2> QED
    BY <1>1, <2>3, Parts DEF Told
<1> QED
  BY <1>2, <1>3, <1>4

LEMMA WalksKeep ==
  ASSUME IInv, NEW c \in Clients, Walks(c),
         device' \in DeviceType, resume_requested' \in BOOLEAN, ptp_running' \in BOOLEAN,
         plan.arrive = {} => Leftovers'
  PROVE  IInv'
<1>1. Types /\ pc \in [Clients -> Labels]
  BY DEF IInv, Types
<1>2. \/ pc' = pc
      \/ \E l \in Labels \ {"new", "backlog", "begin", "gone"} : pc' = [pc EXCEPT ![c] = l]
  BY DEF Walks, Goto
<1>3. pc' \in [Clients -> Labels]
  BY <1>1, <1>2
<1>4. Types'
  BY <1>1, <1>3 DEF Types, Walks, Quiet
<1>5. ASSUME NEW d \in Clients
      PROVE  /\ (Live(d)' <=> Live(d)) /\ (Active(d)' <=> Active(d))
             /\ (pc'[d] = "backlog" <=> pc[d] = "backlog")
             /\ (pc'[d] = "begin" => pc[d] = "begin")
  BY <1>1, <1>2 DEF Live, Active, Walks
<1>6. ASSUME Undisturbed' PROVE Owners' /\ OneAtATime' /\ Handling' /\ Told' /\ Leftovers'
  <2>1. Undisturbed
    BY <1>6 DEF Undisturbed, Walks, Quiet
  <2>2. slots' = slots /\ UNCHANGED << plan, current_slot, server, slot, restarts >>
    BY DEF Walks, Quiet
  <2>3. \A i \in {0, 1} : slots[i].task = NoClient => slots[i].conn = NoClient /\ ~slots[i].socket
    BY <2>1 DEF IInv, Owners
  <2>4. Owners' /\ OneAtATime' /\ Handling' /\ Told'
    BY <1>5, <2>1, <2>2, <2>3, TaskFrame
  <2> QED
    BY <2>4 DEF Leftovers, Walks, Quiet
<1> QED
  BY <1>4, <1>6 DEF IInv

(* When connections come one after the other, whoever is there is alone.   *)
LEMMA Alone ==
  ASSUME IInv, plan.arrive = {}, NEW c \in Clients, Active(c)
  PROVE  /\ Leftovers /\ \A d \in Clients : d # c => pc[d] \in {"new", "gone"}
         /\ \A i \in {0, 1} : ~slots[i].is_old
         /\ device \in DeviceType
         /\ \A f \in {"stream", "ntp", "event"} : device[f] \in {c, NoClient}
BY DEF IInv, Undisturbed, OneAtATime, Active, Leftovers, Types, DeviceType, InUse, Maybe,
       UntilNtp, UntilPtp

LEMMA RequestIInv == ASSUME IInv, NEW c \in Clients, Request(c) PROVE IInv'
<1>1. pc[c] = "serve" /\ Live(c) /\ Active(c)
  BY DEF Request, Setup, Play, Teardown, Serving, Live, Active
<1>2. Walks(c) /\ pc' = pc
  BY <1>1 DEF Request, Setup, Play, Teardown, Walks, Quiet, control
<1>3. device \in DeviceType /\ ptp_running \in BOOLEAN /\ resume_requested \in BOOLEAN /\ c \in Maybe /\ NoClient \in Maybe
  BY DEF IInv, Types, Maybe
<1>4. device' \in DeviceType /\ ptp_running' \in BOOLEAN /\ resume_requested' \in BOOLEAN
  BY <1>3 DEF Request, Setup, Play, Teardown, Dispatched, DeviceType, control
<1>5. ASSUME plan.arrive = {} PROVE Leftovers'
  <2>1. /\ device.stream \in {c, NoClient} /\ device.ntp \in {c, NoClient}
        /\ device.event \in {c, NoClient}
    BY <1>1, <1>5, Alone
  <2>2. /\ device'.stream \in {c, NoClient} /\ device'.ntp \in {c, NoClient}
        /\ device'.event \in {c, NoClient}
    BY <1>3, <2>1 DEF Request, Setup, Play, Teardown, Dispatched, DeviceType
  <2> QED
    BY <1>1, <1>2, <2>2 DEF Leftovers, InUse, UntilPtp, UntilNtp
<1> QED
  BY <1>2, <1>4, <1>5, WalksKeep

(* The steps of the cleanup before its last. *)
CleanStep(c) ==
  \/ StopAudio(c) \/ StopNtp(c) \/ Grace(c) \/ Phase1(c) \/ Phase2Button(c) \/ Phase2(c)
  \/ Expire(c) \/ Clear(c) \/ Global(c) \/ StartPtp(c) \/ StopEvent(c)

LEMMA CleanIInv == ASSUME IInv, NEW c \in Clients, CleanStep(c) PROVE IInv'
<1> USE DEF CleanStep, StopAudio, StopNtp, Grace, Phase1, Phase2Button, Phase2, Expire, Clear,
            Global, StartPtp, StopEvent, control
<1>1. pc \in [Clients -> Labels] /\ pc[c] \in Cleanup \ {"free"}
  BY DEF IInv, Types, Cleanup
<1>2. Live(c) /\ Active(c)
  BY <1>1 DEF Live, Active, Cleanup
<1>3. Walks(c)
  <2>1. Quiet
    BY DEF Quiet
  <2>2. UNCHANGED pc \/ \E l \in Cleanup : Goto(c, l)
    BY DEF Cleanup
  <2>3. Cleanup \subseteq Labels \ {"new", "backlog", "begin", "gone"}
    BY DEF Cleanup, Labels
  <2> QED
    BY <1>2, <2>1, <2>2, <2>3 DEF Walks
<1>4. /\ device \in DeviceType /\ ptp_running \in BOOLEAN /\ resume_requested \in BOOLEAN
      /\ NoClient \in Maybe
  BY DEF IInv, Types, Maybe
<1>5. device' \in DeviceType /\ ptp_running' \in BOOLEAN /\ resume_requested' \in BOOLEAN
  BY <1>4 DEF DeviceType
<1>6. ASSUME plan.arrive = {} PROVE Leftovers'
  <2>1. /\ device.stream = c => pc[c] \in {"serve", "audio"}
        /\ device.ntp = c => pc[c] \in UntilNtp
        /\ device.event = c => pc[c] \in UntilPtp \cup {"event"}
        /\ ~ptp_running => pc[c] \in UntilPtp
        /\ device.stream \in {c, NoClient} /\ device.ntp \in {c, NoClient}
        /\ device.event \in {c, NoClient} /\ ~Mine(c).is_old /\ c # NoClient
    <3>1. Leftovers /\ c # NoClient /\ Mine(c) \in SlotType
      BY <1>2, <1>6, Alone, Parts DEF IInv
    <3>2. \A d \in Clients : pc[d] \in UntilPtp => d = c
      BY <1>2, <1>6, Alone DEF UntilPtp, UntilNtp
    <3>3. ~Mine(c).is_old
      BY <1>2, <1>6, Alone, Parts DEF IInv, Mine
    <3>4. /\ device.stream \in {c, NoClient} /\ device.ntp \in {c, NoClient}
          /\ device.event \in {c, NoClient}
      BY <1>2, <1>6, Alone
    <3> QED
      BY <1>6, <3>1, <3>2, <3>3, <3>4 DEF Leftovers, InUse
  <2> DEFINE Kept ==
        /\ device'.stream = c => pc'[c] \in {"serve", "audio"}
        /\ device'.ntp = c => pc'[c] \in UntilNtp
        /\ device'.event = c => pc'[c] \in UntilPtp \cup {"event"}
        /\ ~ptp_running' => pc'[c] \in UntilPtp
        /\ device'.stream \in {c, NoClient} /\ device'.ntp \in {c, NoClient}
        /\ device'.event \in {c, NoClient}
  <2> SUFFICES Kept
    BY DEF Leftovers, InUse
  <2> USE <1>1, <1>4, <2>1 DEF Goto, UntilPtp, UntilNtp, DeviceType
  <2>2. CASE StopAudio(c)
    BY <2>2
  <2>3. CASE StopNtp(c)
    BY <2>3
  <2>4. CASE Grace(c) \/ Phase1(c)
    BY <2>4
  <2>5. CASE Phase2Button(c) \/ Phase2(c)
    BY <2>5
  <2>6. CASE Expire(c) \/ Clear(c)
    BY <2>6
  <2>7. CASE Global(c)
    BY <2>7
  <2>8. CASE StartPtp(c) \/ StopEvent(c)
    BY <2>8
  <2> QED
    BY <2>2, <2>3, <2>4, <2>5, <2>6, <2>7, <2>8
<1> QED
  BY <1>3, <1>5, <1>6, WalksKeep

LEMMA PressIInv == ASSUME IInv, Press PROVE IInv'
<1>1. Types'
  BY DEF IInv, Types, Press, Scenario
<1>2. ASSUME Undisturbed' PROVE Good'
  BY <1>2 DEF IInv, Good, Undisturbed, Press, Owners, OneAtATime, Handling, Told, Leftovers,
              Live, Mine, Active, Stopped, new_slot, InUse
<1> QED
  BY <1>1, <1>2 DEF IInv, Good

(* What the device has in use stays when it does and its users go nowhere  *)
(* but from a lost connection to its cleanup.                              *)
LEMMA LeftoversKept ==
  ASSUME IInv, Undisturbed, UNCHANGED << plan, device, ptp_running >>,
         \A d \in Clients :
           pc[d] \in UntilPtp \cup {"event"}
             => pc'[d] = pc[d] \/ (pc[d] = "serve" /\ pc'[d] = "audio")
  PROVE  Leftovers'
<1>1. Leftovers /\ device \in DeviceType
  BY DEF IInv, Types
<1>2. /\ device.stream \in Maybe /\ device.ntp \in Maybe /\ device.event \in Maybe
  BY <1>1 DEF DeviceType
<1>3. \A d \in Clients :
        /\ pc[d] \in {"serve", "audio"} => pc'[d] \in {"serve", "audio"}
        /\ pc[d] \in UntilNtp => pc'[d] \in UntilNtp
        /\ pc[d] \in UntilPtp => pc'[d] \in UntilPtp
        /\ pc[d] \in UntilPtp \cup {"event"} => pc'[d] \in UntilPtp \cup {"event"}
  BY DEF UntilPtp, UntilNtp
<1> QED
  BY <1>1, <1>2, <1>3 DEF Leftovers, InUse, Maybe

(* A connection is made. *)
LEMMA ConnectIInv == ASSUME IInv, NEW c \in Clients, Connect(c) PROVE IInv'
<1> USE DEF Connect, control
<1>1. Types /\ pc \in [Clients -> Labels] /\ pc[c] = "new" /\ pc' = [pc EXCEPT ![c] = "backlog"]
  BY DEF IInv, Types, Goto
<1>2. Types'
  BY <1>1 DEF Types, Labels
<1>3. \A d \in Clients : (Live(d)' <=> Live(d)) /\ (d # c => pc'[d] = pc[d])
  BY <1>1 DEF Live
<1>4. ASSUME Undisturbed' PROVE Good'
  <2>1. Undisturbed /\ Good
    BY <1>4 DEF Undisturbed, IInv, Good
  <2>2. Owners'
    <3>1. \A i \in {0, 1} : slots[i].task \in Maybe
      BY <1>1, Parts DEF SlotType
    <3>2. ASSUME NEW i \in {0, 1}, slots[i].task # NoClient
          PROVE  Live(slots[i].task)' /\ slot[slots[i].task] = i
      BY <1>3, <2>1, <3>1, <3>2 DEF Good, Owners, Maybe
    <3>3. \A d \in Clients : pc'[d] = "begin" => pc[d] = "begin"
      BY <1>1
    <3> QED
      BY <1>3, <2>1, <3>2, <3>3 DEF Good, Owners, Mine
  <2>3. OneAtATime'
    BY <1>1, <2>1 DEF Good, OneAtATime, Active
  <2>4. Handling'
    <3>1. server.pc \in {"wait", "mark", "stop", "launch"} => server.client \in Clients
      BY <1>1, Parts DEF Types, ServerType, Maybe
    <3> QED
      BY <1>1, <2>1, <3>1 DEF Good, Handling, new_slot
  <2>5. Told'
    BY <2>1 DEF Good, Told, Stopped, new_slot
  <2>6. Leftovers'
    <3>1. \A d \in Clients : pc[d] \in UntilPtp \cup {"event"} => pc'[d] = pc[d]
      BY <1>1, <1>3 DEF UntilPtp, UntilNtp
    <3>2. plan' = plan /\ device' = device /\ ptp_running' = ptp_running
      OBVIOUS
    <3> HIDE DEF Connect, control
    <3> QED
      BY <2>1, <3>1, <3>2, LeftoversKept
  <2> QED
    BY <2>2, <2>3, <2>4, <2>5, <2>6 DEF Good
<1> QED
  BY <1>2, <1>4 DEF IInv, Good

(* A change of one slot, or of one place, keeps the types. *)
LEMMA SlotTyped ==
  ASSUME Types, NEW i \in {0, 1}, NEW v \in SlotType
  PROVE  [slots EXCEPT ![i] = v] \in [{0, 1} -> SlotType]
BY DEF Types

LEMMA GotoTyped ==
  ASSUME Types, NEW c \in Clients, NEW l \in Labels, Goto(c, l)
  PROVE  /\ pc' \in [Clients -> Labels] /\ pc'[c] = l
         /\ \A d \in Clients : d # c => pc'[d] = pc[d]
BY DEF Types, Goto

(* A task that is gone has left its slot. *)
LEMMA TaskEnds ==
  ASSUME IInv, Undisturbed, NEW c \in Clients, Live(c), Goto(c, "gone"),
         UNCHANGED << plan, current_slot, server, slot, restarts >>,
         NEW v \in SlotType, v.task = NoClient, v.conn = NoClient, ~v.socket,
         v.is_old => Mine(c).is_old, slots' = [slots EXCEPT ![slot[c]] = v]
  PROVE  Owners' /\ OneAtATime' /\ Handling' /\ Told'
<1>1. Types /\ Owners /\ OneAtATime /\ Handling /\ Told
  BY DEF IInv
<1>2. /\ pc'[c] = "gone" /\ \A d \in Clients : d # c => pc'[d] = pc[d]
  BY <1>1, GotoTyped DEF Labels
<1>3. /\ slots'[slot[c]] = v /\ slot[c] \in {0, 1}
      /\ \A i \in {0, 1} : i # slot[c] => slots'[i] = slots[i]
      /\ \A i \in {0, 1} : slots[i].task \in Maybe /\ slots[i] \in SlotType
  BY <1>1, Parts DEF Types, SlotType
<1>4. ASSUME NEW d \in Clients, d # c, Live(d), slot[d] = slot[c] PROVE plan.arrive = {}
  BY <1>1, <1>4 DEF Owners, Mine
<1>5. ASSUME plan.arrive = {}, NEW d \in Clients, d # c PROVE ~Active(d)
  BY <1>1, <1>5 DEF OneAtATime, Active, Live
<1>6. Owners'
  <2>1. ASSUME NEW i \in {0, 1}
        PROVE  IF slots'[i].task # NoClient
                 THEN Live(slots[i].task)' /\ slot[slots'[i].task] = i
                 ELSE slots'[i].conn = NoClient /\ ~slots'[i].socket
    <3>1. CASE i = slot[c]
      BY <1>3, <3>1
    <3>2. CASE i # slot[c]
      <4>1. slots'[i] = slots[i]
        BY <1>3, <3>2
      <4>2. CASE slots[i].task = NoClient
        BY <1>1, <4>1, <4>2 DEF Owners
      <4>3. CASE slots[i].task # NoClient
        <5>1. Live(slots[i].task) /\ slot[slots[i].task] = i /\ slots[i].task \in Clients
          BY <1>1, <1>3, <4>3 DEF Owners, Maybe
        <5>2. slots[i].task # c
          BY <3>2, <5>1
        <5>3. pc'[slots[i].task] = pc[slots[i].task]
          BY <1>2, <5>1, <5>2
        <5> QED
          BY <4>1, <4>3, <5>1, <5>3 DEF Live
      <4> QED
        BY <4>2, <4>3
    <3> QED
      BY <3>1, <3>2
  <2>2. ASSUME NEW d \in Clients, Live(d)' PROVE slots'[slot[d]].task = d \/ plan.arrive = {}
    <3>1. d # c /\ Live(d) /\ slot[d] \in {0, 1}
      BY <1>1, <1>2, <2>2, Parts DEF Live
    <3>2. slot[d] # slot[c] \/ plan.arrive = {}
      BY <1>4, <3>1
    <3> QED
      BY <1>1, <1>3, <3>1, <3>2 DEF Owners, Mine
  <2>3. ASSUME NEW d \in Clients, pc'[d] = "begin"
        PROVE  slots'[slot[d]].task = d /\ slots'[slot[d]].conn = NoClient
    <3>1. d # c /\ pc[d] = "begin" /\ Live(d) /\ Active(d) /\ slot[d] \in {0, 1}
      BY <1>1, <1>2, <2>3, Parts DEF Live, Active
    <3>2. slot[d] # slot[c]
      BY <1>4, <1>5, <3>1
    <3> QED
      BY <1>1, <1>3, <3>1, <3>2 DEF Owners, Mine
  <2> QED
    BY <2>1, <2>2, <2>3 DEF Owners, Mine
<1>7. OneAtATime'
  <2>1. \A d \in Clients : Active(d)' => Active(d)
    BY <1>2 DEF Active
  <2>2. Mine(c).is_old <=> slots[slot[c]].is_old
    BY DEF Mine
  <2> QED
    BY <1>1, <1>3, <2>1, <2>2 DEF OneAtATime
<1>8. Handling'
  <2>1. new_slot' = new_slot /\ new_slot \in {0, 1}
    BY <1>1, Parts DEF new_slot
  <2>2. server.pc \in {"wait", "mark", "stop", "launch"} =>
          server.client \in Clients /\ pc[server.client] = "backlog"
    BY <1>1, Parts DEF Types, ServerType, Maybe, Handling
  <2>3. pc[c] # "backlog"
    BY DEF Live
  <2> QED
    BY <1>1, <1>2, <1>3, <2>1, <2>2, <2>3 DEF Handling
<1>9. Told'
  <2>1. new_slot' = new_slot /\ new_slot \in {0, 1} /\ current_slot \in {0, 1}
    BY <1>1, Parts DEF new_slot
  <2>2. ASSUME NEW i \in {0, 1}, Stopped(i) PROVE Stopped(i)'
    BY <1>3, <2>2 DEF Stopped
  <2>3. (Stopped(new_slot) => Stopped(new_slot)') /\ (Stopped(current_slot) => Stopped(current_slot)')
    BY <2>1, <2>2 DEF Stopped
  <2> QED
    BY <1>1, <2>3 DEF Told
<1> QED
  BY <1>6, <1>7, <1>8, <1>9

(* The connection is lost. *)
LEMMA DisconnectIInv == ASSUME IInv, NEW c \in Clients, Disconnect(c) PROVE IInv'
<1> DEFINE v == [slots[slot[c]] EXCEPT !.socket = FALSE]
<1>1. /\ Types /\ pc[c] = "serve" /\ Goto(c, "audio") /\ slot[c] \in {0, 1}
      /\ slots[slot[c]] \in SlotType
      /\ UNCHANGED << plan, current_slot, server, server_running, slot, resume_requested, device,
                     ptp_running, shown, presses, restarts >>
  BY Parts DEF IInv, Disconnect
<1>2. /\ v \in SlotType /\ v.task = slots[slot[c]].task /\ v.conn = slots[slot[c]].conn
      /\ (v.should_stop <=> slots[slot[c]].should_stop)
      /\ (v.is_old <=> slots[slot[c]].is_old) /\ ~v.socket
  BY <1>1 DEF SlotType
<1>3. slots' = [slots EXCEPT ![slot[c]] = v]
  BY DEF Disconnect
<1> HIDE DEF v
<1>4. /\ pc' \in [Clients -> Labels] /\ pc'[c] = "audio"
      /\ \A d \in Clients : d # c => pc'[d] = pc[d]
  BY <1>1, GotoTyped DEF Labels, Cleanup
<1>5. Types'
  <2>1. slots' \in [{0, 1} -> SlotType]
    BY <1>1, <1>2, <1>3, SlotTyped
  <2> QED
    BY <1>1, <1>4, <2>1 DEF Types
<1>6. /\ slots'[slot[c]] = v /\ \A i \in {0, 1} : i # slot[c] => slots'[i] = slots[i]
  BY <1>1, <1>3 DEF Types
<1>7. ASSUME Undisturbed' PROVE Good'
  <2>1. Undisturbed /\ Good
    BY <1>1, <1>7 DEF Undisturbed, IInv, Good
  <2>2. \A i \in {0, 1} :
           /\ slots'[i].task = slots[i].task
           /\ (slots'[i].should_stop <=> slots[i].should_stop)
           /\ (slots'[i].is_old <=> slots[i].is_old)
           /\ slots'[i].conn = slots[i].conn
           /\ (slots'[i].socket => slots[i].socket)
    BY <1>2, <1>6
  <2>3. \A i \in {0, 1} :
           slots[i].task = NoClient => slots'[i].conn = NoClient /\ ~slots'[i].socket
    BY <2>1, <2>2 DEF Good, Owners
  <2>4. \A d \in Clients :
           /\ (Live(d)' <=> Live(d)) /\ (Active(d)' <=> Active(d))
           /\ (pc'[d] = "backlog" <=> pc[d] = "backlog")
           /\ (pc'[d] = "begin" => pc[d] = "begin" /\ slots'[slot[d]].conn = slots[slot[d]].conn)
    <3>1. \A d \in Clients : slot[d] \in {0, 1}
      BY <1>1, Parts
    <3> QED
      BY <1>1, <1>4, <2>2, <3>1 DEF Live, Active
  <2>5. Owners' /\ OneAtATime' /\ Handling' /\ Told'
    BY <1>1, <2>1, <2>2, <2>3, <2>4, TaskFrame
  <2>6. Leftovers'
    BY <1>1, <1>4, <2>1, LeftoversKept
  <2> QED
    BY <2>5, <2>6 DEF Good
<1> QED
  BY <1>5, <1>7 DEF IInv, Good

(* A client task begins, or ends at once. *)
LEMMA BeginIInv == ASSUME IInv, NEW c \in Clients, Begin(c) PROVE IInv'
<1>1. /\ Types /\ pc[c] = "begin" /\ slot[c] \in {0, 1} /\ slots[slot[c]] \in SlotType
      /\ UNCHANGED << plan, current_slot, server, server_running, slot, resume_requested, device,
                     ptp_running, shown, presses, restarts >>
  BY Parts DEF IInv, Begin
<1>0. NoClient \notin Clients /\ NoClient \in Maybe /\ Clients \subseteq Maybe
  BY <1>1, Parts
<1>2. CASE Goto(c, "serve") /\ slots' = [slots EXCEPT ![slot[c]].conn = c]
  <2> DEFINE v == [slots[slot[c]] EXCEPT !.conn = c]
  <2>2. /\ v \in SlotType /\ v.task = slots[slot[c]].task /\ v.conn = c
        /\ (v.should_stop <=> slots[slot[c]].should_stop)
        /\ (v.is_old <=> slots[slot[c]].is_old) /\ (v.socket <=> slots[slot[c]].socket)
    BY <1>0, <1>1 DEF SlotType
  <2>3. slots' = [slots EXCEPT ![slot[c]] = v]
    BY <1>2
  <2> HIDE DEF v
  <2>4. /\ pc' \in [Clients -> Labels] /\ pc'[c] = "serve"
        /\ \A d \in Clients : d # c => pc'[d] = pc[d]
    BY <1>1, <1>2, GotoTyped DEF Labels
  <2>5. Types'
    <3>1. slots' \in [{0, 1} -> SlotType]
      BY <1>1, <2>2, <2>3, SlotTyped
    <3> QED
      BY <1>1, <2>4, <3>1 DEF Types
  <2>6. /\ slots'[slot[c]] = v /\ \A i \in {0, 1} : i # slot[c] => slots'[i] = slots[i]
    BY <1>1, <2>3 DEF Types
  <2>7. ASSUME Undisturbed' PROVE Good'
    <3>1. Undisturbed /\ Good
      BY <1>1, <2>7 DEF Undisturbed, IInv, Good
    <3>2. slots[slot[c]].task = c
      BY <1>1, <3>1 DEF Good, Owners, Mine
    <3>3. \A i \in {0, 1} :
            /\ slots'[i].task = slots[i].task
            /\ (slots'[i].should_stop <=> slots[i].should_stop)
            /\ (slots'[i].is_old <=> slots[i].is_old)
            /\ (slots[i].task = NoClient => slots'[i].conn = NoClient /\ ~slots'[i].socket)
      BY <1>0, <2>2, <2>6, <3>1, <3>2 DEF Good, Owners
    <3>4. ASSUME NEW d \in Clients
          PROVE  /\ (Live(d)' <=> Live(d)) /\ (Active(d)' <=> Active(d))
                 /\ (pc'[d] = "backlog" <=> pc[d] = "backlog")
                 /\ (pc'[d] = "begin" => pc[d] = "begin" /\ slots'[slot[d]].conn = slots[slot[d]].conn)
      <4>1. CASE d = c
        BY <1>1, <2>4, <4>1 DEF Live, Active
      <4>2. CASE d # c
        <5>1. pc'[d] = pc[d] /\ slot[d] \in {0, 1}
          BY <1>1, <2>4, <4>2, Parts
        <5>2. pc[d] = "begin" => slot[d] # slot[c]
          BY <3>1, <3>2, <4>2 DEF Good, Owners, Mine
        <5> QED
          BY <2>6, <5>1, <5>2 DEF Live, Active
      <4> QED
        BY <4>1, <4>2
    <3>5. Owners' /\ OneAtATime' /\ Handling' /\ Told'
      BY <1>1, <3>1, <3>3, <3>4, TaskFrame
    <3>6. Leftovers'
      <4>1. \A d \in Clients : pc[d] \in UntilPtp \cup {"event"} => pc'[d] = pc[d]
        BY <1>1, <2>4 DEF UntilPtp, UntilNtp
      <4> QED
        BY <1>1, <3>1, <4>1, LeftoversKept
    <3> QED
      BY <3>5, <3>6 DEF Good
  <2> QED
    BY <2>5, <2>7 DEF IInv, Good
<1>3. CASE /\ Goto(c, "gone")
           /\ slots' = [slots EXCEPT ![slot[c]].task = NoClient, ![slot[c]].socket = FALSE]
  <2> DEFINE v == [slots[slot[c]] EXCEPT !.task = NoClient, !.socket = FALSE]
  <2>2. /\ v \in SlotType /\ v.task = NoClient /\ v.conn = slots[slot[c]].conn /\ ~v.socket
        /\ (v.is_old <=> slots[slot[c]].is_old)
    BY <1>0, <1>1 DEF SlotType
  <2>3. slots' = [slots EXCEPT ![slot[c]] = v]
    BY <1>1, <1>3 DEF SlotType, Types
  <2> HIDE DEF v
  <2>4. Types'
    <3>1. slots' \in [{0, 1} -> SlotType]
      BY <1>1, <2>2, <2>3, SlotTyped
    <3>2. pc' \in [Clients -> Labels]
      BY <1>1, <1>3, GotoTyped DEF Labels
    <3> QED
      BY <1>1, <3>1, <3>2 DEF Types
  <2>5. ASSUME Undisturbed' PROVE Good'
    <3>1. Undisturbed /\ Good
      BY <1>1, <2>5 DEF Undisturbed, IInv, Good
    <3>2. v.conn = NoClient
      BY <1>1, <2>2, <3>1 DEF Good, Owners, Mine
    <3>3. Live(c) /\ (v.is_old => Mine(c).is_old)
      BY <1>1, <2>2 DEF Live, Mine
    <3>4. Owners' /\ OneAtATime' /\ Handling' /\ Told'
      BY <1>1, <1>3, <2>2, <2>3, <3>1, <3>2, <3>3, TaskEnds
    <3>5. Leftovers'
      <4>1. \A d \in Clients : pc[d] \in UntilPtp \cup {"event"} => pc'[d] = pc[d]
        BY <1>1, <1>3, GotoTyped DEF UntilPtp, UntilNtp, Labels
      <4> QED
        BY <1>1, <3>1, <4>1, LeftoversKept
    <3> QED
      BY <3>4, <3>5 DEF Good
  <2> QED
    BY <2>4, <2>5 DEF IInv, Good
<1> QED
  BY <1>2, <1>3 DEF Begin

(* The last step of the cleanup. *)
LEMMA FreeIInv == ASSUME IInv, NEW c \in Clients, Free(c) PROVE IInv'
<1>1. /\ Types /\ pc[c] = "free" /\ Goto(c, "gone") /\ slot[c] \in {0, 1}
      /\ slots' = [slots EXCEPT ![slot[c]] = EmptySlot] /\ device \in DeviceType
      /\ NoClient \in Maybe /\ device' = [device EXCEPT !.master = NoClient]
      /\ UNCHANGED << plan, current_slot, server, server_running, slot, resume_requested,
                     ptp_running, shown, presses, restarts >>
  BY Parts DEF IInv, Free, Types
<1>2. /\ EmptySlot \in SlotType /\ EmptySlot.task = NoClient /\ EmptySlot.conn = NoClient
      /\ ~EmptySlot.socket /\ ~EmptySlot.is_old
  BY <1>1 DEF EmptySlot, SlotType
<1>3. /\ device' \in DeviceType /\ device'.stream = device.stream
      /\ device'.ntp = device.ntp /\ device'.event = device.event
  BY <1>1 DEF DeviceType
<1>4. Types'
  <2>1. slots' \in [{0, 1} -> SlotType]
    BY <1>1, <1>2, SlotTyped
  <2>2. pc' \in [Clients -> Labels]
    BY <1>1, GotoTyped DEF Labels
  <2> QED
    BY <1>1, <1>3, <2>1, <2>2 DEF Types
<1>5. ASSUME Undisturbed' PROVE Good'
  <2>1. Undisturbed /\ Good /\ Live(c)
    BY <1>1, <1>5 DEF Undisturbed, IInv, Good, Live
  <2>2. Owners' /\ OneAtATime' /\ Handling' /\ Told'
    BY <1>1, <1>2, <2>1, TaskEnds
  <2>3. \A d \in Clients : pc[d] \in UntilPtp \cup {"event"} => pc'[d] = pc[d]
    BY <1>1, GotoTyped DEF UntilPtp, UntilNtp, Labels
  <2>4. Leftovers'
    <3>1. device.stream \in Maybe /\ device.ntp \in Maybe /\ device.event \in Maybe
      BY <1>1 DEF DeviceType
    <3> QED
      BY <1>1, <1>3, <2>1, <2>3, <3>1 DEF Good, Leftovers, InUse, Maybe, UntilPtp, UntilNtp
  <2> QED
    BY <2>2, <2>4 DEF Good
<1> QED
  BY <1>4, <1>5 DEF IInv, Good

-----------------------------------------------------------------------------
(* The steps of the server task. *)

(* While it only writes flags of the slots, the owners stay. *)
LEMMA FlagsOnly ==
  ASSUME IInv, Undisturbed, UNCHANGED << plan, pc, slot, restarts, device, ptp_running >>,
         \A i \in {0, 1} : /\ slots'[i].task = slots[i].task /\ slots'[i].conn = slots[i].conn
                          /\ (slots'[i].socket <=> slots[i].socket)
  PROVE  /\ Owners' /\ Leftovers'
         /\ (\A i \in {0, 1} : slots'[i].is_old <=> slots[i].is_old) => OneAtATime'
<1>1. Types /\ Owners /\ OneAtATime /\ Leftovers
  BY DEF IInv
<1>2. \A d \in Clients : slot[d] \in {0, 1}
  BY <1>1, Parts
<1>3. Owners'
  <2>1. \A i \in {0, 1} : slots'[i].task # NoClient => pc'[slots'[i].task] = pc[slots[i].task]
    OBVIOUS
  <2> QED
    BY <1>1, <1>2, <2>1 DEF Owners, Mine, Live
<1>4. Leftovers'
  BY <1>1 DEF Leftovers, InUse
<1>5. ASSUME \A i \in {0, 1} : slots'[i].is_old <=> slots[i].is_old PROVE OneAtATime'
  BY <1>1, <1>5 DEF OneAtATime, Active
<1> QED
  BY <1>3, <1>4, <1>5

(* What the server task's state says of the connection it handles. *)
LEMMA Handled ==
  ASSUME IInv, Undisturbed, server.pc \in {"wait", "mark", "stop", "launch"}
  PROVE  /\ server.client \in Clients /\ pc[server.client] = "backlog"
         /\ ~Live(server.client) /\ Active(server.client)
         /\ plan.arrive = {} => \A i \in {0, 1} : slots[i].task = NoClient
<1>1. Types /\ Owners /\ OneAtATime /\ Handling
  BY DEF IInv
<1>2. server.client \in Clients /\ pc[server.client] = "backlog"
  BY <1>1, Parts DEF Types, ServerType, Maybe, Handling
<1>3. ~Live(server.client) /\ Active(server.client)
  BY <1>2 DEF Live, Active
<1>4. ASSUME plan.arrive = {}, NEW i \in {0, 1}, slots[i].task # NoClient PROVE FALSE
  <2>1. slots[i].task \in Clients /\ Live(slots[i].task)
    BY <1>1, <1>4, Parts DEF Owners, SlotType, Maybe
  <2>2. Active(slots[i].task)
    BY <2>1 DEF Active, Live
  <2>3. slots[i].task = server.client
    BY <1>1, <1>2, <1>3, <1>4, <2>1, <2>2 DEF OneAtATime
  <2> QED
    BY <1>3, <2>1, <2>3
<1> QED
  BY <1>2, <1>3, <1>4

(* A slot's task told to stop. *)
LEMMA StopIs ==
  ASSUME Types, NEW i \in {0, 1}, Stop(i)
  PROVE  /\ slots' \in [{0, 1} -> SlotType] /\ slots'[i].should_stop
         /\ \A j \in {0, 1} : j # i => slots'[j] = slots[j]
         /\ \A j \in {0, 1} :
              /\ slots'[j].task = slots[j].task /\ slots'[j].conn = slots[j].conn
              /\ (slots'[j].socket <=> slots[j].socket) /\ (slots'[j].is_old <=> slots[j].is_old)
              /\ (slots[j].should_stop => slots'[j].should_stop)
<1> DEFINE v == [slots[i] EXCEPT !.should_stop = TRUE]
<1>1. slots[i] \in SlotType
  BY Parts
<1>2. /\ v \in SlotType /\ v.should_stop /\ v.task = slots[i].task /\ v.conn = slots[i].conn
      /\ (v.socket <=> slots[i].socket) /\ (v.is_old <=> slots[i].is_old)
  BY <1>1 DEF SlotType
<1>3. slots' = [slots EXCEPT ![i] = v]
  BY DEF Stop
<1> HIDE DEF v
<1>4. slots'[i] = v /\ \A j \in {0, 1} : j # i => slots'[j] = slots[j]
  BY <1>3 DEF Types
<1>5. slots' \in [{0, 1} -> SlotType]
  BY <1>2, <1>3, SlotTyped
<1> QED
  BY <1>2, <1>4, <1>5

LEMMA AcceptIInv == ASSUME IInv, NEW c \in Clients, Accept(c) PROVE IInv'
<1>1. /\ Types /\ server.pc = "accept" /\ pc[c] = "backlog" /\ server'.client = c
      /\ new_slot \in {0, 1} /\ current_slot \in {0, 1} /\ new_slot' = new_slot
      /\ UNCHANGED << plan, current_slot, server_running, pc, slot, resume_requested, device,
                     ptp_running, shown, presses, restarts >>
  BY Parts DEF IInv, Accept, new_slot
<1>2. c # NoClient /\ c \in Maybe
  BY <1>1, Parts
<1>3. /\ slots' \in [{0, 1} -> SlotType]
      /\ \A j \in {0, 1} :
           /\ slots'[j].task = slots[j].task /\ slots'[j].conn = slots[j].conn
           /\ (slots'[j].socket <=> slots[j].socket) /\ (slots'[j].is_old <=> slots[j].is_old)
           /\ (slots[j].should_stop => slots'[j].should_stop)
  BY <1>1, StopIs DEF Accept, Types
<1>4. /\ server' \in ServerType
      /\ \/ server'.pc = "wait" /\ slots[new_slot].task # NoClient
         \/ server'.pc = "mark" /\ slots[new_slot].task = NoClient
  BY <1>2 DEF Accept, ServerType
<1>5. Types'
  BY <1>1, <1>2, <1>3, <1>4 DEF Types
<1>6. ASSUME Undisturbed' PROVE Good'
  <2>1. Undisturbed /\ Good
    BY <1>1, <1>6 DEF Undisturbed, IInv, Good
  <2>2. Owners' /\ Leftovers' /\ OneAtATime'
    BY <1>1, <1>3, <2>1, FlagsOnly
  <2>3. Handling'
    BY <1>1, <1>3, <1>4 DEF Handling
  <2>4. Told'
    BY <1>1, <1>3, <1>4, <2>1 DEF Good, Told, Stopped
  <2> QED
    BY <2>2, <2>3, <2>4 DEF Good
<1> QED
  BY <1>5, <1>6 DEF IInv, Good

LEMMA WaitEndsIInv == ASSUME IInv, WaitEnds PROVE IInv'
<1>1. /\ Types /\ server.pc = "wait" /\ slots[new_slot].task = NoClient
      /\ server' = [server EXCEPT !.pc = "mark"] /\ slots' = slots /\ new_slot' = new_slot
      /\ new_slot \in {0, 1} /\ current_slot \in {0, 1}
      /\ UNCHANGED << plan, current_slot, server_running, pc, slot, resume_requested, device,
                     ptp_running, shown, presses, restarts >>
  BY Parts DEF IInv, WaitEnds, ServerGoto, new_slot
<1>2. server' \in ServerType /\ server'.pc = "mark" /\ server'.client = server.client
  BY <1>1 DEF Types, ServerType
<1>3. Types'
  BY <1>1, <1>2 DEF Types
<1>4. ASSUME Undisturbed' PROVE Good'
  <2>1. Undisturbed /\ Good
    BY <1>1, <1>4 DEF Undisturbed, IInv, Good
  <2>2. Owners' /\ Leftovers' /\ OneAtATime'
    BY <1>1, <2>1, FlagsOnly
  <2>3. Handling' /\ Told'
    BY <1>1, <1>2, <2>1 DEF Good, Handling, Told, Stopped
  <2> QED
    BY <2>2, <2>3 DEF Good
<1> QED
  BY <1>3, <1>4 DEF IInv, Good

(* The connection that cannot be served is closed. *)
LEMMA RefusedKeeps ==
  ASSUME IInv, Undisturbed, server.pc \in {"wait", "launch"}, Refuse(server.client),
         UNCHANGED << plan, current_slot, slot, device, ptp_running, restarts >>,
         \/ slots' = slots
         \/ server.pc = "launch" /\ slots' = [slots EXCEPT ![new_slot] = EmptySlot]
  PROVE  Good'
<1> DEFINE c == server.client
<1>1. /\ Types /\ Good /\ c \in Clients /\ pc[c] = "backlog" /\ ~Live(c)
      /\ new_slot \in {0, 1} /\ current_slot \in {0, 1} /\ new_slot' = new_slot
  BY Handled, Parts DEF IInv, Good, new_slot
<1>2. pc'[c] = "gone" /\ \A d \in Clients : d # c => pc'[d] = pc[d]
  BY <1>1, GotoTyped DEF Refuse, Labels
<1>3. server'.pc = "accept"
  BY DEF Refuse
<1>4. \A i \in {0, 1} :
        /\ slots'[i].task = slots[i].task
        /\ (slots[i].task = NoClient => slots'[i].conn = NoClient /\ ~slots'[i].socket)
        /\ (slots[i].task # NoClient => slots'[i] = slots[i])
        /\ (slots'[i].is_old => slots[i].is_old)
  <2>1. CASE slots' = slots
    BY <1>1, <2>1 DEF Good, Owners
  <2>2. CASE server.pc = "launch" /\ slots' = [slots EXCEPT ![new_slot] = EmptySlot]
    <3>1. slots[new_slot].task = NoClient
      BY <1>1, <2>2 DEF Good, Handling
    <3>2. slots'[new_slot] = EmptySlot /\ \A i \in {0, 1} : i # new_slot => slots'[i] = slots[i]
      BY <1>1, <2>2 DEF Types
    <3> QED
      BY <1>1, <3>1, <3>2 DEF EmptySlot, Good, Owners
  <2> QED
    BY <2>1, <2>2
<1>5. \A i \in {0, 1} : slots[i].task \in Maybe
  BY <1>1, Parts DEF SlotType
<1> HIDE DEF c
<1>6. Owners'
  <2>1. ASSUME NEW i \in {0, 1}, slots[i].task # NoClient
        PROVE  Live(slots[i].task)' /\ slot[slots'[i].task] = i
    <3>1. slots[i].task \in Clients /\ Live(slots[i].task) /\ slots[i].task # c
      BY <1>1, <1>5, <2>1 DEF Good, Owners, Maybe
    <3> QED
      BY <1>1, <1>2, <1>4, <2>1, <3>1 DEF Live, Good, Owners
  <2>2. ASSUME NEW d \in Clients, Live(d)' PROVE slots'[slot[d]].task = d \/ plan.arrive = {}
    <3>1. d # c /\ Live(d) /\ slot[d] \in {0, 1}
      BY <1>1, <1>2, <2>2, Parts DEF Live
    <3> QED
      BY <1>1, <1>4, <3>1 DEF Good, Owners, Mine
  <2>3. ASSUME NEW d \in Clients, pc'[d] = "begin"
        PROVE  slots'[slot[d]].task = d /\ slots'[slot[d]].conn = NoClient
    <3>1. d # c /\ pc[d] = "begin" /\ slot[d] \in {0, 1}
      BY <1>1, <1>2, <2>3, Parts
    <3>2. slots[slot[d]].task = d /\ slots[slot[d]].conn = NoClient /\ d # NoClient
      BY <1>1, <3>1, Parts DEF Good, Owners, Mine
    <3> QED
      BY <1>4, <3>1, <3>2
  <2> QED
    BY <1>4, <2>1, <2>2, <2>3 DEF Owners, Mine
<1>7. OneAtATime'
  <2>1. \A d \in Clients : Active(d)' => Active(d)
    BY <1>1, <1>2 DEF Active
  <2> QED
    BY <1>1, <1>4, <2>1 DEF Good, OneAtATime
<1>8. Handling'
  BY <1>3 DEF Handling
<1>9. Told'
  <2>1. Stopped(new_slot)
    BY <1>1 DEF Good, Told
  <2> QED
    BY <1>1, <1>3, <1>4, <2>1 DEF Told, Stopped
<1>10. Leftovers'
  <2>1. \A d \in Clients : pc[d] \in UntilPtp \cup {"event"} => pc'[d] = pc[d]
    BY <1>1, <1>2 DEF UntilPtp, UntilNtp
  <2> QED
    BY <2>1, LeftoversKept
<1> QED
  BY <1>6, <1>7, <1>8, <1>9, <1>10 DEF Good

LEMMA WaitTimesOutIInv == ASSUME IInv, WaitTimesOut PROVE IInv'
<1>1. /\ Types /\ server.pc = "wait" /\ slots' = slots /\ Refuse(server.client)
      /\ UNCHANGED << plan, slots, current_slot, server_running, slot, resume_requested, device,
                     ptp_running, shown, presses, restarts >>
  BY DEF IInv, WaitTimesOut
<1>2. server.client \in Clients
  BY <1>1, Parts DEF Types, ServerType, Maybe
<1>3. pc' \in [Clients -> Labels]
  BY <1>1, <1>2, GotoTyped DEF Refuse, Labels
<1>4. server' \in ServerType /\ server'.pc = "accept" /\ server'.client = NoClient
  BY <1>1, Parts DEF Refuse, ServerType
<1>5. Types'
  BY <1>1, <1>3, <1>4 DEF Types
<1>6. ASSUME Undisturbed' PROVE Good'
  BY <1>1, <1>6, RefusedKeeps DEF Undisturbed
<1> QED
  BY <1>5, <1>6 DEF IInv, Good

(* signal_old_client_stop. *)
LEMMA MarkOldIInv == ASSUME IInv, MarkOld PROVE IInv'
<1>1. /\ Types /\ server.pc = "mark" /\ new_slot' = new_slot
      /\ new_slot \in {0, 1} /\ current_slot \in {0, 1} /\ slots[current_slot] \in SlotType
      /\ UNCHANGED << plan, current_slot, server_running, pc, slot, resume_requested, device,
                     ptp_running, shown, presses, restarts >>
  BY Parts DEF IInv, MarkOld, new_slot
<1> DEFINE v == [slots[current_slot] EXCEPT !.is_old = TRUE]
<1>2. \/ /\ slots[current_slot].task = NoClient /\ slots' = slots
         /\ server' = [server EXCEPT !.pc = "launch"]
      \/ /\ slots[current_slot].task # NoClient /\ slots' = [slots EXCEPT ![current_slot] = v]
         /\ server' = [server EXCEPT !.pc = "stop"]
  BY DEF MarkOld, ServerGoto
<1>3. /\ v \in SlotType /\ v.task = slots[current_slot].task
      /\ v.conn = slots[current_slot].conn /\ (v.socket <=> slots[current_slot].socket)
      /\ (v.should_stop <=> slots[current_slot].should_stop)
  BY <1>1 DEF SlotType
<1> HIDE DEF v
<1>4. /\ slots' \in [{0, 1} -> SlotType]
      /\ \A i \in {0, 1} : /\ slots'[i].task = slots[i].task /\ slots'[i].conn = slots[i].conn
                           /\ (slots'[i].socket <=> slots[i].socket)
                           /\ (slots'[i].should_stop <=> slots[i].should_stop)
  BY <1>1, <1>2, <1>3, SlotTyped DEF Types
<1>5. /\ server' \in ServerType /\ server'.client = server.client
      /\ \/ server'.pc = "launch" /\ slots[current_slot].task = NoClient
         \/ server'.pc = "stop" /\ slots[current_slot].task # NoClient
  BY <1>1, <1>2 DEF Types, ServerType
<1>6. Types'
  BY <1>1, <1>4, <1>5 DEF Types
<1>7. ASSUME Undisturbed' PROVE Good'
  <2>1. Undisturbed /\ Good
    BY <1>1, <1>7 DEF Undisturbed, IInv, Good
  <2>2. Owners' /\ Leftovers'
    BY <1>1, <1>4, <2>1, FlagsOnly
  <2>3. OneAtATime'
    <3>1. plan.arrive = {} => slots' = slots
      BY <1>1, <1>2, <2>1, Handled
    <3> QED
      BY <1>1, <2>1, <3>1 DEF Good, OneAtATime, Active
  <2>4. Handling' /\ Told'
    BY <1>1, <1>4, <1>5, <2>1 DEF Good, Handling, Told, Stopped
  <2> QED
    BY <2>2, <2>3, <2>4 DEF Good
<1> QED
  BY <1>6, <1>7 DEF IInv, Good

LEMMA StopOldIInv == ASSUME IInv, StopOld PROVE IInv'
<1>1. /\ Types /\ server.pc = "stop" /\ new_slot' = new_slot
      /\ new_slot \in {0, 1} /\ current_slot \in {0, 1} /\ Stop(current_slot)
      /\ server' = [server EXCEPT !.pc = "launch"]
      /\ UNCHANGED << plan, current_slot, server_running, pc, slot, resume_requested, device,
                     ptp_running, shown, presses, restarts >>
  BY Parts DEF IInv, StopOld, ServerGoto, new_slot
<1>2. /\ slots' \in [{0, 1} -> SlotType] /\ slots'[current_slot].should_stop
      /\ \A j \in {0, 1} :
           /\ slots'[j].task = slots[j].task /\ slots'[j].conn = slots[j].conn
           /\ (slots'[j].socket <=> slots[j].socket) /\ (slots'[j].is_old <=> slots[j].is_old)
           /\ (slots[j].should_stop => slots'[j].should_stop)
  BY <1>1, StopIs
<1>3. server' \in ServerType /\ server'.pc = "launch" /\ server'.client = server.client
  BY <1>1 DEF Types, ServerType
<1>4. Types'
  BY <1>1, <1>2, <1>3 DEF Types
<1>5. ASSUME Undisturbed' PROVE Good'
  <2>1. Undisturbed /\ Good
    BY <1>1, <1>5 DEF Undisturbed, IInv, Good
  <2>2. Owners' /\ Leftovers' /\ OneAtATime'
    BY <1>1, <1>2, <2>1, FlagsOnly
  <2>3. Handling' /\ Told'
    BY <1>1, <1>2, <1>3, <2>1 DEF Good, Handling, Told, Stopped
  <2> QED
    BY <2>2, <2>3 DEF Good
<1> QED
  BY <1>4, <1>5 DEF IInv, Good

(* The new task, in the slot that was free. *)
Fresh(c) == [EmptySlot EXCEPT !.task = c, !.socket = TRUE]

LEMMA LaunchIInv == ASSUME IInv, Launch PROVE IInv'
<1> DEFINE c == server.client
<1>1. /\ Types /\ server.pc = "launch" /\ new_slot \in {0, 1} /\ current_slot \in {0, 1}
      /\ new_slot # current_slot /\ new_slot' = new_slot /\ c \in Clients /\ NoClient \in Maybe
      /\ c # NoClient /\ c \in Maybe
      /\ UNCHANGED << plan, current_slot, server_running, resume_requested, device, ptp_running,
                     shown, presses, restarts >>
  BY Parts DEF IInv, Launch, Types, ServerType, Maybe, new_slot
<1>2. EmptySlot \in SlotType
  BY <1>1 DEF EmptySlot, SlotType
<1>3. CASE /\ slots' = [slots EXCEPT ![new_slot] = EmptySlot]
           /\ Refuse(server.client) /\ UNCHANGED slot
  <2>1. slots' \in [{0, 1} -> SlotType] /\ pc' \in [Clients -> Labels]
    BY <1>1, <1>2, <1>3, SlotTyped, GotoTyped DEF Refuse, Labels
  <2>2. server' \in ServerType /\ server'.pc = "accept" /\ server'.client = NoClient
    BY <1>1, <1>3 DEF Refuse, ServerType
  <2>3. Types'
    BY <1>1, <1>3, <2>1, <2>2 DEF Types
  <2>4. ASSUME Undisturbed' PROVE Good'
    BY <1>1, <1>3, <2>4, RefusedKeeps DEF Undisturbed
  <2> QED
    BY <2>3, <2>4 DEF IInv, Good
<1>4. CASE /\ slots' = [slots EXCEPT ![new_slot] = Fresh(c)]
           /\ slot' = [slot EXCEPT ![c] = new_slot]
           /\ Goto(c, "begin") /\ ServerGoto("launched")
  <2>1. /\ Fresh(c) \in SlotType /\ Fresh(c).task = c /\ Fresh(c).conn = NoClient
        /\ ~Fresh(c).is_old
    BY <1>1 DEF Fresh, EmptySlot, SlotType
  <2>2. /\ pc' \in [Clients -> Labels] /\ pc'[c] = "begin"
        /\ \A d \in Clients : d # c => pc'[d] = pc[d]
    BY <1>1, <1>4, GotoTyped DEF Labels
  <2>3. /\ slots' \in [{0, 1} -> SlotType] /\ slots'[new_slot] = Fresh(c)
        /\ \A i \in {0, 1} : i # new_slot => slots'[i] = slots[i]
    BY <1>1, <1>4, <2>1, SlotTyped DEF Types
  <2>4. /\ slot' \in [Clients -> {0, 1}] /\ slot'[c] = new_slot
        /\ \A d \in Clients : d # c => slot'[d] = slot[d]
    BY <1>1, <1>4 DEF Types
  <2>5. server' \in ServerType /\ server'.pc = "launched" /\ server'.client = c
    BY <1>1, <1>4 DEF Types, ServerType, ServerGoto
  <2>6. Types'
    BY <1>1, <2>2, <2>3, <2>4, <2>5 DEF Types
  <2>7. ASSUME Undisturbed' PROVE Good'
    <3>1. Undisturbed /\ Good /\ pc[c] = "backlog" /\ ~Live(c) /\ Active(c)
      BY <1>1, <2>7, Handled DEF Undisturbed, IInv, Good
    <3>2. slots[new_slot].task = NoClient /\ \A i \in {0, 1} : slots[i].task \in Maybe
      BY <1>1, <3>1, Parts DEF Good, Handling, SlotType
    <3> HIDE DEF c
    <3>3. Owners'
      <4>1. ASSUME NEW i \in {0, 1}
            PROVE  IF slots'[i].task # NoClient
                     THEN Live(slots[i].task)' /\ slot'[slots'[i].task] = i
                     ELSE slots'[i].conn = NoClient /\ ~slots'[i].socket
        <5>1. CASE i = new_slot
          BY <1>1, <2>1, <2>2, <2>3, <2>4, <5>1 DEF Live
        <5>2. CASE i # new_slot
          <6>1. slots'[i] = slots[i]
            BY <2>3, <5>2
          <6>2. CASE slots[i].task = NoClient
            BY <3>1, <6>1, <6>2 DEF Good, Owners
          <6>3. CASE slots[i].task # NoClient
            <7>1. /\ slots[i].task \in Clients /\ Live(slots[i].task) /\ slots[i].task # c
                  /\ slot[slots[i].task] = i
              BY <3>1, <3>2, <6>3 DEF Good, Owners, Maybe
            <7> QED
              BY <2>2, <2>4, <6>1, <6>3, <7>1 DEF Live
          <6> QED
            BY <6>2, <6>3
        <5> QED
          BY <5>1, <5>2
      <4>2. ASSUME NEW d \in Clients, Live(d)'
            PROVE  slots'[slot'[d]].task = d \/ plan.arrive = {}
        <5>1. CASE d = c
          BY <2>1, <2>3, <2>4, <5>1
        <5>2. CASE d # c
          <6>1. Live(d) /\ slot'[d] = slot[d] /\ slot[d] \in {0, 1} /\ d # NoClient
            BY <1>1, <2>2, <2>4, <4>2, <5>2, Parts DEF Live
          <6>2. slots[slot[d]].task = d \/ plan.arrive = {}
            BY <3>1, <6>1 DEF Good, Owners, Mine
          <6> QED
            BY <2>3, <3>2, <6>1, <6>2
        <5> QED
          BY <5>1, <5>2
      <4>3. ASSUME NEW d \in Clients, pc'[d] = "begin"
            PROVE  slots'[slot'[d]].task = d /\ slots'[slot'[d]].conn = NoClient
        <5>1. CASE d = c
          BY <2>1, <2>3, <2>4, <5>1
        <5>2. CASE d # c
          <6>1. pc[d] = "begin" /\ slot'[d] = slot[d] /\ slot[d] \in {0, 1} /\ d # NoClient
            BY <1>1, <2>2, <2>4, <4>3, <5>2, Parts
          <6>2. slots[slot[d]].task = d /\ slots[slot[d]].conn = NoClient
            BY <3>1, <6>1 DEF Good, Owners, Mine
          <6> QED
            BY <2>3, <3>2, <6>1, <6>2
        <5> QED
          BY <5>1, <5>2
      <4> QED
        BY <1>1, <4>1, <4>2, <4>3 DEF Owners, Mine
    <3>4. OneAtATime'
      <4>1. \A d \in Clients : Active(d)' => Active(d)
        BY <2>2, <3>1 DEF Active
      <4> QED
        BY <1>1, <2>1, <2>3, <3>1, <4>1 DEF Good, OneAtATime
    <3>5. Handling'
      BY <2>5 DEF Handling
    <3>6. Told'
      BY <1>1, <2>3, <2>5, <3>1 DEF Good, Told, Stopped
    <3>7. Leftovers'
      <4>1. \A d \in Clients : pc[d] \in UntilPtp \cup {"event"} => pc'[d] = pc[d]
        BY <2>2, <3>1 DEF UntilPtp, UntilNtp
      <4> QED
        BY <1>1, <3>1, <4>1, LeftoversKept
    <3> QED
      BY <3>3, <3>4, <3>5, <3>6, <3>7 DEF Good
  <2> QED
    BY <2>6, <2>7 DEF IInv, Good
<1> QED
  BY <1>3, <1>4 DEF Launch, Fresh

(* The slot of the new task becomes the current one, if it is still there. *)
LEMMA LaunchedIInv == ASSUME IInv, Launched PROVE IInv'
<1>1. /\ Types /\ server.pc = "launched" /\ server' = [pc |-> "accept", client |-> NoClient]
      /\ new_slot \in {0, 1} /\ current_slot \in {0, 1} /\ NoClient \in Maybe
      /\ UNCHANGED << plan, slots, server_running, pc, slot, resume_requested, device,
                     ptp_running, shown, presses, restarts >>
  BY Parts DEF IInv, Launched
<1>2. server' \in ServerType /\ server'.pc = "accept" /\ server'.client = NoClient
  BY <1>1 DEF ServerType
<1>3. \/ slots[new_slot].task # NoClient /\ current_slot' = new_slot /\ new_slot' = current_slot
      \/ slots[new_slot].task = NoClient /\ current_slot' = current_slot /\ new_slot' = new_slot
  BY <1>1 DEF Launched, new_slot
<1>4. Types'
  BY <1>1, <1>2, <1>3 DEF Types
<1>5. ASSUME Undisturbed' PROVE Good'
  <2>1. Undisturbed /\ Good
    BY <1>1, <1>5 DEF Undisturbed, IInv, Good
  <2>2. Owners' /\ Leftovers' /\ OneAtATime'
    BY <1>1, <2>1, FlagsOnly
  <2>3. Handling' /\ Told'
    BY <1>1, <1>2, <1>3, <2>1 DEF Good, Handling, Told, Stopped
  <2> QED
    BY <2>2, <2>3 DEF Good
<1> QED
  BY <1>4, <1>5 DEF IInv, Good

LEMMA ServerStopIInv == ASSUME IInv, ServerStop PROVE IInv'
<1>1. /\ Types /\ server_running' = FALSE /\ restarts < plan.restarts
      /\ UNCHANGED << plan, slots, current_slot, server, pc, slot, resume_requested, device,
                     ptp_running, shown, presses, restarts >>
  BY DEF IInv, ServerStop
<1>2. Types'
  BY <1>1 DEF Types
<1>3. ASSUME Undisturbed' PROVE Good'
  <2>1. Undisturbed /\ Good /\ new_slot' = new_slot
    BY <1>1, <1>3 DEF Undisturbed, IInv, Good, new_slot
  <2>2. Owners' /\ Leftovers' /\ OneAtATime'
    BY <1>1, <2>1, FlagsOnly
  <2>3. Handling' /\ Told'
    BY <1>1, <2>1 DEF Good, Handling, Told, Stopped
  <2> QED
    BY <2>2, <2>3 DEF Good
<1> QED
  BY <1>2, <1>3 DEF IInv, Good

(* The server task ends, and tells both clients to stop.                   *)
LEMMA ServerExitIInv == ASSUME IInv, ServerExit PROVE IInv'
<1>1. /\ Types /\ server.pc = "accept" /\ server' = [pc |-> "off", client |-> NoClient]
      /\ ~server_running /\ NoClient \in Maybe /\ new_slot' = new_slot
      /\ new_slot \in {0, 1} /\ current_slot \in {0, 1}
      /\ UNCHANGED << plan, current_slot, server_running, pc, slot, resume_requested, device,
                     ptp_running, shown, presses, restarts >>
  BY Parts DEF IInv, ServerExit, new_slot
<1>2. server' \in ServerType /\ server'.pc = "off" /\ server'.client = NoClient
  BY <1>1 DEF ServerType
<1>3. ASSUME NEW i \in {0, 1}
      PROVE  /\ slots'[i] \in SlotType
             /\ slots'[i].task = slots[i].task /\ slots'[i].conn = slots[i].conn
             /\ (slots'[i].socket <=> slots[i].socket) /\ (slots'[i].is_old <=> slots[i].is_old)
             /\ (slots[i].should_stop => slots'[i].should_stop)
  <2>1. slots'[i] = [slots[i] EXCEPT !.should_stop = @ \/ slots[i].task # NoClient]
    BY DEF ServerExit
  <2>2. slots[i] \in SlotType
    BY <1>1, Parts
  <2> QED
    BY <2>1, <2>2 DEF SlotType
<1>4. slots' \in [{0, 1} -> SlotType]
  <2>1. slots' = [i \in {0, 1} |-> slots'[i]]
    BY DEF ServerExit
  <2> QED
    BY <1>3, <2>1
<1>5. Types'
  BY <1>1, <1>2, <1>4 DEF Types
<1>6. ASSUME Undisturbed' PROVE Good'
  <2>1. Undisturbed /\ Good
    BY <1>1, <1>6 DEF Undisturbed, IInv, Good
  <2>2. Owners' /\ Leftovers' /\ OneAtATime'
    BY <1>1, <1>3, <2>1, FlagsOnly
  <2>3. Handling' /\ Told'
    BY <1>1, <1>2, <1>3, <2>1 DEF Good, Handling, Told, Stopped
  <2> QED
    BY <2>2, <2>3 DEF Good
<1> QED
  BY <1>5, <1>6 DEF IInv, Good

(* rtsp_server_start: the slots are cleared under a task that still probes, *)
(* which is the only one when connections come one after the other.         *)
LEMMA ServerStartIInv == ASSUME IInv, ServerStart PROVE IInv'
<1>1. /\ Types /\ server.pc = "off" /\ server' = [pc |-> "accept", client |-> NoClient]
      /\ \A c \in Clients : Live(c) => pc[c] \in {"phase1", "phase2"}
      /\ slots' = [i \in {0, 1} |-> EmptySlot] /\ server_running' = TRUE
      /\ restarts' = restarts + 1 /\ restarts \in Nat
      /\ NoClient \in Maybe /\ new_slot' = new_slot /\ new_slot \in {0, 1} /\ current_slot \in {0, 1}
      /\ UNCHANGED << plan, current_slot, pc, slot, resume_requested, device, ptp_running, shown,
                     presses >>
  BY Parts DEF IInv, ServerStart, new_slot
<1>2. server' \in ServerType /\ server'.pc = "accept" /\ server'.client = NoClient
  BY <1>1 DEF ServerType
<1>3. /\ EmptySlot \in SlotType /\ EmptySlot.task = NoClient /\ EmptySlot.conn = NoClient
      /\ ~EmptySlot.socket /\ ~EmptySlot.is_old
  BY <1>1 DEF EmptySlot, SlotType
<1>4. slots' \in [{0, 1} -> SlotType] /\ \A i \in {0, 1} : slots'[i] = EmptySlot
  BY <1>1, <1>3
<1>5. restarts' \in 0 .. plan.restarts
  BY <1>1 DEF Types, Scenario
<1>6. Types'
  BY <1>1, <1>2, <1>4, <1>5 DEF Types
<1>7. ASSUME Undisturbed' PROVE Good'
  <2>1. plan.arrive = {} /\ Undisturbed /\ Good
    BY <1>1, <1>7 DEF Undisturbed, IInv, Good
  <2>2. Owners'
    BY <1>1, <1>3, <1>4, <2>1 DEF Owners, Live
  <2>3. OneAtATime'
    BY <1>1, <1>3, <1>4, <2>1 DEF Good, OneAtATime, Active
  <2>4. Handling' /\ Told'
    BY <1>1, <1>2, <1>3, <1>4 DEF Handling, Told, Stopped
  <2>5. Leftovers'
    BY <1>1, <2>1 DEF Good, Leftovers, InUse
  <2> QED
    BY <2>2, <2>3, <2>4, <2>5 DEF Good
<1> QED
  BY <1>6, <1>7 DEF IInv, Good

LEMMA NextIInv == IInv /\ [Next]_vars => IInv'
<1> SUFFICES ASSUME IInv, [Next]_vars PROVE IInv'
  OBVIOUS
<1>1. CASE Server
  BY <1>1, AcceptIInv, WaitEndsIInv, WaitTimesOutIInv, MarkOldIInv, StopOldIInv, LaunchIInv,
     LaunchedIInv, ServerStopIInv, ServerExitIInv, ServerStartIInv DEF Server
<1>2. CASE Press
  BY <1>2, PressIInv
<1>3. ASSUME NEW c \in Clients, Connect(c) PROVE IInv'
  BY <1>3, ConnectIInv
<1>4. ASSUME NEW c \in Clients, Task(c) PROVE IInv'
  <2>1. \/ Begin(c) \/ Request(c) \/ Disconnect(c) \/ CleanStep(c) \/ Free(c)
    BY <1>4 DEF Task, CleanUp, CleanStep
  <2> QED
    BY <2>1, BeginIInv, RequestIInv, DisconnectIInv, CleanIInv, FreeIInv
<1>5. CASE UNCHANGED vars
  BY <1>5 DEF vars, IInv, Types, Undisturbed, Owners, OneAtATime, Handling, Told, Leftovers,
              Live, Mine, Active, Stopped, new_slot, InUse
<1> QED
  BY <1>1, <1>2, <1>3, <1>4, <1>5 DEF Next

-----------------------------------------------------------------------------
(* What the invariant is for. *)

LEMMA OneUnstopped ==
  ASSUME IInv, Undisturbed
  PROVE  SlotHasOneTask /\ OneClientUnstopped
<1>1. Types /\ Owners /\ OneAtATime /\ Told
  BY DEF IInv
<1>2. ASSUME NEW c \in Clients, NEW d \in Clients, Live(c), Live(d), c # d
      PROVE  /\ slot[c] # slot[d] /\ slot[c] \in {0, 1} /\ slot[d] \in {0, 1}
             /\ slots[slot[c]].task = c /\ slots[slot[d]].task = d /\ c # NoClient /\ d # NoClient
  <2>1. Active(c) /\ Active(d)
    BY <1>2 DEF Live, Active
  <2>2. plan.arrive # {}
    BY <1>1, <1>2, <2>1 DEF OneAtATime
  <2> QED
    BY <1>1, <1>2, <2>2, Parts DEF Owners, Mine
<1>3. SlotHasOneTask
  BY <1>2 DEF SlotHasOneTask
<1>4. OneClientUnstopped
  <2> SUFFICES ASSUME NEW c \in Clients, NEW d \in Clients, Live(c), Live(d), c # d,
                      ~Mine(c).should_stop, ~Mine(d).should_stop
               PROVE  FALSE
    BY DEF OneClientUnstopped
  <2>1. \E i \in {0, 1} : (i = new_slot \/ i = current_slot) /\ Stopped(i)
    BY <1>1, Parts DEF Told
  <2>2. ~Stopped(slot[c]) /\ ~Stopped(slot[d])
    BY <1>2 DEF Stopped, Mine
  <2> QED
    BY <1>2, <2>1, <2>2
<1> QED
  BY <1>3, <1>4

LEMMA NothingLeft == ASSUME IInv, Undisturbed PROVE IdleIsClean
<1> SUFFICES ASSUME plan.arrive = {}, \A c \in Clients : pc[c] \in {"new", "gone"}
             PROVE  /\ ptp_running
                    /\ device.stream = NoClient /\ device.ntp = NoClient /\ device.event = NoClient
  BY DEF IdleIsClean
<1>1. Leftovers /\ device \in DeviceType
  BY DEF IInv, Types
<1>2. \A c \in Clients : pc[c] \notin UntilPtp \cup {"event"}
  BY DEF UntilPtp, UntilNtp
<1> QED
  BY <1>1, <1>2 DEF Leftovers, InUse, DeviceType, Maybe, UntilPtp, UntilNtp

LEMMA ServerInvHolds == ASSUME IInv, Undisturbed PROVE ServerInv
<1>1. Types /\ Owners
  BY DEF IInv
<1>2. TypeOK
  <2>1. \A f \in DOMAIN device : device[f] \in Clients \cup {NoClient}
    BY <1>1 DEF Types, DeviceType, Maybe
  <2>2. \A i \in {0, 1} : slots[i].task = NoClient => slots[i].conn = NoClient /\ ~slots[i].socket
    BY <1>1 DEF Owners
  <2>3. /\ server.pc \in {"accept", "wait", "mark", "stop", "launch", "launched", "off"}
        /\ server.client \in Clients \cup {NoClient}
    BY <1>1 DEF Types, ServerType, Maybe
  <2> QED
    BY <1>1, <2>1, <2>2, <2>3 DEF TypeOK, Types, SlotType, Maybe, Labels
<1> QED
  BY <1>2, OneUnstopped, NothingLeft DEF ServerInv

(* Of the two slots each has one task at most, at most one client is not   *)
(* told to stop, and when connections come one after the other nothing is  *)
(* left when the last has gone: for any number of connections, made at any *)
(* time, until rtsp_server_start clears the slots under a client task that *)
(* another connection may still follow.                                    *)
THEOREM SlotsAreTheirs == Spec => [](restarts = 0 \/ plan.arrive = {} => ServerInv)
<1>1. IInv => (restarts = 0 \/ plan.arrive = {} => ServerInv)
  BY ServerInvHolds DEF Undisturbed
<1>2. Init => IInv
  BY InitIInv
<1> QED
  BY <1>1, <1>2, NextIInv, PTL DEF Spec

-----------------------------------------------------------------------------
(* A connection made in the grace period of its predecessor. *)

LEMMA GraceFacts ==
  ASSUME IInv, GraceInv, Graceful
  PROVE  /\ restarts = 0 /\ server_running /\ server.pc # "off" /\ Undisturbed /\ Types /\ Good
         /\ InTurn /\ MarkedInTime
         /\ \A c \in Clients : Live(c) => Mine(c).task = c
BY Parts DEF IInv, Types, Graceful, GraceInv, Undisturbed, Good, Owners

(* A task that leaves the flags and the server alone. *)
LEMMA MarkedKept ==
  ASSUME MarkedInTime, UNCHANGED << current_slot, server >>, Types,
         \A i \in {0, 1} : slots'[i].task # NoClient =>
           /\ slots'[i].task = slots[i].task
           /\ (slots'[i].should_stop => slots[i].should_stop)
           /\ (slots[i].is_old => slots'[i].is_old)
  PROVE  MarkedInTime'
<1>1. new_slot' = new_slot /\ new_slot \in {0, 1} /\ current_slot \in {0, 1}
  BY Parts DEF new_slot
<1> QED
  BY <1>1 DEF MarkedInTime, Marked

(* The order is kept by a step after which those that are there were there *)
(* before and trail or follow as they did.                                 *)
LEMMA OrderKept ==
  ASSUME InTurn,
         \A c \in Clients : Active(c)' => Active(c) /\ (Trails(c) => Trails(c)'),
         \A c, d \in Clients :
           Active(c)' /\ Active(d)' /\ c # d /\ Follows(c, d)
             => Follows(c, d)' \/ Trails(c)' \/ Trails(d)'
  PROVE  InTurn'
BY DEF InTurn

(* A client task goes its way: only its own place counts.                  *)
LEMMA WalkInTurn ==
  ASSUME IInv, InTurn, NEW c \in Clients, Walks(c),
         Trails(c) => pc'[c] \in {"phase1", "phase2", "expire", "global", "free"},
         \A d \in Clients :
           pc[d] = "backlog" /\ pc[c] \in {"phase1", "phase2"} /\ ~Trails(c)
             => pc'[c] \in {"phase1", "phase2"}
  PROVE  InTurn'
<1>1. Types /\ pc \in [Clients -> Labels]
  BY DEF IInv, Types
<1>2. /\ \A d \in Clients : d # c => pc'[d] = pc[d]
      /\ Live(c) /\ Live(c)' /\ slots' = slots /\ slot' = slot
  BY <1>1 DEF Walks, Quiet, Goto, Live
<1>3. \A d \in Clients : Active(d)' => Active(d) /\ (Trails(d) => Trails(d)')
  BY <1>2 DEF Active, Live, Trails, Old, Mine
<1>4. ASSUME NEW d \in Clients, NEW e \in Clients, d # e, Follows(d, e)
      PROVE  Follows(d, e)' \/ Trails(d)' \/ Trails(e)'
  <2>1. d # c
    BY <1>2, <1>4 DEF Follows, Live
  <2>2. CASE e = c
    <3>1. CASE Trails(c)
      BY <1>2, <3>1, <2>2 DEF Trails, Old, Mine
    <3>2. CASE ~Trails(c)
      BY <1>2, <1>4, <2>1, <2>2, <3>2 DEF Follows
    <3> QED
      BY <3>1, <3>2
  <2>3. CASE e # c
    BY <1>2, <1>4, <2>1, <2>3 DEF Follows
  <2> QED
    BY <2>2, <2>3
<1> QED
  BY <1>3, <1>4, OrderKept

(* A task in its grace period that is not old stays in it while a          *)
(* connection waits: it is not told to stop, and its service is there.     *)
LEMMA CleanGrace ==
  ASSUME IInv, GraceInv, Graceful, NEW c \in Clients, CleanStep(c) \/ Request(c)
  PROVE  InTurn' /\ MarkedInTime'
<1>1. /\ Types /\ Good /\ InTurn /\ MarkedInTime /\ pc \in [Clients -> Labels]
      /\ slot[c] \in {0, 1} /\ c # NoClient
  BY GraceFacts, Parts DEF Types
<1>2. Walks(c)
  <2>1. CASE Request(c)
    BY <2>1 DEF Request, Setup, Play, Teardown, Serving, Live, Walks, Quiet, control
  <2>2. CASE CleanStep(c)
    <3> USE DEF CleanStep, StopAudio, StopNtp, Grace, Phase1, Phase2Button, Phase2, Expire, Clear,
                Global, StartPtp, StopEvent, control
    <3>1. Quiet
      BY <2>2 DEF Quiet
    <3>2. UNCHANGED pc \/ \E l \in Cleanup : Goto(c, l)
      BY <2>2 DEF Cleanup
    <3>3. Cleanup \subseteq Labels \ {"new", "backlog", "begin", "gone"}
      BY DEF Cleanup, Labels
    <3>4. Live(c)
      BY <2>2 DEF Live
    <3> QED
      BY <3>1, <3>2, <3>3, <3>4 DEF Walks
  <2> QED
    BY <2>1, <2>2
<1>3. MarkedInTime'
  BY <1>1, <1>2, MarkedKept DEF Walks, Quiet
<1>4. Trails(c) => pc'[c] \in {"phase1", "phase2", "expire", "global", "free"}
  <2> SUFFICES ASSUME Trails(c)
               PROVE  pc'[c] \in {"phase1", "phase2", "expire", "global", "free"}
    OBVIOUS
  <2>1. Mine(c).is_old /\ pc[c] \in {"phase1", "phase2", "expire", "global", "free"}
    BY DEF Trails, Old
  <2>2. \/ Phase1(c) \/ Phase2Button(c) \/ Phase2(c) \/ Expire(c) \/ Global(c)
    BY <2>1 DEF CleanStep, Request, Setup, Play, Teardown, Serving, StopAudio, StopNtp, Grace,
                Clear, StartPtp, StopEvent
  <2>3. CASE Phase1(c) \/ Phase2(c)
    BY <1>1, <2>3 DEF Phase1, Phase2, Goto
  <2>4. CASE Phase2Button(c)
    BY <2>1, <2>4 DEF Phase2Button
  <2>5. CASE Expire(c) \/ Global(c)
    BY <1>1, <2>1, <2>5 DEF Expire, Global, Goto
  <2> QED
    BY <2>2, <2>3, <2>4, <2>5
<1>5. ASSUME NEW d \in Clients, pc[d] = "backlog", pc[c] \in {"phase1", "phase2"}, ~Trails(c)
      PROVE  pc'[c] \in {"phase1", "phase2"}
  <2>1. Live(c) /\ Mine(c).task = c /\ ~Mine(c).is_old
    BY <1>5, GraceFacts DEF Live, Trails, Old
  <2>2. ~Mine(c).should_stop
    BY <1>1, <2>1 DEF MarkedInTime, Mine
  <2>3. Probe = {TRUE}
    BY <1>5 DEF Probe, Reconnecting, Graceful
  <2>4. Phase1(c) \/ Phase2Button(c) \/ Phase2(c)
    BY <1>5 DEF CleanStep, Request, Setup, Play, Teardown, Serving, StopAudio, StopNtp, Grace,
                Expire, Global, Clear, StartPtp, StopEvent
  <2>5. CASE Phase1(c) \/ Phase2(c)
    BY <1>1, <2>2, <2>3, <2>5 DEF Phase1, Phase2, Goto
  <2>6. CASE Phase2Button(c)
    BY <1>5, <2>6 DEF Phase2Button
  <2> QED
    BY <2>4, <2>5, <2>6
<1>6. InTurn'
  BY <1>1, <1>2, <1>4, <1>5, WalkInTurn
<1> QED
  BY <1>3, <1>6

(* A task that begins, loses its connection or ends.                       *)
LEMMA TaskGrace ==
  ASSUME IInv, GraceInv, Graceful, NEW c \in Clients, Begin(c) \/ Disconnect(c) \/ Free(c)
  PROVE  InTurn' /\ MarkedInTime'
<1>1. /\ Types /\ Good /\ InTurn /\ MarkedInTime /\ pc \in [Clients -> Labels]
      /\ \A d \in Clients : slot[d] \in {0, 1}
      /\ \A d \in Clients : Live(d) => Mine(d).task = d
      /\ UNCHANGED << current_slot, server, slot >>
  BY GraceFacts, Parts DEF Types, Begin, Disconnect, Free
<1>2. /\ Live(c) /\ ~Follows(c, c) /\ pc[c] \notin {"phase1", "phase2", "backlog"}
      /\ \A d \in Clients : d # c => pc'[d] = pc[d]
      /\ pc'[c] \in {"serve", "audio", "gone"}
  BY <1>1 DEF Begin, Disconnect, Free, Goto, Live, Follows
<1>3. /\ \A i \in {0, 1} : i # slot[c] => slots'[i] = slots[i]
      /\ slots'[slot[c]].task # NoClient =>
           /\ slots'[slot[c]].task = slots[slot[c]].task
           /\ (slots'[slot[c]].should_stop <=> slots[slot[c]].should_stop)
           /\ (slots'[slot[c]].is_old <=> slots[slot[c]].is_old)
  BY <1>1, Parts DEF Begin, Disconnect, Free, Types, EmptySlot, SlotType
<1>4. MarkedInTime'
  BY <1>1, <1>3, MarkedKept
<1>5. ASSUME NEW d \in Clients, Active(d)' PROVE Active(d) /\ (Trails(d) => Trails(d)')
  <2>1. CASE d = c
    <3>1. Active(c) /\ (pc'[c] = "gone" => ~Active(c)')
      BY <1>2 DEF Active, Live
    <3>2. pc[c] # "free"
      <4>1. pc[c] = "free" => pc'[c] = "gone"
        BY <1>1 DEF Begin, Disconnect, Free, Goto
      <4> QED
        BY <1>5, <2>1, <3>1, <4>1
    <3>3. ~Trails(c)
      BY <1>2, <3>2 DEF Trails, Begin, Disconnect, Free
    <3> QED
      BY <2>1, <3>1, <3>3
  <2>2. CASE d # c
    <3>1. Active(d) /\ (Live(d) => Live(d)') /\ pc'[d] = pc[d]
      BY <1>2, <1>5, <2>2 DEF Active, Live
    <3>2. Live(d) => slot[d] # slot[c]
      BY <1>1, <1>2, <2>2 DEF Mine
    <3>3. Live(d) => slots'[slot[d]] = slots[slot[d]]
      BY <1>1, <1>3, <3>2
    <3> QED
      BY <1>1, <3>1, <3>3 DEF Trails, Old, Mine
  <2> QED
    BY <2>1, <2>2
<1>6. \A d, e \in Clients : Follows(d, e) => Follows(d, e)'
  BY <1>2 DEF Follows
<1> QED
  BY <1>1, <1>4, <1>5, <1>6, OrderKept

(* A new connection follows all that are there: they are in their grace    *)
(* period.                                                                 *)
LEMMA ConnectGrace ==
  ASSUME IInv, GraceInv, Graceful, NEW c \in Clients, Connect(c)
  PROVE  InTurn' /\ MarkedInTime'
<1>1. /\ Types /\ InTurn /\ MarkedInTime
      /\ UNCHANGED << slots, current_slot, server, slot >>
      /\ \A d \in Clients : pc[d] \in {"new", "gone", "phase1", "phase2"}
  BY GraceFacts DEF Connect, control, Graceful
<1>2. pc'[c] = "backlog" /\ \A d \in Clients : d # c => pc'[d] = pc[d]
  BY <1>1, GotoTyped DEF Connect, Labels
<1>3. MarkedInTime'
  BY <1>1, MarkedKept
<1>4. InTurn'
  <2> SUFFICES ASSUME NEW d \in Clients, NEW e \in Clients, Active(d)', Active(e)', d # e
               PROVE  Trails(d)' \/ Trails(e)' \/ Follows(d, e)' \/ Follows(e, d)'
    BY DEF InTurn
  <2>1. CASE d = c
    BY <1>1, <1>2, <2>1 DEF Follows, Active
  <2>2. CASE e = c
    BY <1>1, <1>2, <2>2 DEF Follows, Active
  <2>3. CASE d # c /\ e # c
    <3>1. Active(d) /\ Active(e) /\ ~Follows(d, e) /\ ~Follows(e, d)
      BY <1>1, <1>2, <2>3 DEF Active, Follows
    <3>2. Trails(d) \/ Trails(e)
      BY <1>1, <3>1 DEF InTurn
    <3> QED
      BY <1>1, <1>2, <2>3, <3>2 DEF Trails, Old, Live, Mine
  <2> QED
    BY <2>1, <2>2, <2>3
<1> QED
  BY <1>3, <1>4

(* The server task's steps other than the launch leave every task's place, *)
(* and no slot is less old after them.                                     *)
LEMMA FlagsGrace ==
  ASSUME InTurn, UNCHANGED << pc, slot >>, Types,
         \A i \in {0, 1} : slots[i].is_old => slots'[i].is_old
  PROVE  InTurn'
<1>1. \A d \in Clients : slot[d] \in {0, 1}
  BY Parts
<1> QED
  BY <1>1, OrderKept DEF Active, Trails, Old, Live, Mine, Follows

LEMMA ServerGrace ==
  ASSUME IInv, GraceInv, Graceful,
         \/ WaitEnds \/ StopOld \/ Launched \/ MarkOld \/ \E c \in Clients : Accept(c)
  PROVE  InTurn' /\ MarkedInTime'
<1>1. /\ Types /\ Good /\ InTurn /\ MarkedInTime /\ UNCHANGED << pc, slot >>
      /\ new_slot \in {0, 1} /\ current_slot \in {0, 1}
      /\ \A i \in {0, 1} : slots[i] \in SlotType
  BY GraceFacts, Parts DEF WaitEnds, StopOld, Launched, MarkOld, Accept
<1>2. CASE WaitEnds
  <2>1. /\ slots' = slots /\ current_slot' = current_slot /\ new_slot' = new_slot
        /\ server.pc = "wait" /\ server'.pc = "mark"
    BY <1>1, <1>2 DEF WaitEnds, ServerGoto, new_slot, Types, ServerType
  <2> QED
    BY <1>1, <2>1, FlagsGrace DEF MarkedInTime, Marked
<1>3. CASE StopOld
  <2>1. /\ Stop(current_slot) /\ current_slot' = current_slot /\ new_slot' = new_slot
        /\ server.pc = "stop" /\ server'.pc = "launch"
    BY <1>1, <1>3 DEF StopOld, ServerGoto, new_slot, Types, ServerType
  <2>2. /\ \A j \in {0, 1} : j # current_slot => slots'[j] = slots[j]
        /\ \A j \in {0, 1} :
              slots'[j].task = slots[j].task /\ (slots'[j].is_old <=> slots[j].is_old)
    BY <1>1, <2>1, StopIs
  <2>3. MarkedInTime'
    BY <1>1, <2>1, <2>2 DEF MarkedInTime, Marked
  <2> QED
    BY <1>1, <2>2, <2>3, FlagsGrace
<1>4. CASE Launched
  <2>1. /\ slots' = slots /\ server.pc = "launched" /\ server'.pc = "accept"
        /\ \/ slots[new_slot].task # NoClient /\ current_slot' = new_slot /\ new_slot' = current_slot
           \/ slots[new_slot].task = NoClient /\ current_slot' = current_slot /\ new_slot' = new_slot
    BY <1>1, <1>4 DEF Launched, new_slot
  <2> QED
    BY <1>1, <2>1, FlagsGrace DEF MarkedInTime, Marked
<1>5. CASE MarkOld
  <2>1. /\ current_slot' = current_slot /\ new_slot' = new_slot /\ server.pc = "mark"
        /\ \/ slots[current_slot].task = NoClient /\ slots' = slots /\ server'.pc = "launch"
           \/ /\ slots' = [slots EXCEPT ![current_slot].is_old = TRUE] /\ server'.pc = "stop"
    BY <1>1, <1>5 DEF MarkOld, ServerGoto, new_slot, Types, ServerType
  <2>2. /\ \A j \in {0, 1} : /\ slots'[j].task = slots[j].task
                             /\ (slots[j].is_old => slots'[j].is_old)
                             /\ (slots'[j].should_stop <=> slots[j].should_stop)
        /\ server'.pc = "stop" => slots'[current_slot].is_old
    BY <1>1, <2>1 DEF Types, SlotType
  <2>3. MarkedInTime'
    BY <1>1, <2>1, <2>2 DEF MarkedInTime, Marked
  <2> QED
    BY <1>1, <2>2, <2>3, FlagsGrace
<1>6. ASSUME NEW c \in Clients, Accept(c) PROVE InTurn' /\ MarkedInTime'
  <2>1. /\ current_slot' = current_slot /\ new_slot' = new_slot /\ server.pc = "accept"
        /\ server'.pc \in {"wait", "mark"} /\ (slots' = slots \/ Stop(new_slot))
    BY <1>1, <1>6 DEF Accept, new_slot
  <2>2. /\ \A j \in {0, 1} : j # new_slot => slots'[j] = slots[j]
        /\ \A j \in {0, 1} :
              slots'[j].task = slots[j].task /\ (slots'[j].is_old <=> slots[j].is_old)
    BY <1>1, <2>1, StopIs
  <2>3. MarkedInTime'
    BY <1>1, <2>1, <2>2 DEF MarkedInTime, Marked
  <2> QED
    BY <1>1, <2>2, <2>3, FlagsGrace
<1> QED
  BY <1>2, <1>3, <1>4, <1>5, <1>6

LEMMA TimedOutGrace ==
  ASSUME IInv, GraceInv, Graceful, WaitTimesOut
  PROVE  InTurn' /\ MarkedInTime'
<1> DEFINE c == server.client
<1>1. /\ Types /\ InTurn /\ MarkedInTime /\ server.pc = "wait" /\ server'.pc = "accept"
      /\ UNCHANGED << slots, current_slot, slot >> /\ new_slot' = new_slot
      /\ \A d \in Clients : slot[d] \in {0, 1}
  BY GraceFacts, Parts DEF WaitTimesOut, Refuse, new_slot
<1>2. c \in Clients /\ ~Live(c)
  BY <1>1, GraceFacts, Handled
<1>3. pc'[c] = "gone" /\ \A d \in Clients : d # c => pc'[d] = pc[d]
  BY <1>1, <1>2, GotoTyped DEF WaitTimesOut, Refuse, Labels
<1> HIDE DEF c
<1>4. MarkedInTime'
  BY <1>1 DEF MarkedInTime, Marked
<1>5. \A d \in Clients : Active(d)' => d # c
  BY <1>3 DEF Active
<1>6. \A d \in Clients : Active(d)' => Active(d) /\ (Trails(d) => Trails(d)')
  BY <1>1, <1>3, <1>5 DEF Active, Trails, Old, Live, Mine
<1>7. \A d, e \in Clients : Active(d)' /\ Active(e)' /\ Follows(d, e) => Follows(d, e)'
  BY <1>3, <1>5 DEF Follows
<1> QED
  BY <1>1, <1>4, <1>6, <1>7, OrderKept

(* The task of the new connection starts: the one whose grace period it is *)
(* made in is marked old by now.                                           *)
LEMMA LaunchGrace ==
  ASSUME IInv, GraceInv, Graceful, Launch
  PROVE  InTurn' /\ MarkedInTime'
<1> DEFINE c == server.client
<1>1. /\ Types /\ Good /\ InTurn /\ MarkedInTime /\ server.pc = "launch"
      /\ current_slot' = current_slot /\ new_slot' = new_slot
      /\ new_slot \in {0, 1} /\ current_slot \in {0, 1} /\ new_slot # current_slot
      /\ \A i \in {0, 1} : i = new_slot \/ i = current_slot
      /\ \A d \in Clients : slot[d] \in {0, 1} /\ d # NoClient
      /\ \A d \in Clients : Live(d) => slots[slot[d]].task = d
  BY GraceFacts, Parts DEF Launch, new_slot, Mine
<1>2. /\ c \in Clients /\ ~Live(c) /\ Active(c) /\ pc[c] = "backlog"
      /\ slots[new_slot].task = NoClient
  BY <1>1, GraceFacts, Handled DEF Good, Handling
<1>3. /\ pc'[c] \in {"gone", "begin"} /\ \A d \in Clients : d # c => pc'[d] = pc[d]
      /\ server'.pc = IF pc'[c] = "gone" THEN "accept" ELSE "launched"
  BY <1>1, <1>2, GotoTyped DEF Launch, Refuse, ServerGoto, Labels, Types, ServerType
<1>4. /\ \A i \in {0, 1} : i # new_slot => slots'[i] = slots[i]
      /\ ~slots'[new_slot].should_stop
      /\ \A d \in Clients : d # c => slot'[d] = slot[d]
      /\ slots'[new_slot].task = NoClient \/ server'.pc = "launched"
  <2>1. \/ /\ slots' = [slots EXCEPT ![new_slot] = Fresh(c)]
           /\ slot' = [slot EXCEPT ![c] = new_slot] /\ server'.pc = "launched"
        \/ slots' = [slots EXCEPT ![new_slot] = EmptySlot] /\ slot' = slot
    BY <1>1 DEF Launch, Fresh, ServerGoto, Types, ServerType
  <2>2. ~Fresh(c).should_stop /\ ~EmptySlot.should_stop /\ EmptySlot.task = NoClient
    BY DEF Fresh, EmptySlot
  <2> HIDE DEF c
  <2> QED
    BY <1>1, <2>1, <2>2 DEF Types
<1>5. \A d \in Clients : Live(d) => slot[d] = current_slot
  BY <1>1, <1>2
<1> HIDE DEF c
<1>6. MarkedInTime'
  BY <1>1, <1>3, <1>4 DEF MarkedInTime, Marked
<1>7. ASSUME NEW d \in Clients, Active(d)' PROVE Active(d) /\ (Trails(d) => Trails(d)')
  <2>1. CASE d = c
    BY <1>2, <2>1 DEF Trails, Old
  <2>2. CASE d # c
    BY <1>1, <1>3, <1>4, <1>5, <1>7, <2>2 DEF Active, Trails, Old, Live, Mine
  <2> QED
    BY <2>1, <2>2
<1>8. ASSUME NEW d \in Clients, NEW e \in Clients, d # e, Follows(d, e) PROVE Trails(e)'
  <2>1. Live(e) /\ e # c /\ pc[e] \in {"phase1", "phase2"} /\ pc'[e] = pc[e] /\ slot'[e] = slot[e]
    BY <1>2, <1>3, <1>4, <1>8 DEF Follows, Live
  <2>2. slots[current_slot].task = e /\ slots'[current_slot] = slots[current_slot] /\ slot[e] = current_slot
    BY <1>1, <1>4, <1>5, <2>1
  <2>3. slots[current_slot].is_old
    BY <1>1, <2>2 DEF MarkedInTime, Marked
  <2> QED
    BY <2>1, <2>2, <2>3 DEF Trails, Old, Live, Mine
<1> QED
  BY <1>1, <1>6, <1>7, <1>8, OrderKept

(* Only SETRATEANCHORTIME names a PTP master.                              *)
LEMMA MasterKept == IInv /\ MasterIsBuffered /\ [Next]_vars => MasterIsBuffered'
<1> SUFFICES ASSUME IInv, MasterIsBuffered, [Next]_vars PROVE MasterIsBuffered'
  OBVIOUS
<1>1. plan' = plan /\ device \in DeviceType
  BY DEF IInv, Types, Next, vars, Server, Accept, WaitEnds, WaitTimesOut, MarkOld, StopOld, Launch,
         Launched, ServerStop, ServerExit, ServerStart, Press, Connect, Task, Begin, Request,
         Setup, Play, Teardown, Disconnect, Phase2Button, CleanUp, StopAudio, StopNtp, Grace,
         Phase1, Phase2, Expire, Clear, Global, StartPtp, StopEvent, Free, control
<1>2. \/ device'.master \in {device.master, NoClient}
      \/ \E c \in Clients : device'.master = c /\ c \notin plan.v1
  <2>1. CASE Server \/ Press \/ UNCHANGED vars
    BY <2>1 DEF vars, Server, Accept, WaitEnds, WaitTimesOut, MarkOld, StopOld, Launch,
         Launched, ServerStop, ServerExit, ServerStart, Press
  <2>2. ASSUME NEW c \in Clients, Connect(c) \/ Begin(c) \/ Disconnect(c) \/ Free(c)
        PROVE  device'.master \in {device.master, NoClient}
    BY <1>1, <2>2 DEF Connect, Begin, Disconnect, Free, DeviceType
  <2>3. ASSUME NEW c \in Clients, Request(c)
        PROVE  device'.master \in {device.master, NoClient} \/ (device'.master = c /\ c \notin plan.v1)
    BY <1>1, <2>3 DEF Request, Setup, Play, Teardown, Dispatched, DeviceType
  <2>4. ASSUME NEW c \in Clients, CleanStep(c) PROVE device'.master = device.master
    BY <1>1, <2>4 DEF CleanStep, StopAudio, StopNtp, Grace, Phase1, Phase2Button, Phase2,
         Expire, Clear, Global, StartPtp, StopEvent, control, DeviceType
  <2> QED
    BY <2>1, <2>2, <2>3, <2>4 DEF Next, Task, CleanUp, CleanStep
<1> QED
  BY <1>1, <1>2 DEF MasterIsBuffered

LEMMA NextGrace == IInv /\ GraceInv /\ [Next]_vars => GraceInv'
<1> SUFFICES ASSUME IInv, GraceInv, [Next]_vars PROVE GraceInv'
  OBVIOUS
<1>1. MasterIsBuffered'
  BY MasterKept DEF GraceInv
<1>2. ASSUME Graceful' PROVE InTurn' /\ MarkedInTime'
  <2>1. plan' = plan
    BY DEF Next, vars, Server, Accept, WaitEnds, WaitTimesOut, MarkOld, StopOld, Launch,
         Launched, ServerStop, ServerExit, ServerStart, Press, Connect, Task, Begin, Request,
         Setup, Play, Teardown, Disconnect, Phase2Button, CleanUp, StopAudio, StopNtp, Grace,
         Phase1, Phase2, Expire, Clear, Global, StartPtp, StopEvent, Free, control
  <2>2. Graceful /\ Types /\ InTurn /\ MarkedInTime
    BY <1>2, <2>1, GraceFacts DEF Graceful
  <2>3. CASE ServerStop \/ ServerExit \/ ServerStart
    BY <2>2, <2>3, GraceFacts DEF ServerStop, ServerExit, ServerStart, Graceful
  <2>4. CASE Server
    BY <2>2, <2>3, <2>4, ServerGrace, TimedOutGrace, LaunchGrace DEF Server
  <2>5. CASE Press \/ UNCHANGED vars
    <3>1. UNCHANGED << pc, slot, slots, current_slot, server >>
      BY <2>5 DEF Press, vars
    <3> QED
      BY <2>2, <3>1, FlagsGrace, MarkedKept
  <2>6. ASSUME NEW c \in Clients, Connect(c) PROVE InTurn' /\ MarkedInTime'
    BY <2>2, <2>6, ConnectGrace
  <2>7. ASSUME NEW c \in Clients, Task(c) PROVE InTurn' /\ MarkedInTime'
    <3>1. CleanStep(c) \/ Request(c) \/ Begin(c) \/ Disconnect(c) \/ Free(c)
      BY <2>7 DEF Task, CleanUp, CleanStep
    <3> QED
      BY <2>2, <3>1, CleanGrace, TaskGrace
  <2> QED
    BY <2>4, <2>5, <2>6, <2>7 DEF Next
<1> QED
  BY <1>1, <1>2 DEF GraceInv

(* A step that leads a client on in its cleanup is its own step.           *)
LEMMA CleanupIsOwn ==
  ASSUME IInv, Undisturbed, [Next]_vars, NEW c \in Clients, pc[c] \in Cleanup, pc'[c] # pc[c]
  PROVE  CleanStep(c) \/ Free(c)
<1>1. /\ Types /\ pc[c] \notin {"new", "backlog", "begin", "serve", "gone"}
      /\ pc \in [Clients -> Labels]
  BY DEF IInv, Types, Cleanup
<1>2. ~Server
  <2>1. CASE WaitTimesOut \/ Launch
    <3>1. server.client \in Clients /\ pc[server.client] = "backlog"
      BY <2>1, Handled DEF WaitTimesOut, Launch
    <3>2. \E l \in Labels : Goto(server.client, l)
      BY <2>1 DEF WaitTimesOut, Launch, Refuse, Labels
    <3> QED
      BY <1>1, <3>1, <3>2 DEF Goto
  <2>2. CASE Server /\ ~(WaitTimesOut \/ Launch)
    BY <2>2 DEF Server, Accept, WaitEnds, MarkOld, StopOld, Launched, ServerStop, ServerExit,
                ServerStart
  <2> QED
    BY <2>1, <2>2
<1>3. ~Press /\ ~UNCHANGED vars
  BY DEF Press, vars
<1>4. PICK d \in Clients : Connect(d) \/ Task(d)
  BY <1>2, <1>3 DEF Next
<1>5. ASSUME d # c PROVE pc'[c] = pc[c]
  <2>1. CASE Connect(d) \/ Begin(d) \/ Request(d) \/ Disconnect(d) \/ Phase2Button(d)
    BY <1>1, <1>5, <2>1 DEF Connect, Begin, Request, Setup, Play, Teardown, Disconnect,
       Phase2Button, Goto
  <2>2. CASE StopAudio(d) \/ StopNtp(d) \/ Grace(d) \/ Expire(d) \/ Clear(d) \/ Global(d)
             \/ StartPtp(d) \/ StopEvent(d) \/ Free(d)
    BY <1>1, <1>5, <2>2 DEF StopAudio, StopNtp, Grace, Expire, Clear, Global, StartPtp,
       StopEvent, Free, Goto
  <2>3. CASE Phase1(d) \/ Phase2(d)
    BY <1>1, <1>5, <2>3 DEF Phase1, Phase2, Goto
  <2> QED
    BY <1>4, <2>1, <2>2, <2>3 DEF Task, CleanUp
<1>6. d = c
  BY <1>5
<1> QED
  BY <1>1, <1>4, <1>6 DEF Connect, Task, Begin, Request, Setup, Play, Teardown, Serving,
     Disconnect, CleanUp, CleanStep

(* What a cleanup stops is its own, or that of a connection that is not    *)
(* served, when connections come one after the other or in the grace       *)
(* period of their predecessor.                                            *)
LEMMA CleanupKeepsOthers ==
  ASSUME IInv, GraceInv, Undisturbed, plan.arrive = {} \/ Graceful,
         NEW c \in Clients, CleanStep(c) \/ Free(c)
  PROVE  KeepsOthers(c)
<1>1. /\ Types /\ device \in DeviceType /\ pc[c] \in Cleanup /\ Active(c) /\ c # NoClient
  BY Parts DEF IInv, Types, CleanStep, Free, StopAudio, StopNtp, Grace, Phase1, Phase2Button, Phase2,
     Expire, Clear, Global, StartPtp, StopEvent, Cleanup, Active
<1>2. ASSUME NEW d \in Clients, d # c, pc[d] = "serve"
      PROVE  Trails(c) /\ Graceful
  <2>1. Active(d) /\ ~Trails(d) /\ ~Follows(c, d) /\ ~Follows(d, c)
    BY <1>2 DEF Active, Trails, Follows
  <2>2. plan.arrive # {}
    BY <1>1, <1>2, <2>1 DEF IInv, OneAtATime
  <2> QED
    BY <1>1, <1>2, <2>1, <2>2 DEF GraceInv, InTurn
<1>3. ASSUME NEW f \in DOMAIN device, device'[f] # device[f], device[f] # c
      PROVE  pc[device[f]] # "serve"
  <2> SUFFICES ASSUME pc[device[f]] = "serve" PROVE FALSE
    OBVIOUS
  <2>1. device[f] # NoClient /\ device[f] \in Clients
    <3>1. device[f] \in Maybe
      BY <1>1 DEF DeviceType
    <3>2. device[f] # NoClient
      BY <1>1, <1>3 DEF CleanStep, Free, StopAudio, StopNtp, Grace, Phase1, Phase2Button, Phase2,
         Expire, Clear, Global, StartPtp, StopEvent, control, DeviceType
    <3> QED
      BY <3>1, <3>2 DEF Maybe
  <2>2. Trails(c) /\ Graceful
    BY <1>2, <1>3, <2>1
  <2>3. Phase1(c) \/ Phase2Button(c) \/ Phase2(c) \/ Expire(c) \/ Global(c) \/ Free(c)
    BY <2>2 DEF Trails, Old, CleanStep, StopAudio, StopNtp, Grace, Clear, StartPtp, StopEvent
  <2>4. CASE Phase1(c) \/ Phase2Button(c) \/ Phase2(c) \/ Expire(c)
    BY <1>3, <2>4 DEF Phase1, Phase2Button, Phase2, Expire, control
  <2>5. CASE Global(c)
    BY <1>1, <1>3, <2>5 DEF Global, DeviceType
  <2>6. CASE Free(c)
    <3>1. device.master = NoClient
      BY <1>1, <2>2 DEF GraceInv, MasterIsBuffered, Graceful, DeviceType, Maybe
    <3> QED
      BY <1>1, <1>3, <2>6, <3>1 DEF Free, DeviceType
  <2> QED
    BY <2>3, <2>4, <2>5, <2>6
<1>4. ASSUME shown' # shown, shown'.event = "disconnected", NEW d \in Clients \ {c}
      PROVE  pc[d] # "serve"
  <2>1. Clear(c)
    BY <1>4 DEF CleanStep, Free, StopAudio, StopNtp, Grace, Phase1, Phase2Button, Phase2,
         Expire, Clear, Global, StartPtp, StopEvent, control, Emit
  <2>2. ~Trails(c)
    BY <2>1 DEF Clear, Trails
  <2> QED
    BY <1>2, <2>2
<1> QED
  BY <1>3, <1>4 DEF KeepsOthers

(* The cleanup of a client takes nothing from one that is served meanwhile *)
(* and does not show "disconnected" over it, for any number of AirPlay 1   *)
(* senders that reconnect while their predecessor is in the grace period   *)
(* of dacp_probe_service, or connect one after the other.                  *)
THEOREM ReconnectIsKept ==
  Spec /\ [](plan.arrive = {} \/ (plan.restarts = 0 /\ plan.v1 = Clients)) => GraceKeepsSession
<1> DEFINE Setting == plan.arrive = {} \/ (plan.restarts = 0 /\ plan.v1 = Clients)
           Kept == plan.arrive \subseteq {"phase1", "phase2"} /\ ~plan.fickle =>
                     \A c \in Clients : pc[c] \in Cleanup /\ pc'[c] # pc[c] => KeepsOthers(c)
<1>1. IInv /\ GraceInv /\ Setting /\ [Next]_vars => [Kept]_vars
  <2> SUFFICES ASSUME IInv, GraceInv, Setting, [Next]_vars,
                      plan.arrive \subseteq {"phase1", "phase2"}, ~plan.fickle,
                      NEW c \in Clients, pc[c] \in Cleanup, pc'[c] # pc[c]
               PROVE  KeepsOthers(c)
    OBVIOUS
  <2>1. Undisturbed
    BY DEF IInv, Types, Undisturbed
  <2>2. plan.arrive = {} \/ Graceful
    BY DEF Graceful
  <2> QED
    BY <2>1, <2>2, CleanupIsOwn, CleanupKeepsOthers
<1>2. Init => IInv /\ GraceInv
  BY InitIInv
<1>3. IInv /\ GraceInv /\ [Next]_vars => IInv' /\ GraceInv'
  BY NextIInv, NextGrace
<1>4. [][Kept]_vars => GraceKeepsSession
  BY DEF GraceKeepsSession, Kept
<1> HIDE DEF Kept, Setting
<1>5. Spec /\ []Setting => [][Kept]_vars
  BY <1>1, <1>2, <1>3, PTL DEF Spec
<1> QED
  BY <1>4, <1>5, PTL DEF Setting

-----------------------------------------------------------------------------
(* The jack and fault interrupts. *)
LEMMA SqueezeInitTypeOK == SqueezeInit => SqueezeTypeOK
BY DEF SqueezeInit, SqueezeTypeOK

LEMMA SqueezeKept ==
  ASSUME SqueezeTypeOK, [SqueezeNext]_squeezeVars
  PROVE  SqueezeTypeOK'
BY DEF SqueezeTypeOK, SqueezeNext, squeezeVars, dacVars, gpioVars, STANDBY, ON, OFF,
       tas57xx_restore_config, Unmute, tas57xx_set_volume, fault_isr, jack_isr_handler,
       WaitForBits, HandleFault, HandleClear, HandleJack

-----------------------------------------------------------------------------
(* Bluetooth's ring buffer.  A writer is there from its start until it has *)
(* been told to end, and the buffer is freed when it is gone; while the    *)
(* callback prefetches there is less in the buffer than wakes the writer.  *)
RingNumbers ==
  /\ buffers \in Nat /\ ring \in {No} \cup 1 .. buffers /\ snapshot \in {No} \cup 1 .. buffers
  /\ fill \in 0 .. RINGBUF_SIZE /\ links \in 0 .. MaxLinks
RingModes ==
  /\ mode \in {"prefetching", "processing", "dropping"} /\ sem \in {No, 0, 1}
  /\ run \in BOOLEAN /\ held \in BOOLEAN /\ streaming \in BOOLEAN
RingTasks ==
  /\ writer \in {"none", "waiting", "reading", "writing"}
  /\ bt_app \in {"idle", "linked", "stopping"}
RingControl ==
  /\ held <=> writer # "none"
  /\ bt_app = "linked" => held /\ run
  /\ bt_app = "stopping" => ~run
  /\ bt_app = "idle" => (run <=> held)
  /\ bt_app = "idle" /\ ~held => ring = No
  /\ ring = No => fill = 0
  /\ mode = "prefetching" => fill < RINGBUF_PREFETCH
RingIInv == RingNumbers /\ RingModes /\ RingTasks /\ RingControl

LEMMA RingInitIInv == ASSUME RingInit PROVE RingIInv
<1> USE RingAssumption DEF RingInit, No
<1>1. RingNumbers
  BY DEF RingNumbers
<1>2. RingModes
  BY DEF RingModes
<1>3. RingTasks
  BY DEF RingTasks
<1>4. RingControl
  BY DEF RingControl
<1> QED
  BY <1>1, <1>2, <1>3, <1>4 DEF RingIInv

LEMMA RingKept ==
  ASSUME RingIInv, [RingNext]_ringVars
  PROVE  RingIInv'
<1> USE RingAssumption DEF RingIInv, No, Exists
<1>1. CASE i2s_task_start
  <2> USE <1>1 DEF i2s_task_start
  <2>1. RingNumbers'
    BY DEF RingNumbers, RingControl
  <2>2. RingModes'
    BY DEF RingModes
  <2>3. RingTasks'
    BY DEF RingTasks
  <2>4. RingControl'
    BY DEF RingControl, RingNumbers, RingModes
  <2> QED
    BY <2>1, <2>2, <2>3, <2>4
<1>2. CASE Stream \/ StopWriter \/ FreeRing \/ DataArrives
  <2> USE <1>2 DEF Stream, StopWriter, FreeRing, DataArrives
  <2>1. RingNumbers'
    BY DEF RingNumbers, RingControl
  <2>2. RingModes'
    BY DEF RingModes
  <2>3. RingTasks'
    BY DEF RingTasks
  <2>4. RingControl'
    BY DEF RingControl, RingNumbers, RingModes
  <2> QED
    BY <2>1, <2>2, <2>3, <2>4
<1>3. CASE DataStored
  <2> USE <1>3 DEF DataStored, StorePrefetching, StoreProcessing, StoreDropping, RingRoom
  <2>1. RingNumbers'
    BY DEF RingNumbers, RingControl
  <2>2. RingModes'
    BY DEF RingModes
  <2>3. RingTasks'
    BY DEF RingTasks
  <2>4. RingControl'
    BY DEF RingControl, RingNumbers, RingModes
  <2> QED
    BY <2>1, <2>2, <2>3, <2>4
<1>4. CASE Writer
  <2> USE <1>4 DEF Writer, Woken, ReadRing, Written, WriterEnds
  <2>1. RingNumbers'
    BY DEF RingNumbers, RingControl
  <2>2. RingModes'
    BY DEF RingModes
  <2>3. RingTasks'
    BY DEF RingTasks
  <2>4. RingControl'
    BY DEF RingControl, RingNumbers, RingModes
  <2> QED
    BY <2>1, <2>2, <2>3, <2>4
<1>5. CASE UNCHANGED ringVars
  <2> USE <1>5 DEF ringVars
  <2>1. RingNumbers'
    BY DEF RingNumbers, RingControl
  <2>2. RingModes'
    BY DEF RingModes
  <2>3. RingTasks'
    BY DEF RingTasks
  <2>4. RingControl'
    BY DEF RingControl, RingNumbers, RingModes
  <2> QED
    BY <2>1, <2>2, <2>3, <2>4
<1> QED
  BY <1>1, <1>2, <1>3, <1>4, <1>5 DEF RingNext

-----------------------------------------------------------------------------
(* The network.  Only a running driver has a station at work; one without  *)
(* credentials stays idle, so no address comes that would take the access  *)
(* point down; and wifi_stop finds room for its event, the driver having   *)
(* kept to its own.                                                        *)
NetworkAir ==
  /\ credentials \in BOOLEAN /\ inRange \subseteq AccessPoints /\ bssid \in AccessPoints \union {NoLock}
NetworkDriver ==
  /\ driver \in BOOLEAN /\ apMode \in BOOLEAN /\ sta \in {"idle", "connecting", "connected"}
  /\ ~driver => sta = "idle"
NetworkEvents ==
  /\ events \in Seq({"start", "disconnected", "got_ip"}) /\ Len(events) <= MaxEvents + 1
  /\ driver => Len(events) <= MaxEvents
NoAddress == ~credentials => sta = "idle" /\ \A i \in 1 .. Len(events) : events[i] # "got_ip"
NetworkCounts ==
  /\ inits \in 0 .. MaxInits /\ handlers = inits /\ scans \in Nat /\ scanned \in Nat
  /\ s_retry_num \in 0 .. (AP_REENABLE_THRESHOLD + 1)
NetworkFlags ==
  /\ webScan \in BOOLEAN /\ retryTimer \in BOOLEAN /\ paused \in BOOLEAN
  /\ s_sta_connected \in BOOLEAN
NetworkLinks == s_eth_link_up \in BOOLEAN /\ s_eth_connected \in BOOLEAN
NetworkBoot ==
  /\ boot \in {"ethernet", "wifi", "create", "created", "done"}
  /\ eth_available \in BOOLEAN /\ s_airplay_started \in BOOLEAN
NetworkMonitor ==
  /\ monitor \in BOOLEAN /\ had_eth \in BOOLEAN
  /\ had_network \in BOOLEAN /\ wifi_started \in BOOLEAN
NetworkIInv ==
  /\ NetworkAir /\ NetworkDriver /\ NetworkEvents /\ NoAddress /\ NetworkCounts /\ NetworkFlags
  /\ NetworkLinks /\ NetworkBoot /\ NetworkMonitor /\ SetupReachable

LEMMA NetworkInitIInv == ASSUME NetworkInit PROVE NetworkIInv
<1> USE NetworkAssumption DEF NetworkInit
<1>1. NetworkAir
  BY DEF NetworkAir
<1>2. NetworkDriver
  BY DEF NetworkDriver
<1>3. NetworkEvents
  BY DEF NetworkEvents
<1>4. NoAddress
  BY DEF NoAddress
<1>5. NetworkCounts
  BY DEF NetworkCounts
<1>6. NetworkFlags
  BY DEF NetworkFlags
<1>7. NetworkLinks
  BY DEF NetworkLinks
<1>8. NetworkBoot
  BY DEF NetworkBoot
<1>9. NetworkMonitor
  BY DEF NetworkMonitor
<1>10. SetupReachable
  BY DEF SetupReachable
<1> QED
  BY <1>1, <1>2, <1>3, <1>4, <1>5, <1>6, <1>7, <1>8, <1>9, <1>10 DEF NetworkIInv

LEMMA NetworkKept ==
  ASSUME NetworkIInv, [NetworkNext]_networkVars
  PROVE  NetworkIInv'
<1> USE NetworkAssumption DEF NetworkIInv, driverVars, stationVars, ethVars, bootVars, monitorVars
<1>1. CASE Associate
  <2> USE <1>1 DEF Associate, Reachable
  <2>1. NetworkAir'
    BY DEF NetworkAir
  <2>2. NetworkDriver'
    BY DEF NetworkDriver
  <2>3. NetworkEvents'
    BY DEF NetworkEvents, NetworkDriver
  <2>4. NoAddress'
    BY DEF NoAddress, NetworkEvents, NetworkDriver
  <2>5. NetworkCounts'
    BY DEF NetworkCounts
  <2>6. NetworkFlags'
    BY DEF NetworkFlags
  <2>7. NetworkLinks'
    BY DEF NetworkLinks
  <2>8. NetworkBoot'
    BY DEF NetworkBoot, NetworkLinks, NetworkFlags
  <2>9. NetworkMonitor'
    BY DEF NetworkMonitor, NetworkLinks, NetworkFlags
  <2>10. SetupReachable'
    BY DEF SetupReachable, NetworkDriver, NetworkCounts, NoAddress, NetworkEvents
  <2> QED
    BY <2>1, <2>2, <2>3, <2>4, <2>5, <2>6, <2>7, <2>8, <2>9, <2>10
<1>2. CASE LinkLost
  <2> USE <1>2 DEF LinkLost
  <2>1. NetworkAir'
    BY DEF NetworkAir
  <2>2. NetworkDriver'
    BY DEF NetworkDriver
  <2>3. NetworkEvents'
    BY DEF NetworkEvents, NetworkDriver
  <2>4. NoAddress'
    BY DEF NoAddress, NetworkEvents, NetworkDriver
  <2>5. NetworkCounts'
    BY DEF NetworkCounts
  <2>6. NetworkFlags'
    BY DEF NetworkFlags
  <2>7. NetworkLinks'
    BY DEF NetworkLinks
  <2>8. NetworkBoot'
    BY DEF NetworkBoot, NetworkLinks, NetworkFlags
  <2>9. NetworkMonitor'
    BY DEF NetworkMonitor, NetworkLinks, NetworkFlags
  <2>10. SetupReachable'
    BY DEF SetupReachable, NetworkDriver, NetworkCounts, NoAddress, NetworkEvents
  <2> QED
    BY <2>1, <2>2, <2>3, <2>4, <2>5, <2>6, <2>7, <2>8, <2>9, <2>10
<1>3. CASE Air
  <2> USE <1>3 DEF Air
  <2>1. NetworkAir'
    BY DEF NetworkAir
  <2>2. NetworkDriver'
    BY DEF NetworkDriver
  <2>3. NetworkEvents'
    BY DEF NetworkEvents, NetworkDriver
  <2>4. NoAddress'
    BY DEF NoAddress, NetworkEvents, NetworkDriver
  <2>5. NetworkCounts'
    BY DEF NetworkCounts
  <2>6. NetworkFlags'
    BY DEF NetworkFlags
  <2>7. NetworkLinks'
    BY DEF NetworkLinks
  <2>8. NetworkBoot'
    BY DEF NetworkBoot, NetworkLinks, NetworkFlags
  <2>9. NetworkMonitor'
    BY DEF NetworkMonitor, NetworkLinks, NetworkFlags
  <2>10. SetupReachable'
    BY DEF SetupReachable, NetworkDriver, NetworkCounts, NoAddress, NetworkEvents
  <2> QED
    BY <2>1, <2>2, <2>3, <2>4, <2>5, <2>6, <2>7, <2>8, <2>9, <2>10
<1>4. CASE HandleStart
  <2> USE <1>4 DEF HandleStart
  <2>1. NetworkAir'
    BY DEF NetworkAir
  <2>2. NetworkDriver'
    BY DEF NetworkDriver
  <2>3. NetworkEvents'
    BY DEF NetworkEvents, NetworkDriver
  <2>4. NoAddress'
    BY DEF NoAddress, NetworkEvents, NetworkDriver
  <2>5. NetworkCounts'
    BY DEF NetworkCounts
  <2>6. NetworkFlags'
    BY DEF NetworkFlags
  <2>7. NetworkLinks'
    BY DEF NetworkLinks
  <2>8. NetworkBoot'
    BY DEF NetworkBoot, NetworkLinks, NetworkFlags
  <2>9. NetworkMonitor'
    BY DEF NetworkMonitor, NetworkLinks, NetworkFlags
  <2>10. SetupReachable'
    BY DEF SetupReachable, NetworkDriver, NetworkCounts, NoAddress, NetworkEvents
  <2> QED
    BY <2>1, <2>2, <2>3, <2>4, <2>5, <2>6, <2>7, <2>8, <2>9, <2>10
<1>5. CASE HandleDisconnected
  <2> USE <1>5 DEF HandleDisconnected, Retry, AtMost, esp_wifi_connect, NoConnect, Connects
  <2>1. NetworkAir'
    BY DEF NetworkAir
  <2>2. NetworkDriver'
    BY DEF NetworkDriver
  <2>3. NetworkEvents'
    BY DEF NetworkEvents, NetworkDriver
  <2>4. NoAddress'
    BY DEF NoAddress, NetworkEvents, NetworkDriver
  <2>5. NetworkCounts'
    BY DEF NetworkCounts
  <2>6. NetworkFlags'
    BY DEF NetworkFlags
  <2>7. NetworkLinks'
    BY DEF NetworkLinks
  <2>8. NetworkBoot'
    BY DEF NetworkBoot, NetworkLinks, NetworkFlags
  <2>9. NetworkMonitor'
    BY DEF NetworkMonitor, NetworkLinks, NetworkFlags
  <2>10. SetupReachable'
    <3>1. credentials' = credentials /\ driver' = driver
      OBVIOUS
    <3>2. CASE ~driver
      BY <3>1, <3>2 DEF SetupReachable
    <3>3. CASE driver /\ apMode
      BY <3>3 DEF SetupReachable
    <3>4. CASE driver /\ ~apMode
      <4>1. credentials /\ s_retry_num < AP_REENABLE_THRESHOLD
        BY <3>4 DEF SetupReachable, NetworkCounts
      <4>2. s_retry_num' >= AP_REENABLE_THRESHOLD => s_retry_num + handlers >= AP_REENABLE_THRESHOLD
        BY DEF NetworkCounts
      <4>3. apMode' = (apMode \/ (driver /\ s_retry_num < AP_REENABLE_THRESHOLD
                                   /\ s_retry_num + handlers >= AP_REENABLE_THRESHOLD))
        OBVIOUS
      <4> HIDE <1>5 DEF Retry, HandleDisconnected
      <4>4. s_retry_num' >= AP_REENABLE_THRESHOLD => apMode'
        BY <3>4, <4>1, <4>2, <4>3, Zenon
      <4> QED
        BY <3>1, <4>1, <4>4 DEF SetupReachable
    <3> QED
      BY <3>2, <3>3, <3>4 DEF NetworkDriver
  <2> QED
    BY <2>1, <2>2, <2>3, <2>4, <2>5, <2>6, <2>7, <2>8, <2>9, <2>10
<1>6. CASE HandleGotIp
  <2> USE <1>6 DEF HandleGotIp
  <2>1. NetworkAir'
    BY DEF NetworkAir
  <2>2. NetworkDriver'
    BY DEF NetworkDriver
  <2>3. NetworkEvents'
    BY DEF NetworkEvents, NetworkDriver
  <2>4. NoAddress'
    BY DEF NoAddress, NetworkEvents, NetworkDriver
  <2>5. NetworkCounts'
    BY DEF NetworkCounts
  <2>6. NetworkFlags'
    BY DEF NetworkFlags
  <2>7. NetworkLinks'
    BY DEF NetworkLinks
  <2>8. NetworkBoot'
    BY DEF NetworkBoot, NetworkLinks, NetworkFlags
  <2>9. NetworkMonitor'
    BY DEF NetworkMonitor, NetworkLinks, NetworkFlags
  <2>10. SetupReachable'
    BY DEF SetupReachable, NetworkDriver, NetworkCounts, NoAddress, NetworkEvents
  <2> QED
    BY <2>1, <2>2, <2>3, <2>4, <2>5, <2>6, <2>7, <2>8, <2>9, <2>10
<1>7. CASE retry_timer_callback
  <2> USE <1>7 DEF retry_timer_callback, esp_wifi_connect, NoConnect, Connects
  <2>1. NetworkAir'
    BY DEF NetworkAir
  <2>2. NetworkDriver'
    BY DEF NetworkDriver
  <2>3. NetworkEvents'
    BY DEF NetworkEvents, NetworkDriver
  <2>4. NoAddress'
    BY DEF NoAddress, NetworkEvents, NetworkDriver
  <2>5. NetworkCounts'
    BY DEF NetworkCounts
  <2>6. NetworkFlags'
    BY DEF NetworkFlags
  <2>7. NetworkLinks'
    BY DEF NetworkLinks
  <2>8. NetworkBoot'
    BY DEF NetworkBoot, NetworkLinks, NetworkFlags
  <2>9. NetworkMonitor'
    BY DEF NetworkMonitor, NetworkLinks, NetworkFlags
  <2>10. SetupReachable'
    BY DEF SetupReachable, NetworkDriver, NetworkCounts, NoAddress, NetworkEvents
  <2> QED
    BY <2>1, <2>2, <2>3, <2>4, <2>5, <2>6, <2>7, <2>8, <2>9, <2>10
<1>8. CASE ScanTasks
  <2> USE <1>8 DEF ScanTasks, wifi_select_best_ap, scan_and_connect_task, esp_wifi_connect, NoConnect, Connects
  <2>1. NetworkAir'
    BY DEF NetworkAir
  <2>2. NetworkDriver'
    BY DEF NetworkDriver
  <2>3. NetworkEvents'
    BY DEF NetworkEvents, NetworkDriver
  <2>4. NoAddress'
    BY DEF NoAddress, NetworkEvents, NetworkDriver
  <2>5. NetworkCounts'
    BY DEF NetworkCounts
  <2>6. NetworkFlags'
    BY DEF NetworkFlags
  <2>7. NetworkLinks'
    BY DEF NetworkLinks
  <2>8. NetworkBoot'
    BY DEF NetworkBoot, NetworkLinks, NetworkFlags
  <2>9. NetworkMonitor'
    BY DEF NetworkMonitor, NetworkLinks, NetworkFlags
  <2>10. SetupReachable'
    BY DEF SetupReachable, NetworkDriver, NetworkCounts, NoAddress, NetworkEvents
  <2> QED
    BY <2>1, <2>2, <2>3, <2>4, <2>5, <2>6, <2>7, <2>8, <2>9, <2>10
<1>9. CASE wifi_scan
  <2> USE <1>9 DEF wifi_scan
  <2>1. NetworkAir'
    BY DEF NetworkAir
  <2>2. NetworkDriver'
    BY DEF NetworkDriver
  <2>3. NetworkEvents'
    BY DEF NetworkEvents, NetworkDriver
  <2>4. NoAddress'
    BY DEF NoAddress, NetworkEvents, NetworkDriver
  <2>5. NetworkCounts'
    BY DEF NetworkCounts
  <2>6. NetworkFlags'
    BY DEF NetworkFlags
  <2>7. NetworkLinks'
    BY DEF NetworkLinks
  <2>8. NetworkBoot'
    BY DEF NetworkBoot, NetworkLinks, NetworkFlags
  <2>9. NetworkMonitor'
    BY DEF NetworkMonitor, NetworkLinks, NetworkFlags
  <2>10. SetupReachable'
    BY DEF SetupReachable, NetworkDriver, NetworkCounts, NoAddress, NetworkEvents
  <2> QED
    BY <2>1, <2>2, <2>3, <2>4, <2>5, <2>6, <2>7, <2>8, <2>9, <2>10
<1>10. CASE Unlock
  <2> USE <1>10 DEF Unlock
  <2>1. NetworkAir'
    BY DEF NetworkAir
  <2>2. NetworkDriver'
    BY DEF NetworkDriver
  <2>3. NetworkEvents'
    BY DEF NetworkEvents, NetworkDriver
  <2>4. NoAddress'
    BY DEF NoAddress, NetworkEvents, NetworkDriver
  <2>5. NetworkCounts'
    BY DEF NetworkCounts
  <2>6. NetworkFlags'
    BY DEF NetworkFlags
  <2>7. NetworkLinks'
    BY DEF NetworkLinks
  <2>8. NetworkBoot'
    BY DEF NetworkBoot, NetworkLinks, NetworkFlags
  <2>9. NetworkMonitor'
    BY DEF NetworkMonitor, NetworkLinks, NetworkFlags
  <2>10. SetupReachable'
    BY DEF SetupReachable, NetworkDriver, NetworkCounts, NoAddress, NetworkEvents
  <2> QED
    BY <2>1, <2>2, <2>3, <2>4, <2>5, <2>6, <2>7, <2>8, <2>9, <2>10
<1>11. CASE EthEvent \/ MonitorStarts
  <2> USE <1>11 DEF EthEvent, MonitorStarts, HasNetwork
  <2>1. NetworkAir'
    BY DEF NetworkAir
  <2>2. NetworkDriver'
    BY DEF NetworkDriver
  <2>3. NetworkEvents'
    BY DEF NetworkEvents, NetworkDriver
  <2>4. NoAddress'
    BY DEF NoAddress, NetworkEvents, NetworkDriver
  <2>5. NetworkCounts'
    BY DEF NetworkCounts
  <2>6. NetworkFlags'
    BY DEF NetworkFlags
  <2>7. NetworkLinks'
    BY DEF NetworkLinks
  <2>8. NetworkBoot'
    BY DEF NetworkBoot, NetworkLinks, NetworkFlags
  <2>9. NetworkMonitor'
    BY DEF NetworkMonitor, NetworkLinks, NetworkFlags
  <2>10. SetupReachable'
    BY DEF SetupReachable, NetworkDriver, NetworkCounts, NoAddress, NetworkEvents
  <2> QED
    BY <2>1, <2>2, <2>3, <2>4, <2>5, <2>6, <2>7, <2>8, <2>9, <2>10
<1>12. CASE AppMain
  <2> USE <1>12 DEF AppMain, BootEthernet, wifi_wait_connected, BootServices, start_airplay_services, wifi_init_apsta, StartDriver, ConfigureAgain, NoWifiStep
  <2>1. NetworkAir'
    BY DEF NetworkAir
  <2>2. NetworkDriver'
    BY DEF NetworkDriver
  <2>3. NetworkEvents'
    BY DEF NetworkEvents, NetworkDriver
  <2>4. NoAddress'
    BY DEF NoAddress, NetworkEvents, NetworkDriver
  <2>5. NetworkCounts'
    BY DEF NetworkCounts
  <2>6. NetworkFlags'
    BY DEF NetworkFlags
  <2>7. NetworkLinks'
    BY DEF NetworkLinks
  <2>8. NetworkBoot'
    BY DEF NetworkBoot, NetworkLinks, NetworkFlags
  <2>9. NetworkMonitor'
    BY DEF NetworkMonitor, NetworkLinks, NetworkFlags
  <2>10. SetupReachable'
    BY DEF SetupReachable, NetworkDriver, NetworkCounts, NoAddress, NetworkEvents
  <2> QED
    BY <2>1, <2>2, <2>3, <2>4, <2>5, <2>6, <2>7, <2>8, <2>9, <2>10
<1>13. CASE UNCHANGED networkVars
  <2> USE <1>13 DEF networkVars
  <2>1. NetworkAir'
    BY DEF NetworkAir
  <2>2. NetworkDriver'
    BY DEF NetworkDriver
  <2>3. NetworkEvents'
    BY DEF NetworkEvents, NetworkDriver
  <2>4. NoAddress'
    BY DEF NoAddress, NetworkEvents, NetworkDriver
  <2>5. NetworkCounts'
    BY DEF NetworkCounts
  <2>6. NetworkFlags'
    BY DEF NetworkFlags
  <2>7. NetworkLinks'
    BY DEF NetworkLinks
  <2>8. NetworkBoot'
    BY DEF NetworkBoot, NetworkLinks, NetworkFlags
  <2>9. NetworkMonitor'
    BY DEF NetworkMonitor, NetworkLinks, NetworkFlags
  <2>10. SetupReachable'
    BY DEF SetupReachable, NetworkDriver, NetworkCounts, NoAddress, NetworkEvents
  <2> QED
    BY <2>1, <2>2, <2>3, <2>4, <2>5, <2>6, <2>7, <2>8, <2>9, <2>10
<1>14. ASSUME monitor, wifi_stop \/ wifi_init_apsta \/ NoWifiStep, wifi_started' \in BOOLEAN,
             had_eth' = s_eth_connected, had_network' = (s_eth_connected \/ s_sta_connected'),
             s_airplay_started' = (s_airplay_started \/ (had_network' /\ ~had_network)),
             UNCHANGED << ethVars, boot, eth_available, monitor >>
      PROVE  NetworkIInv'
  <2> USE <1>14 DEF wifi_stop, wifi_init_apsta, StartDriver, ConfigureAgain, NoWifiStep
  <2>1. NetworkAir'
    BY DEF NetworkAir
  <2>2. NetworkDriver'
    <3>1. CASE wifi_stop
      BY <3>1 DEF NetworkDriver
    <3>2. CASE StartDriver
      BY <3>2 DEF NetworkDriver
    <3>3. CASE ConfigureAgain
      BY <3>3 DEF NetworkDriver
    <3>4. CASE NoWifiStep
      BY <3>4 DEF NetworkDriver
    <3> QED
      BY <3>1, <3>2, <3>3, <3>4
  <2>3. NetworkEvents'
    <3>1. CASE wifi_stop
      BY <3>1 DEF NetworkEvents, NetworkDriver
    <3>2. CASE StartDriver
      BY <3>2 DEF NetworkEvents
    <3>3. CASE ConfigureAgain
      BY <3>3 DEF NetworkEvents
    <3>4. CASE NoWifiStep
      BY <3>4 DEF NetworkEvents
    <3> QED
      BY <3>1, <3>2, <3>3, <3>4
  <2>4. NoAddress'
    BY DEF NoAddress, NetworkEvents, NetworkDriver
  <2>5. NetworkCounts'
    BY DEF NetworkCounts
  <2>6. NetworkFlags'
    BY DEF NetworkFlags
  <2>7. NetworkLinks'
    BY DEF NetworkLinks
  <2>8. NetworkBoot'
    BY DEF NetworkBoot, NetworkLinks, NetworkFlags
  <2>9. NetworkMonitor'
    BY DEF NetworkMonitor, NetworkLinks, NetworkFlags
  <2>10. SetupReachable'
    <3>1. CASE wifi_stop
      BY <3>1 DEF SetupReachable
    <3>2. CASE wifi_init_apsta
      BY <3>2 DEF SetupReachable
    <3>3. CASE NoWifiStep
      BY <3>3 DEF SetupReachable
    <3> QED
      BY <3>1, <3>2, <3>3
  <2> QED
    BY <2>1, <2>2, <2>3, <2>4, <2>5, <2>6, <2>7, <2>8, <2>9, <2>10
<1>15. CASE Poll
  <2>1. CASE EthernetCame
    BY <1>14, <1>15, <2>1 DEF Poll
  <2>2. CASE ~EthernetCame /\ EthernetWent
    BY <1>14, <1>15, <2>2 DEF Poll
  <2>3. CASE ~EthernetCame /\ ~EthernetWent
    BY <1>14, <1>15, <2>3 DEF Poll, NetworkMonitor
  <2> QED
    BY <2>1, <2>2, <2>3
<1>16. CASE PollAborts
  <2> USE <1>16 DEF PollAborts, Restart
  <2>1. NetworkAir'
    BY DEF NetworkAir
  <2>2. NetworkDriver'
    BY DEF NetworkDriver
  <2>3. NetworkEvents'
    BY DEF NetworkEvents
  <2>4. NoAddress'
    BY DEF NoAddress
  <2>5. NetworkCounts'
    BY DEF NetworkCounts
  <2>6. NetworkFlags'
    BY DEF NetworkFlags
  <2>7. NetworkLinks'
    BY DEF NetworkLinks
  <2>8. NetworkBoot'
    BY DEF NetworkBoot
  <2>9. NetworkMonitor'
    BY DEF NetworkMonitor
  <2>10. SetupReachable'
    BY DEF SetupReachable
  <2> QED
    BY <2>1, <2>2, <2>3, <2>4, <2>5, <2>6, <2>7, <2>8, <2>9, <2>10
<1> QED
  BY <1>1, <1>2, <1>3, <1>4, <1>5, <1>6, <1>7, <1>8, <1>9, <1>10, <1>11, <1>12, <1>13, <1>15, <1>16 DEF NetworkNext, HandleEvent

-----------------------------------------------------------------------------
(* An RTSP connection.  What its client says is one chain of units, of     *)
(* which the buffer, the block being read and the wire hold what is not    *)
(* dispatched yet.                                                         *)
(* How many requests have been dispatched. *)
D == Len(dispatched)
(* The units of the requests R; the unit that follows another in what the  *)
(* client says, and the first after d requests.                            *)
UnitOf(R) == [request : R, unit : Nat \ {0}]
Succ(a) ==
  IF a.unit < script[a.request].size THEN [request |-> a.request, unit |-> a.unit + 1]
  ELSE [request |-> a.request + 1, unit |-> 1]
First(d) == [request |-> d + 1, unit |-> 1]
(* A sequence of units that runs on from a, and where it leads to. *)
Chain(s, a) == (s # << >> => s[1] = a) /\ \A i \in 1 .. Len(s) - 1 : s[i + 1] = Succ(s[i])
After(s, a) == IF s = << >> THEN a ELSE Succ(s[Len(s)])

(* Induction up to n, for a set of indices. *)
LEMMA UpTo ==
  ASSUME NEW n \in Nat \ {0}, NEW S, 1 \in S, \A i \in 1 .. n - 1 : i \in S => i + 1 \in S
  PROVE  1 .. n \subseteq S
<1> SUFFICES ASSUME NEW T, T = (1 .. n) \ S, T # {} PROVE FALSE
  OBVIOUS
<1> DEFINE Below(k) == 1 .. k
           B == {Below(k) : k \in T}
<1>1. B \subseteq FiniteSubsetsOf(1 .. n) /\ B # {}
  <2>1. \A k \in T : Below(k) \subseteq 1 .. n /\ IsFiniteSet(Below(k))
    BY FS_Interval
  <2> HIDE DEF Below
  <2> QED
    BY <2>1 DEF FiniteSubsetsOf
<1>2. PICK x \in B : \A y \in B : ~(<< y, x >> \in StrictSubsetOrdering(1 .. n))
  <2> HIDE DEF B
  <2> QED
    BY <1>1, FS_StrictSubsetOrderingWellFounded, WFMin
<1>3. PICK k \in T : x = Below(k)
  BY <1>2
<1>4. k \in 2 .. n /\ k - 1 \in T
  OBVIOUS
<1>5. Below(k - 1) \subseteq Below(k) /\ Below(k - 1) # Below(k) /\ Below(k) \subseteq 1 .. n
  <2>1. k \in Below(k) /\ k \notin Below(k - 1)
    BY <1>4
  <2>2. Below(k - 1) \subseteq Below(k) /\ Below(k) \subseteq 1 .. n
    BY <1>4
  <2> QED
    BY <2>1, <2>2
<1>6. << Below(k - 1), x >> \in StrictSubsetOrdering(1 .. n)
  <2> HIDE DEF Below
  <2> QED
    BY <1>3, <1>5 DEF StrictSubsetOrdering
<1> QED
  BY <1>2, <1>4, <1>6

LEMMA SuccIs ==
  ASSUME script \in Seq(Requests), NEW r \in 1 .. Len(script), NEW u \in Nat
  PROVE  /\ u < script[r].size => Succ([request |-> r, unit |-> u]) = [request |-> r, unit |-> u + 1]
         /\ u >= script[r].size => Succ([request |-> r, unit |-> u]) = First(r)
         /\ script[r].size \in Nat \ {0}
<1>1. script[r] \in Requests /\ script[r].size \in Nat \ {0}
  <2>1. script[r] \in Requests
    OBVIOUS
  <2> QED
    BY <2>1 DEF Requests
<1> DEFINE a == [request |-> r, unit |-> u]
<1>2. a.request = r /\ a.unit = u
  OBVIOUS
<1> HIDE DEF a
<1>3. Succ(a) = IF u < script[r].size THEN [request |-> r, unit |-> u + 1] ELSE First(r)
  BY <1>2 DEF Succ, First
<1> QED
  BY <1>1, <1>3 DEF a

LEMMA ChainConcat ==
  ASSUME NEW R, NEW s \in Seq(UnitOf(R)), NEW t \in Seq(UnitOf(R)), NEW a
  PROVE  /\ Chain(s \o t, a) <=> Chain(s, a) /\ Chain(t, After(s, a))
         /\ After(s \o t, a) = After(t, After(s, a))
<1> DEFINE m == Len(s)
           n == Len(t)
           u == s \o t
<1>1. m \in Nat /\ n \in Nat /\ Len(u) = m + n /\ u \in Seq(UnitOf(R))
  OBVIOUS
<1>2. /\ \A i \in 1 .. m : u[i] = s[i]
      /\ \A i \in 1 .. n : u[m + i] = t[i]
  BY <1>1
<1>3. (s = << >> <=> m = 0) /\ (t = << >> <=> n = 0) /\ (u = << >> <=> m + n = 0)
  BY <1>1
<1>4. After(u, a) = After(t, After(s, a))
  <2>1. CASE n = 0
    BY <1>1, <1>2, <1>3, <2>1 DEF After
  <2>2. CASE n > 0
    BY <1>1, <1>2, <1>3, <2>2 DEF After
  <2> QED
    BY <1>1, <2>1, <2>2
<1>5. ASSUME Chain(s, a), Chain(t, After(s, a)) PROVE Chain(u, a)
  <2> HIDE DEF u, m, n
  <2>1. ASSUME m + n > 0 PROVE u[1] = a
    <3>1. CASE m = 0
      <4>1. t[1] = a /\ u[0 + 1] = t[1]
        BY <1>1, <1>2, <1>3, <1>5, <2>1, <3>1 DEF Chain, After
      <4> QED
        BY <4>1
    <3>2. CASE m > 0
      BY <1>1, <1>2, <1>3, <1>5, <3>2 DEF Chain
    <3> QED
      BY <1>1, <3>1, <3>2
  <2>2. ASSUME NEW i \in 1 .. (m + n) - 1 PROVE u[i + 1] = Succ(u[i])
    <3>1. CASE i < m
      <4>1. s[i + 1] = Succ(s[i])
        BY <1>1, <1>5, <3>1 DEF Chain, m
      <4> QED
        BY <1>1, <1>2, <3>1, <4>1
    <3>2. CASE i = m
      <4>1. t[1] = Succ(s[m])
        BY <1>1, <1>3, <1>5, <3>2 DEF Chain, After, m
      <4>2. 1 \in 1 .. n
        BY <1>1, <3>2
      <4>3. u[m + 1] = t[1] /\ u[m] = s[m]
        BY <1>1, <1>2, <3>2, <4>2
      <4> QED
        BY <3>2, <4>1, <4>3
    <3>3. CASE i > m
      <4>1. PICK j \in 1 .. n - 1 : i = m + j
        <5>1. i - m \in 1 .. n - 1 /\ i = m + (i - m)
          BY <1>1, <3>3
        <5> QED
          BY <5>1
      <4>2. t[j + 1] = Succ(t[j])
        BY <1>1, <1>5 DEF Chain, n
      <4>3. u[m + (j + 1)] = t[j + 1] /\ u[m + j] = t[j] /\ m + (j + 1) = i + 1
        BY <1>1, <1>2, <4>1
      <4> QED
        BY <4>1, <4>2, <4>3
    <3> QED
      BY <1>1, <3>1, <3>2, <3>3
  <2> QED
    BY <1>1, <1>3, <2>1, <2>2 DEF Chain
<1>6. ASSUME Chain(u, a) PROVE Chain(s, a) /\ Chain(t, After(s, a))
  <2> HIDE DEF u
  <2>1. Chain(s, a)
    <3>1. ASSUME m > 0 PROVE s[1] = a
      BY <1>1, <1>2, <1>3, <1>6, <3>1 DEF Chain
    <3>2. ASSUME NEW i \in 1 .. m - 1 PROVE s[i + 1] = Succ(s[i])
      <4>1. u[i + 1] = Succ(u[i])
        BY <1>1, <1>6 DEF Chain
      <4> QED
        BY <1>1, <1>2, <4>1
    <3> QED
      BY <1>1, <1>3, <3>1, <3>2 DEF Chain
  <2>2. Chain(t, After(s, a))
    <3>1. ASSUME n > 0 PROVE t[1] = After(s, a)
      <4>1. u[m + 1] = t[1]
        BY <1>1, <1>2, <3>1
      <4>2. CASE m = 0
        BY <1>1, <1>3, <1>6, <3>1, <4>1, <4>2 DEF Chain, After
      <4>3. CASE m > 0
        <5>1. u[m + 1] = Succ(u[m])
          BY <1>1, <1>6, <3>1, <4>3 DEF Chain
        <5> QED
          BY <1>1, <1>2, <1>3, <4>1, <4>3, <5>1 DEF After
      <4> QED
        BY <1>1, <4>2, <4>3
    <3>2. ASSUME NEW j \in 1 .. n - 1 PROVE t[j + 1] = Succ(t[j])
      <4>1. u[(m + j) + 1] = Succ(u[m + j])
        BY <1>1, <1>6 DEF Chain
      <4>2. u[m + (j + 1)] = t[j + 1] /\ u[m + j] = t[j] /\ m + (j + 1) = (m + j) + 1
        BY <1>1, <1>2
      <4> QED
        BY <4>1, <4>2
    <3> QED
      BY <1>1, <1>3, <3>1, <3>2 DEF Chain
  <2> QED
    BY <2>1, <2>2
<1> QED
  BY <1>4, <1>5, <1>6

(* The units of a request lead from its first to the next one's. *)
LEMMA ChainUnits ==
  ASSUME script \in Seq(Requests), NEW d \in Nat, d + 1 <= Len(script)
  PROVE  /\ Units(d + 1) \in Seq(UnitOf(1 .. d + 1)) /\ Len(Units(d + 1)) = script[d + 1].size
         /\ Units(d + 1) # << >>
         /\ Chain(Units(d + 1), First(d)) /\ After(Units(d + 1), First(d)) = First(d + 1)
<1> DEFINE n == script[d + 1].size
           U == Units(d + 1)
<1>1. n \in Nat \ {0} /\ d + 1 \in 1 .. Len(script)
  <2>1. d + 1 \in 1 .. Len(script) /\ 0 \in Nat
    OBVIOUS
  <2> QED
    BY <2>1, SuccIs
<1>2. U = [i \in 1 .. n |-> [request |-> d + 1, unit |-> i]]
  BY DEF Units
<1>3. U \in Seq(UnitOf(1 .. d + 1)) /\ Len(U) = n /\ U # << >>
  <2>1. \A i \in 1 .. n : [request |-> d + 1, unit |-> i] \in UnitOf(1 .. d + 1)
    BY <1>1 DEF UnitOf
  <2> HIDE DEF U, n
  <2> QED
    BY <1>1, <1>2, <2>1
<1> HIDE DEF U
<1>4. Chain(U, First(d))
  <2>1. U[1] = First(d)
    BY <1>1, <1>2 DEF First
  <2>2. ASSUME NEW i \in 1 .. n - 1 PROVE U[i + 1] = Succ(U[i])
    <3>1. i < script[d + 1].size /\ i \in Nat
      BY <1>1
    <3> HIDE DEF n
    <3> QED
      BY <1>1, <1>2, <3>1, SuccIs
  <2> QED
    BY <1>3, <2>1, <2>2 DEF Chain
<1>5. After(U, First(d)) = First(d + 1)
  <2>1. U[n] = [request |-> d + 1, unit |-> n]
    BY <1>1, <1>2
  <2>2. Succ(U[n]) = First(d + 1)
    <3>1. n \in Nat /\ n >= script[d + 1].size
      BY <1>1
    <3> HIDE DEF n
    <3>2. Succ([request |-> d + 1, unit |-> n]) = First(d + 1)
      BY <1>1, <3>1, SuccIs
    <3> QED
      BY <2>1, <3>2
  <2> HIDE DEF n
  <2> QED
    BY <1>1, <1>3, <2>2 DEF After
<1> QED
  BY <1>3, <1>4, <1>5 DEF U

LEMMA SplitAt ==
  ASSUME NEW S, NEW s \in Seq(S), NEW n \in 0 .. Len(s)
  PROVE  /\ s = SubSeq(s, 1, n) \o SubSeq(s, n + 1, Len(s))
         /\ SubSeq(s, 1, n) \in Seq(S) /\ Len(SubSeq(s, 1, n)) = n
         /\ \A i \in 1 .. n : SubSeq(s, 1, n)[i] = s[i]
         /\ SubSeq(s, n + 1, Len(s)) \in Seq(S) /\ Len(SubSeq(s, n + 1, Len(s))) = Len(s) - n
         /\ \A i \in 1 .. Len(s) - n : SubSeq(s, n + 1, Len(s))[i] = s[n + i]
<1>1. n \in Nat /\ Len(s) \in Nat /\ n <= Len(s) /\ \A i \in 1 .. Len(s) : s[i] \in S
  OBVIOUS
<1>2. /\ SubSeq(s, 1, n) \in Seq(S) /\ Len(SubSeq(s, 1, n)) = n
      /\ \A i \in 1 .. n : SubSeq(s, 1, n)[i] = s[i]
  OBVIOUS
<1>3. /\ SubSeq(s, n + 1, Len(s)) \in Seq(S) /\ Len(SubSeq(s, n + 1, Len(s))) = Len(s) - n
      /\ \A i \in 1 .. Len(s) - n : SubSeq(s, n + 1, Len(s))[i] = s[n + i]
  OBVIOUS
<1> DEFINE p == SubSeq(s, 1, n)
           q == SubSeq(s, n + 1, Len(s))
<1> HIDE DEF p, q
<1>4. /\ p \o q \in Seq(S) /\ Len(p \o q) = Len(s)
      /\ \A i \in 1 .. n : (p \o q)[i] = p[i]
      /\ \A i \in n + 1 .. Len(s) : (p \o q)[i] = q[i - n]
  <2>1. p \in Seq(S) /\ q \in Seq(S) /\ Len(p) = n /\ Len(q) = Len(s) - n
    BY <1>2, <1>3 DEF p, q
  <2> QED
    BY <1>1, <2>1, ConcatProperties
<1>5. ASSUME NEW i \in 1 .. Len(s) PROVE (p \o q)[i] = s[i]
  <2>1. CASE i <= n
    BY <1>1, <1>2, <1>4, <2>1 DEF p
  <2>2. CASE i > n
    <3>1. i - n \in 1 .. Len(s) - n /\ n + (i - n) = i /\ i \in n + 1 .. Len(s)
      BY <1>1, <2>2
    <3>2. q[i - n] = s[n + (i - n)]
      BY <1>3, <3>1 DEF q
    <3> QED
      BY <1>4, <3>1, <3>2
  <2>3. i <= n \/ i > n
    BY <1>1
  <2> QED
    BY <2>1, <2>2, <2>3
<1>6. p \o q = s
  BY <1>4, <1>5, SeqEqual
<1> QED
  BY <1>2, <1>3, <1>6 DEF p, q

(* A buffer that holds a request in full starts with its units. *)
LEMMA ChainHead ==
  ASSUME script \in Seq(Requests), NEW d \in Nat, d + 1 <= Len(script),
         NEW R, NEW s \in Seq(UnitOf(R)), Chain(s, First(d)), script[d + 1].size <= Len(s)
  PROVE  LET rest == SubSeq(s, script[d + 1].size + 1, Len(s))
         IN  /\ Chain(rest, First(d + 1)) /\ After(rest, First(d + 1)) = After(s, First(d))
             /\ rest \in Seq(UnitOf(R)) /\ Len(rest) <= Len(s)
<1> DEFINE n == script[d + 1].size
           rest == SubSeq(s, n + 1, Len(s))
           good == {i \in 1 .. n : s[i] = [request |-> d + 1, unit |-> i]}
<1>1. n \in Nat \ {0} /\ d + 1 \in 1 .. Len(script)
  <2>1. d + 1 \in 1 .. Len(script) /\ 0 \in Nat
    OBVIOUS
  <2> QED
    BY <2>1, SuccIs
<1>2. 1 \in good
  BY <1>1 DEF Chain, First
<1>3. ASSUME NEW i \in 1 .. n - 1, i \in good PROVE i + 1 \in good
  <2>1. s[i + 1] = Succ(s[i])
    BY <1>1 DEF Chain
  <2>2. i \in Nat /\ i < script[d + 1].size
    BY <1>1
  <2>3. Succ([request |-> d + 1, unit |-> i]) = [request |-> d + 1, unit |-> i + 1]
    BY <1>1, <2>2, SuccIs
  <2> QED
    BY <1>1, <1>3, <2>1, <2>3
<1>4. 1 .. n \subseteq good
  <2>1. \A i \in 1 .. n - 1 : i \in good => i + 1 \in good
    BY <1>3
  <2> HIDE DEF good
  <2> QED
    BY <1>1, <1>2, <2>1, UpTo
<1>5. /\ Units(d + 1) \in Seq(UnitOf(1 .. d + 1)) /\ Len(Units(d + 1)) = n
      /\ Chain(Units(d + 1), First(d)) /\ After(Units(d + 1), First(d)) = First(d + 1)
  BY ChainUnits
<1>6. SubSeq(s, 1, n) = Units(d + 1)
  <2>1. \A i \in 1 .. n : Units(d + 1)[i] = [request |-> d + 1, unit |-> i]
    BY DEF Units
  <2>2. \A i \in 1 .. n : s[i] = [request |-> d + 1, unit |-> i]
    BY <1>4
  <2>3. SubSeq(s, 1, n) \in Seq(UnitOf(R)) /\ Len(SubSeq(s, 1, n)) = n
        /\ \A i \in 1 .. n : SubSeq(s, 1, n)[i] = s[i]
    <3>1. n \in Int /\ n >= 1 /\ \A i \in 1 .. n : s[i] \in UnitOf(R)
      BY <1>1
    <3> HIDE DEF n
    <3> QED
      BY <3>1, SubSeqProperties
  <2> HIDE DEF n
  <2> QED
    <3>1. /\ SubSeq(s, 1, n) \in [1 .. n -> UnitOf(R)]
          /\ Units(d + 1) \in [1 .. n -> UnitOf(1 .. d + 1)]
      BY <1>5, <2>3, LenProperties
    <3>2. \A i \in 1 .. n : SubSeq(s, 1, n)[i] = Units(d + 1)[i]
      BY <2>1, <2>2, <2>3
    <3> DEFINE f == SubSeq(s, 1, n)
               g == Units(d + 1)
    <3> HIDE DEF n, f, g
    <3>3. f \in [1 .. n -> UnitOf(R)] /\ g \in [1 .. n -> UnitOf(1 .. d + 1)]
          /\ \A i \in 1 .. n : f[i] = g[i]
      BY <3>1, <3>2, Zenon DEF f, g
    <3>4. f = g
      BY <1>1, <3>3
    <3> QED
      BY <3>4, Zenon DEF f, g
<1>7. s = SubSeq(s, 1, n) \o rest /\ rest \in Seq(UnitOf(R)) /\ Len(rest) <= Len(s)
      /\ SubSeq(s, 1, n) \in Seq(UnitOf(R))
  <2>1. n \in 0 .. Len(s) /\ Len(s) \in Nat
    BY <1>1
  <2> HIDE DEF n
  <2>2. /\ s = SubSeq(s, 1, n) \o SubSeq(s, n + 1, Len(s))
        /\ SubSeq(s, 1, n) \in Seq(UnitOf(R)) /\ SubSeq(s, n + 1, Len(s)) \in Seq(UnitOf(R))
        /\ Len(SubSeq(s, n + 1, Len(s))) = Len(s) - n
    BY <2>1, SplitAt
  <2>3. Len(s) - n <= Len(s)
    BY <2>1
  <2> QED
    BY <2>2, <2>3, Zenon
<1> HIDE DEF rest, n, good
<1>8. /\ Chain(s, First(d)) <=>
           Chain(SubSeq(s, 1, n), First(d)) /\ Chain(rest, After(SubSeq(s, 1, n), First(d)))
      /\ After(s, First(d)) = After(rest, After(SubSeq(s, 1, n), First(d)))
  <2>1. SubSeq(s, 1, n) \in Seq(UnitOf(R)) /\ rest \in Seq(UnitOf(R))
    BY <1>7
  <2>2. s = SubSeq(s, 1, n) \o rest
    BY <1>7
  <2> DEFINE p == SubSeq(s, 1, n)
  <2> HIDE DEF p
  <2>3. /\ Chain(p \o rest, First(d)) <=> Chain(p, First(d)) /\ Chain(rest, After(p, First(d)))
        /\ After(p \o rest, First(d)) = After(rest, After(p, First(d)))
    <3>1. p \in Seq(UnitOf(R)) /\ rest \in Seq(UnitOf(R))
      BY <2>1 DEF p
    <3> QED
      BY <3>1, ChainConcat
  <2>4. s = p \o rest
    BY <2>2 DEF p
  <2>5. /\ Chain(s, First(d)) <=> Chain(p, First(d)) /\ Chain(rest, After(p, First(d)))
        /\ After(s, First(d)) = After(rest, After(p, First(d)))
    BY <2>3, <2>4, Zenon
  <2> QED
    BY <2>5, Zenon DEF p
<1>9. Chain(rest, First(d + 1)) /\ After(rest, First(d + 1)) = After(s, First(d))
  BY <1>5, <1>6, <1>8
<1> QED
  BY <1>7, <1>9 DEF rest, n

(* What follows a unit is of no earlier request. *)
LEMMA SuccAbove ==
  ASSUME NEW R, R \subseteq Nat, NEW x \in UnitOf(R)
  PROVE  Succ(x).request \in Nat /\ Succ(x).request >= x.request
<1>1. x.request \in Nat
  BY DEF UnitOf
<1> QED
  BY <1>1 DEF Succ

LEMMA ChainAbove ==
  ASSUME NEW R, R \subseteq Nat, NEW s \in Seq(UnitOf(R)), NEW a, a.request \in Nat, Chain(s, a)
  PROVE  /\ \A i \in 1 .. Len(s) : s[i].request >= a.request
         /\ After(s, a).request \in Nat /\ After(s, a).request >= a.request
<1> DEFINE n == Len(s)
           good == {i \in 1 .. n : s[i].request >= a.request}
<1>1. CASE n = 0
  BY <1>1 DEF After
<1>2. CASE n > 0
  <2>1. n \in Nat \ {0} /\ \A i \in 1 .. n : s[i] \in UnitOf(R) /\ s[i].request \in Nat
    <3>1. n \in Nat \ {0} /\ \A i \in 1 .. n : s[i] \in UnitOf(R)
      BY <1>2
    <3> QED
      BY <3>1 DEF UnitOf
  <2>2. 1 \in good
    BY <2>1 DEF Chain
  <2>3. ASSUME NEW i \in 1 .. n - 1, i \in good PROVE i + 1 \in good
    <3>1. s[i + 1] = Succ(s[i]) /\ i \in 1 .. n /\ i + 1 \in 1 .. n
      BY <2>1 DEF Chain
    <3>2. Succ(s[i]).request >= s[i].request
      BY <2>1, <3>1, SuccAbove
    <3> QED
      BY <2>1, <2>3, <3>1, <3>2
  <2>4. 1 .. n \subseteq good
    <3>1. \A i \in 1 .. n - 1 : i \in good => i + 1 \in good
      BY <2>3
    <3> HIDE DEF good, n
    <3> QED
      BY <2>1, <2>2, <3>1, UpTo
  <2>5. s[n] \in UnitOf(R) /\ s[n].request \in Nat /\ s[n].request >= a.request /\ s # << >>
    BY <2>1, <2>4
  <2>6. After(s, a) = Succ(s[n])
    BY <2>5 DEF After
  <2>7. Succ(s[n]).request \in Nat /\ Succ(s[n]).request >= s[n].request
    BY <2>5, SuccAbove
  <2> QED
    BY <2>4, <2>5, <2>6, <2>7
<1> QED
  BY <1>1, <1>2

(* The pieces of a sequence of blocks. *)
PieceSet(S) == [block : S, piece : 1 .. 3]

LEMMA PiecesAre ==
  ASSUME NEW S, NEW b \in Seq(S)
  PROVE  /\ Pieces(b) \in Seq(PieceSet(S)) /\ Len(Pieces(b)) = 3 * Len(b)
         /\ \A i \in 1 .. 3 * Len(b) :
              /\ (i + 2) \div 3 \in 1 .. Len(b)
              /\ Pieces(b)[i] = [block |-> b[(i + 2) \div 3], piece |-> ((i - 1) % 3) + 1]
<1>1. Len(b) \in Nat
  OBVIOUS
<1>2. ASSUME NEW i \in 1 .. 3 * Len(b)
      PROVE  (i + 2) \div 3 \in 1 .. Len(b) /\ ((i - 1) % 3) + 1 \in 1 .. 3
  BY <1>1
<1>3. ASSUME NEW i \in 1 .. 3 * Len(b)
      PROVE  [block |-> b[(i + 2) \div 3], piece |-> ((i - 1) % 3) + 1] \in PieceSet(S)
  <2>1. b[(i + 2) \div 3] \in S
    BY <1>2
  <2> QED
    BY <1>2, <2>1 DEF PieceSet
<1>4. 3 * Len(b) \in Nat
  BY <1>1
<1> DEFINE n == 3 * Len(b)
           p(i) == [block |-> b[(i + 2) \div 3], piece |-> ((i - 1) % 3) + 1]
<1>5. Pieces(b) = [i \in 1 .. n |-> p(i)]
  BY DEF Pieces
<1>6. n \in Nat /\ \A i \in 1 .. n : p(i) \in PieceSet(S)
  BY <1>3, <1>4
<1> HIDE DEF n, p
<1>7. Pieces(b) \in Seq(PieceSet(S)) /\ Len(Pieces(b)) = n /\ \A i \in 1 .. n : Pieces(b)[i] = p(i)
  BY <1>5, <1>6
<1> QED
  BY <1>2, <1>7 DEF n, p

LEMMA LenIs ==
  ASSUME NEW S, NEW s \in Seq(S)
  PROVE  Len(s) \in Nat /\ (s = << >> <=> Len(s) = 0)
BY EmptySeq

LEMMA ConcatIs ==
  ASSUME NEW S, NEW s \in Seq(S), NEW t \in Seq(S), NEW m, NEW n, Len(s) = m, Len(t) = n
  PROVE  /\ s \o t \in Seq(S) /\ Len(s \o t) = m + n
         /\ \A i \in 1 .. m + n : (s \o t)[i] = IF i <= m THEN s[i] ELSE t[i - m]
BY ConcatProperties

LEMMA PiecesConcat ==
  ASSUME NEW S, NEW b \in Seq(S), NEW c \in Seq(S)
  PROVE  Pieces(b \o c) = Pieces(b) \o Pieces(c)
<1> DEFINE m == Len(b)
           n == Len(c)
           d == b \o c
           p == Pieces(b)
           q == Pieces(c)
           r == Pieces(d)
<1>1. m \in Nat /\ n \in Nat
  OBVIOUS
<1>2. /\ d \in Seq(S) /\ Len(d) = m + n /\ \A i \in 1 .. m + n : d[i] = IF i <= m THEN b[i] ELSE c[i - m]
  BY ConcatProperties
<1>3. /\ p \in Seq(PieceSet(S)) /\ Len(p) = 3 * m
      /\ \A i \in 1 .. 3 * m : /\ (i + 2) \div 3 \in 1 .. m
              /\ p[i] = [block |-> b[(i + 2) \div 3], piece |-> ((i - 1) % 3) + 1]
  BY PiecesAre
<1>4. /\ q \in Seq(PieceSet(S)) /\ Len(q) = 3 * n
      /\ \A i \in 1 .. 3 * n : /\ (i + 2) \div 3 \in 1 .. n
              /\ q[i] = [block |-> c[(i + 2) \div 3], piece |-> ((i - 1) % 3) + 1]
  BY PiecesAre
<1> HIDE DEF p, q, d
<1>5. /\ r \in Seq(PieceSet(S)) /\ Len(r) = 3 * (m + n)
      /\ \A i \in 1 .. 3 * (m + n) : /\ (i + 2) \div 3 \in 1 .. m + n
              /\ r[i] = [block |-> d[(i + 2) \div 3], piece |-> ((i - 1) % 3) + 1]
  BY <1>2, PiecesAre
<1> HIDE DEF r, m, n
<1>6. /\ p \o q \in Seq(PieceSet(S)) /\ Len(p \o q) = 3 * m + 3 * n
      /\ \A i \in 1 .. 3 * m + 3 * n : (p \o q)[i] = IF i <= 3 * m THEN p[i] ELSE q[i - 3 * m]
  <2>1. p \in Seq(PieceSet(S)) /\ q \in Seq(PieceSet(S)) /\ Len(p) = 3 * m /\ Len(q) = 3 * n
    BY <1>3, <1>4
  <2> DEFINE k == 3 * m
             l == 3 * n
  <2>2. p \in Seq(PieceSet(S)) /\ q \in Seq(PieceSet(S)) /\ Len(p) = k /\ Len(q) = l
    BY <2>1
  <2> HIDE DEF k, l
  <2>3. /\ p \o q \in Seq(PieceSet(S)) /\ Len(p \o q) = k + l
        /\ \A i \in 1 .. k + l : (p \o q)[i] = IF i <= k THEN p[i] ELSE q[i - k]
    BY <2>2, ConcatIs
  <2> QED
    BY <2>3, Zenon DEF k, l
<1>7. ASSUME NEW i \in 1 .. 3 * (m + n) PROVE r[i] = (p \o q)[i]
  <2>0. i \in 1 .. 3 * m + 3 * n
    BY <1>1
  <2>1. CASE i <= 3 * m
    <3>1. i \in 1 .. 3 * m /\ (i + 2) \div 3 <= m
      BY <1>1, <2>1
    <3>2. d[(i + 2) \div 3] = b[(i + 2) \div 3]
      BY <1>2, <1>5, <3>1
    <3> QED
      BY <1>3, <1>5, <1>6, <2>0, <2>1, <3>1, <3>2
  <2>2. CASE i > 3 * m
    <3> DEFINE j == i - 3 * m
    <3>1. /\ j \in 1 .. 3 * n /\ (i + 2) \div 3 = m + (j + 2) \div 3 /\ (i - 1) % 3 = (j - 1) % 3
          /\ (i + 2) \div 3 > m /\ (i + 2) \div 3 - m = (j + 2) \div 3
      BY <1>1, <2>2
    <3> DEFINE k == (i + 2) \div 3
    <3>2. d[k] = c[(j + 2) \div 3]
      <4>1. k \in 1 .. m + n /\ k > m /\ k - m = (j + 2) \div 3
        BY <1>5, <3>1
      <4> HIDE DEF k, j
      <4> QED
        BY <1>1, <1>2, <4>1
    <3>3. q[j] = [block |-> c[(j + 2) \div 3], piece |-> ((j - 1) % 3) + 1]
      BY <1>4, <3>1
    <3>4. (p \o q)[i] = q[j]
      BY <1>1, <1>6, <2>0, <2>2
    <3>5. r[i] = [block |-> d[(i + 2) \div 3], piece |-> ((i - 1) % 3) + 1]
      BY <1>5
    <3> HIDE DEF j
    <3> QED
      BY <3>1, <3>2, <3>3, <3>4, <3>5
  <2>3. i <= 3 * m \/ i > 3 * m
    BY <1>1
  <2> QED
    BY <2>1, <2>2, <2>3
<1>8. Len(r) = Len(p \o q)
  BY <1>1, <1>5, <1>6
<1>9. r = p \o q
  BY <1>5, <1>6, <1>7, <1>8, SeqEqual
<1> QED
  BY <1>9 DEF p, q, r, d

(* The block that is being read, and those that follow it. *)
(* The pieces read are those of the first block. *)
FirstOf(S, b, r, w) ==
  /\ b # << >> /\ Len(b) \in Nat \ {0} /\ b[1] \in S
  /\ \A i \in 1 .. Len(r) : r[i] = [block |-> b[1], piece |-> i]
  /\ Len(r) = 3 => w = Pieces(Tail(b))

LEMMA PiecesHead ==
  ASSUME NEW S, NEW b \in Seq(S), NEW I, NEW r \in Seq(I), NEW w \in Seq(I),
         r \o w = Pieces(b), r # << >>, Len(r) <= 3
  PROVE  FirstOf(S, b, r, w)
<1> DEFINE u == r \o w
<1>1. /\ Len(u) = Len(r) + Len(w) /\ Len(r) \in 1 .. 3 /\ Len(w) \in Nat
      /\ \A i \in 1 .. Len(r) + Len(w) : u[i] = IF i <= Len(r) THEN r[i] ELSE w[i - Len(r)]
  <2>1. Len(r) \in Nat /\ Len(w) \in Nat /\ (r = << >> <=> Len(r) = 0)
    BY LenIs, Zenon
  <2>2. Len(r) \in 1 .. 3
    <3> DEFINE k == Len(r)
    <3>1. k \in Nat /\ k # 0 /\ k <= 3
      BY <2>1
    <3> HIDE DEF k
    <3>2. k \in 1 .. 3
      BY <3>1
    <3> QED
      BY <3>2 DEF k
  <2>3. /\ Len(u) = Len(r) + Len(w)
        /\ \A i \in 1 .. Len(r) + Len(w) : u[i] = IF i <= Len(r) THEN r[i] ELSE w[i - Len(r)]
    BY ConcatProperties, Zenon
  <2> QED
    BY <2>1, <2>2, <2>3, Zenon
<1>2. /\ u \in Seq(PieceSet(S)) /\ Len(u) = 3 * Len(b)
      /\ \A i \in 1 .. 3 * Len(b) : u[i] = [block |-> b[(i + 2) \div 3], piece |-> ((i - 1) % 3) + 1]
  BY PiecesAre
<1>3. Len(b) \in Nat
  OBVIOUS
<1> HIDE DEF u
<1>4. Len(b) \in Nat \ {0} /\ b # << >>
  BY <1>1, <1>2, <1>3
<1>5. b[1] \in S
  BY <1>4
<1>6. ASSUME NEW i \in 1 .. Len(r) PROVE r[i] = [block |-> b[1], piece |-> i]
  <2>1. i \in 1 .. 3 * Len(b) /\ (i + 2) \div 3 = 1 /\ ((i - 1) % 3) + 1 = i
    BY <1>1, <1>4
  <2>2. r[i] = u[i]
    BY <1>1
  <2> QED
    BY <1>2, <2>1, <2>2
<1>7. ASSUME Len(r) = 3 PROVE w = Pieces(Tail(b))
  <2> DEFINE c == Tail(b)
             q == Pieces(c)
  <2>1. c \in Seq(S) /\ Len(c) = Len(b) - 1 /\ \A i \in 1 .. Len(c) : c[i] = b[i + 1]
    BY <1>4, HeadTailProperties
  <2> HIDE DEF c
  <2>2. /\ q \in Seq(PieceSet(S)) /\ Len(q) = 3 * Len(c)
        /\ \A i \in 1 .. 3 * Len(c) :
             (i + 2) \div 3 \in 1 .. Len(c)
             /\ q[i] = [block |-> c[(i + 2) \div 3], piece |-> ((i - 1) % 3) + 1]
    BY <2>1, PiecesAre
  <2> HIDE DEF q
  <2>3. Len(w) = 3 * Len(c) /\ Len(c) \in Nat
    <3>1. Len(c) \in Nat
      BY <2>1
    <3> QED
      BY <1>1, <1>2, <1>3, <1>7, <2>1, <3>1
  <2>4. ASSUME NEW i \in 1 .. 3 * Len(c) PROVE w[i] = q[i]
    <3>1. /\ i + 3 \in 1 .. 3 * Len(b) /\ ((i + 3) + 2) \div 3 = (i + 2) \div 3 + 1
          /\ ((i + 3) - 1) % 3 = (i - 1) % 3
      <4>1. i \in Nat \ {0} /\ i + 3 \in 1 .. 3 * Len(b)
        BY <1>3, <1>4, <2>1
      <4>2. ((i + 3) + 2) \div 3 = (i + 2) \div 3 + 1 /\ ((i + 3) - 1) % 3 = (i - 1) % 3
        BY <4>1
      <4> QED
        BY <4>1, <4>2
    <3>2. u[i + 3] = w[i]
      <4>1. i + 3 \in 1 .. 3 + Len(w) /\ ~(i + 3 <= 3) /\ (i + 3) - 3 = i
        BY <2>3
      <4>2. u[i + 3] = IF i + 3 <= 3 THEN r[i + 3] ELSE w[(i + 3) - 3]
        BY <1>1, <1>7, <4>1
      <4> QED
        BY <4>1, <4>2, Zenon
    <3>3. c[(i + 2) \div 3] = b[(i + 2) \div 3 + 1]
      BY <2>1, <2>2
    <3> QED
      BY <1>2, <2>2, <3>1, <3>2, <3>3
  <2>5. w \in [1 .. 3 * Len(c) -> I] /\ q \in [1 .. 3 * Len(c) -> PieceSet(S)] /\ 3 * Len(c) \in Nat
    BY <2>1, <2>2, <2>3, LenProperties
  <2>6. w = q
    BY <2>4, <2>5
  <2> QED
    BY <2>6 DEF q, c
<1> QED
  BY <1>4, <1>5, <1>6, <1>7 DEF FirstOf

(* The types of what the pairing requests change. *)
Keys ==
  {NoKey} \union ({"Control-Read-Encryption-Key", "Control-Write-Encryption-Key",
                   "Pair-Verify-Encrypt", "Pair-Verify-AES"} \X (Nat \union {Curve}))
Counters == [key : Keys, nonce : Nat]
Ends == [encrypted : BOOLEAN, tx : Counters, rx : Counters]
Sessions == [setup : {0, 2, 4}, verify : {0, 2, 4}, transient : BOOLEAN, srp : Nat,
             verified : BOOLEAN, established : BOOLEAN]
Answers == [to : Nat, ok : BOOLEAN, proof : Nat, frames : Seq(Counters)]

LEMMA KeysAre ==
  ASSUME NEW s \in Nat \union {Curve}
  PROVE  /\ ReadKey(s) \in Keys /\ WriteKey(s) \in Keys /\ VerifyKey(s) \in Keys
         /\ RawKey(s) \in Keys /\ NoKey \in Keys
BY DEF Keys, ReadKey, WriteKey, VerifyKey, RawKey

LEMMA CounterIs ==
  ASSUME NEW k \in Keys
  PROVE  Counter(k) \in Counters /\ Counter(k).key = k /\ Counter(k).nonce = 0
BY DEF Counter, Counters

LEMMA FramesAre ==
  ASSUME NEW c \in Counters, NEW n \in Nat
  PROVE  /\ Frames(c, n) \in Seq(Counters) /\ Len(Frames(c, n)) = n
         /\ \A i \in 1 .. n : Frames(c, n)[i] = [key |-> c.key, nonce |-> c.nonce + i - 1]
<1> DEFINE e(i) == [key |-> c.key, nonce |-> c.nonce + i - 1]
<1>1. \A i \in 1 .. n : e(i) \in Counters
  BY DEF Counters
<1>2. Frames(c, n) = [i \in 1 .. n |-> e(i)]
  BY DEF Frames
<1> HIDE DEF e
<1>3. Frames(c, n) \in Seq(Counters) /\ Len(Frames(c, n)) = n /\ \A i \in 1 .. n : Frames(c, n)[i] = e(i)
  BY <1>1, <1>2
<1> QED
  BY <1>3 DEF e

(* An answer goes out in frames if the channel is encrypted. *)
LEMMA RespondIs ==
  ASSUME NEW c \in Ends, NEW r \in Nat, NEW ok \in BOOLEAN, NEW proof \in Nat, script[r].answer \in Nat
  PROVE  LET n == IF c.encrypted THEN script[r].answer ELSE 0
             out == Respond(c, r, ok, proof)
         IN  /\ n \in Nat
             /\ out.answer = [to |-> r, ok |-> ok, proof |-> proof, frames |-> Frames(c.tx, n)]
             /\ out.answer \in Answers
             /\ out.channel \in Ends /\ out.channel.encrypted = c.encrypted
             /\ out.channel.rx = c.rx /\ out.channel.tx.key = c.tx.key
             /\ out.channel.tx.nonce = c.tx.nonce + n
<1> DEFINE n == IF c.encrypted THEN script[r].answer ELSE 0
           out == Respond(c, r, ok, proof)
<1>1. n \in Nat
  OBVIOUS
<1>2. out.answer = [to |-> r, ok |-> ok, proof |-> proof, frames |-> Frames(c.tx, n)]
      /\ out.channel = [c EXCEPT !.tx.nonce = @ + n]
  BY DEF Respond
<1>3. c.tx \in Counters /\ c.rx \in Counters /\ c.encrypted \in BOOLEAN
  BY DEF Ends
<1> HIDE DEF n, out
<1>4. Frames(c.tx, n) \in Seq(Counters)
  BY <1>1, <1>3, FramesAre
<1>5. out.answer \in Answers
  BY <1>2, <1>4 DEF Answers
<1>6. /\ out.channel \in Ends /\ out.channel.encrypted = c.encrypted
      /\ out.channel.rx = c.rx /\ out.channel.tx.key = c.tx.key
      /\ out.channel.tx.nonce = c.tx.nonce + n
  BY <1>1, <1>2, <1>3 DEF Ends, Counters
<1> QED
  BY <1>1, <1>2, <1>5, <1>6 DEF n, out

LEMMA KeyedIs ==
  ASSUME NEW c \in Ends, NEW s \in Nat \union {Curve}
  PROVE  /\ Keyed(c, s) \in Ends /\ Keyed(c, s).encrypted = c.encrypted
         /\ Keyed(c, s).tx = Counter(ReadKey(s)) /\ Keyed(c, s).rx = Counter(WriteKey(s))
<1>1. Counter(ReadKey(s)) \in Counters /\ Counter(WriteKey(s)) \in Counters
  BY KeysAre, CounterIs
<1> QED
  BY <1>1 DEF Keyed, Ends

LEMMA RequestIs ==
  ASSUME script \in Seq(Requests), NEW r \in 1 .. Len(script)
  PROVE  /\ script[r] \in Requests /\ script[r].size \in Nat \ {0} /\ script[r].answer \in Nat \ {0}
         /\ script[r].good \in BOOLEAN /\ script[r].transient \in BOOLEAN /\ r \in Nat
         /\ script[r].do \in Pairing \union {"other"}
<1>1. script[r] \in Requests /\ r \in Nat
  OBVIOUS
<1> QED
  BY <1>1 DEF Requests

LEMMA PairSetupM1Is ==
  ASSUME NEW r, script[r].transient \in BOOLEAN, NEW h \in Sessions
  PROVE  PairSetupM1(h, r) \in Sessions /\ PairSetupM1(h, r).transient = script[r].transient
<1>1. h.srp + 1 \in Nat
  BY DEF Sessions
<1> DEFINE x == h.srp + 1
<1> HIDE DEF x
<1>2. PairSetupM1(h, r) =
        [h EXCEPT !.setup = 2, !.transient = script[r].transient, !.srp = x, !.verified = FALSE]
  BY DEF PairSetupM1, x
<1>3. x \in Nat
  BY <1>1 DEF x
<1> QED
  BY <1>2, <1>3 DEF Sessions

LEMMA PairSetupIs ==
  ASSUME script \in Seq(Requests), NEW r \in 1 .. Len(script), NEW c \in Ends, NEW h \in Sessions
  PROVE  LET out == PairSetup(c, h, r)
             proved == script[r].do = "setup3" /\ Proves(h, r)
         IN  /\ out.channel \in Ends /\ out.hap \in Sessions /\ out.answer \in Answers
             /\ out.answer.to = r
             /\ ~c.encrypted /\ c.tx.nonce = 0 /\ c.rx.nonce = 0 =>
                  /\ out.answer.frames = << >> /\ out.channel.encrypted = proved
                  /\ out.channel.tx.nonce = 0 /\ out.channel.rx.nonce = 0
                  /\ script[r].do = "setup3" => out.answer.ok = proved
                  /\ proved => /\ out.channel.tx = Counter(ReadKey(out.answer.proof))
                               /\ out.channel.rx = Counter(WriteKey(out.answer.proof))
             /\ script[r].do = "setup1" => out.hap.transient = script[r].transient
<1> DEFINE do == script[r].do
           proved == do = "setup3" /\ Proves(h, r)
           keyed == IF proved /\ h.transient THEN Keyed(c, h.srp)
                    ELSE IF do = "setup5" /\ h.verified
                      THEN [c EXCEPT !.tx.nonce = 0, !.rx.nonce = 0]
                    ELSE c
           h2 == IF do = "setup1" THEN PairSetupM1(h, r)
                 ELSE IF proved
                   THEN [h EXCEPT !.setup = 4, !.verified = TRUE, !.established = @ \/ h.transient]
                 ELSE h
           ok == do = "setup1" \/ proved
           reply == Respond(keyed, r, ok, h.srp)
           on == h2.setup = 4 /\ h2.established /\ proved
           out == PairSetup(c, h, r)
<1>1. /\ out.hap = h2 /\ out.answer = reply.answer
      /\ out.channel = [reply.channel EXCEPT !.encrypted = @ \/ on]
  BY DEF PairSetup
<1>2. /\ script[r].answer \in Nat /\ script[r].transient \in BOOLEAN /\ r \in Nat
      /\ script[r].good \in BOOLEAN
  BY RequestIs
<1>3. /\ h.srp \in Nat /\ h.transient \in BOOLEAN /\ h.established \in BOOLEAN
      /\ c.encrypted \in BOOLEAN /\ c.tx \in Counters /\ c.rx \in Counters
  BY DEF Sessions, Ends
<1>4. proved \in BOOLEAN /\ ok \in BOOLEAN
  OBVIOUS
<1>5. proved => h.transient
  BY DEF Proves
<1>6. h2 \in Sessions /\ (do = "setup1" => h2.transient = script[r].transient)
      /\ (proved => h2.setup = 4 /\ h2.established = TRUE)
  <2> HIDE DEF proved
  <2>1. CASE do = "setup1"
    <3>1. ~proved
      BY <2>1 DEF proved
    <3>2. PairSetupM1(h, r) \in Sessions /\ PairSetupM1(h, r).transient = script[r].transient
      BY <1>2, PairSetupM1Is
    <3> QED
      BY <2>1, <3>1, <3>2
  <2>2. CASE do # "setup1"
    BY <1>3, <1>5, <2>2 DEF Sessions
  <2> QED
    BY <2>1, <2>2
<1>7. /\ keyed \in Ends /\ keyed.encrypted = c.encrypted
      /\ proved => keyed.tx = Counter(ReadKey(h.srp)) /\ keyed.rx = Counter(WriteKey(h.srp))
      /\ c.tx.nonce = 0 /\ c.rx.nonce = 0 => keyed.tx.nonce = 0 /\ keyed.rx.nonce = 0
  <2> HIDE DEF proved
  <2>1. CASE proved
    <3>1. keyed = Keyed(c, h.srp)
      BY <1>5, <2>1
    <3>2. /\ keyed \in Ends /\ keyed.encrypted = c.encrypted
          /\ keyed.tx = Counter(ReadKey(h.srp)) /\ keyed.rx = Counter(WriteKey(h.srp))
      <4>1. h.srp \in Nat \union {Curve}
        BY <1>3
      <4> HIDE DEF keyed
      <4> QED
        BY <3>1, <4>1, KeyedIs
    <3> HIDE DEF keyed
    <3>3. keyed.tx.nonce = 0 /\ keyed.rx.nonce = 0
      <4>1. \A k : Counter(k).nonce = 0
        BY DEF Counter
      <4> QED
        BY <3>2, <4>1
    <3> QED
      BY <2>1, <3>2, <3>3
  <2>2. CASE ~proved
    BY <1>3, <2>2 DEF Ends, Counters
  <2> QED
    BY <2>1, <2>2
<1>8. on \in BOOLEAN /\ on = proved
  <2> HIDE DEF h2, proved
  <2> QED
    BY <1>4, <1>6
<1> DEFINE n == IF c.encrypted THEN script[r].answer ELSE 0
<1> HIDE DEF keyed, h2, ok, on, out, proved, do
<1>9. /\ n \in Nat
      /\ reply.answer = [to |-> r, ok |-> ok, proof |-> h.srp, frames |-> Frames(keyed.tx, n)]
      /\ reply.answer \in Answers
      /\ reply.channel \in Ends /\ reply.channel.encrypted = c.encrypted
      /\ reply.channel.rx = keyed.rx /\ reply.channel.tx.key = keyed.tx.key
      /\ reply.channel.tx.nonce = keyed.tx.nonce + n
  <2>1. keyed \in Ends /\ ok \in BOOLEAN /\ h.srp \in Nat /\ r \in Nat /\ script[r].answer \in Nat
    BY <1>2, <1>3, <1>4, <1>7
  <2>2. n = IF keyed.encrypted THEN script[r].answer ELSE 0
    BY <1>7
  <2>3. keyed.encrypted = c.encrypted
    BY <1>7
  <2> HIDE DEF n
  <2> QED
    BY <2>1, <2>2, <2>3, RespondIs
<1> HIDE DEF reply
<1>10. /\ out.channel \in Ends /\ out.channel.encrypted = (c.encrypted \/ on)
       /\ out.channel.tx = reply.channel.tx /\ out.channel.rx = reply.channel.rx
  BY <1>1, <1>3, <1>8, <1>9 DEF Ends
<1>11. ASSUME ~c.encrypted, c.tx.nonce = 0, c.rx.nonce = 0
       PROVE  /\ out.answer.frames = << >> /\ out.channel.encrypted = proved
              /\ out.channel.tx.nonce = 0 /\ out.channel.rx.nonce = 0
              /\ do = "setup3" => out.answer.ok = proved
              /\ proved => /\ out.channel.tx = Counter(ReadKey(out.answer.proof))
                           /\ out.channel.rx = Counter(WriteKey(out.answer.proof))
  <2>1. n = 0 /\ 0 \in Nat
    BY <1>11
  <2>2. out.channel.encrypted = proved
    BY <1>8, <1>10, <1>11
  <2>3. out.answer.frames = << >>
    <3>1. keyed.tx \in Counters
      BY <1>7 DEF Ends
    <3>2. Frames(keyed.tx, 0) \in Seq(Counters) /\ Len(Frames(keyed.tx, 0)) = 0
      BY <2>1, <3>1, FramesAre
    <3>3. Frames(keyed.tx, 0) = << >>
      BY <3>2, LenIs
    <3> QED
      BY <1>1, <1>9, <2>1, <3>3
  <2>4. out.channel.tx.nonce = 0 /\ out.channel.rx.nonce = 0
    BY <1>7, <1>9, <1>10, <1>11, <2>1
  <2>5. do = "setup3" => out.answer.ok = proved
    BY <1>1, <1>4, <1>9 DEF ok
  <2>6. ASSUME proved
        PROVE  /\ out.channel.tx = Counter(ReadKey(out.answer.proof))
               /\ out.channel.rx = Counter(WriteKey(out.answer.proof))
    <3>1. out.answer.proof = h.srp
      BY <1>1, <1>9
    <3>2. reply.channel.tx \in Counters /\ keyed.tx \in Counters
      BY <1>7, <1>9 DEF Ends
    <3>3. reply.channel.tx = keyed.tx
      BY <1>9, <2>1, <3>2 DEF Counters
    <3> QED
      BY <1>7, <1>9, <1>10, <2>6, <3>1, <3>3
  <2> QED
    BY <2>2, <2>3, <2>4, <2>5, <2>6
<1>12. out.answer \in Answers /\ out.answer.to = r /\ out.hap \in Sessions
       /\ (do = "setup1" => out.hap.transient = script[r].transient)
  BY <1>1, <1>6, <1>9
<1> QED
  BY <1>10, <1>11, <1>12 DEF out, proved, do

LEMMA NoFrames ==
  ASSUME NEW c \in Counters
  PROVE  Frames(c, 0) = << >>
<1>1. 0 \in Nat
  OBVIOUS
<1>2. Frames(c, 0) \in Seq(Counters) /\ Len(Frames(c, 0)) = 0
  BY <1>1, FramesAre
<1> QED
  BY <1>2, LenIs

LEMMA PairVerifyIs ==
  ASSUME script \in Seq(Requests), NEW r \in 1 .. Len(script), NEW c \in Ends, NEW h \in Sessions
  PROVE  LET out == PairVerify(c, h, r)
             m3 == script[r].do = "verify3" /\ c.tx.key = VerifyKey(Curve)
         IN  /\ out.channel \in Ends /\ out.hap \in Sessions /\ out.answer \in Answers
             /\ out.answer.to = r
             /\ ~c.encrypted /\ c.tx.nonce = 0 /\ c.rx.nonce = 0 /\ ~m3 =>
                  /\ out.answer.frames = << >> /\ ~out.channel.encrypted
                  /\ out.channel.tx.nonce = 0 /\ out.channel.rx.nonce = 0
                  /\ script[r].do = "verify1" => out.channel.tx.key = VerifyKey(Curve)
             /\ c.tx.nonce = 0 /\ c.rx.nonce = 0 /\ m3 =>
                  /\ out.answer.frames = Frames(Counter(ReadKey(Curve)), script[r].answer)
                  /\ out.channel.encrypted /\ out.channel.rx = Counter(WriteKey(Curve))
                  /\ out.channel.tx.key = ReadKey(Curve) /\ out.channel.tx.nonce = script[r].answer
<1> DEFINE do == script[r].do
           m1 == do = "verify1" \/ (do = "raw1" /\ h.verify = 0)
           m3 == do = "verify3" /\ c.tx.key = VerifyKey(Curve)
           raw3 == do = "raw3" /\ h.verify = 2
           keyed ==
             CASE do = "verify1" -> [c EXCEPT !.tx.key = VerifyKey(Curve)]
               [] m3 -> [c EXCEPT !.encrypted = TRUE, !.tx.key = ReadKey(Curve), !.rx.key = WriteKey(Curve)]
               [] do = "raw1" /\ m1 -> [c EXCEPT !.tx.key = RawKey(Curve), !.rx.key = RawKey(Curve)]
               [] raw3 -> [c EXCEPT !.tx = Counter(WriteKey(Curve)), !.rx = Counter(ReadKey(Curve))]
               [] OTHER -> c
           ok == m1 \/ m3
           reply == Respond(keyed, r, ok, 0)
           h2 == [h EXCEPT !.verify = IF m1 THEN 2 ELSE IF m3 \/ raw3 THEN 4 ELSE @,
                           !.established = @ \/ m3 \/ raw3]
           out == PairVerify(c, h, r)
<1>1. /\ out.hap = h2 /\ out.answer = reply.answer /\ out.channel = reply.channel
  BY DEF PairVerify
<1>2. /\ script[r].answer \in Nat /\ r \in Nat /\ ok \in BOOLEAN
  BY RequestIs
<1>3. /\ h.established \in BOOLEAN /\ h.verify \in {0, 2, 4}
      /\ c.encrypted \in BOOLEAN /\ c.tx \in Counters /\ c.rx \in Counters
      /\ c.tx.key \in Keys /\ c.rx.key \in Keys /\ c.tx.nonce \in Nat /\ c.rx.nonce \in Nat
  BY DEF Sessions, Ends, Counters
<1>4. h2 \in Sessions
  <2> DEFINE v == IF m1 THEN 2 ELSE IF m3 \/ raw3 THEN 4 ELSE h.verify
             e == h.established \/ m3 \/ raw3
  <2>1. v \in {0, 2, 4} /\ e \in BOOLEAN /\ h2 = [h EXCEPT !.verify = v, !.established = e]
    BY <1>3
  <2> HIDE DEF v, e, h2
  <2> QED
    BY <2>1 DEF Sessions
<1>5. /\ keyed \in Ends /\ keyed.encrypted = (c.encrypted \/ m3)
      /\ c.tx.nonce = 0 /\ c.rx.nonce = 0 => keyed.tx.nonce = 0 /\ keyed.rx.nonce = 0
      /\ do = "verify1" => keyed.tx.key = VerifyKey(Curve)
      /\ m3 => keyed.tx.key = ReadKey(Curve) /\ keyed.rx.key = WriteKey(Curve)
  <2> DEFINE k1 == ReadKey(Curve)
             k2 == WriteKey(Curve)
             k3 == VerifyKey(Curve)
             k4 == RawKey(Curve)
             n1 == Counter(k1)
             n2 == Counter(k2)
  <2>1. k1 \in Keys /\ k2 \in Keys /\ k3 \in Keys /\ k4 \in Keys
    <3>1. Curve \in Nat \union {Curve}
      OBVIOUS
    <3> QED
      BY <3>1, KeysAre
  <2> HIDE DEF k1, k2, k3, k4
  <2>2. n1 \in Counters /\ n2 \in Counters /\ n1.nonce = 0 /\ n2.nonce = 0
    BY <2>1, CounterIs
  <2> HIDE DEF n1, n2
  <2>3. keyed =
             CASE do = "verify1" -> [c EXCEPT !.tx.key = k3]
               [] m3 -> [c EXCEPT !.encrypted = TRUE, !.tx.key = k1, !.rx.key = k2]
               [] do = "raw1" /\ m1 -> [c EXCEPT !.tx.key = k4, !.rx.key = k4]
               [] raw3 -> [c EXCEPT !.tx = n2, !.rx = n1]
               [] OTHER -> c
    BY DEF k1, k2, k3, k4, n1, n2
  <2>4. CASE do = "verify1"
    <3>1. keyed = [c EXCEPT !.tx.key = k3] /\ ~m3
      BY <2>3, <2>4
    <3> HIDE DEF keyed, m3
    <3>2. keyed \in Ends /\ keyed.encrypted = c.encrypted /\ keyed.tx.nonce = c.tx.nonce
          /\ keyed.rx.nonce = c.rx.nonce /\ keyed.tx.key = k3
      BY <1>3, <2>1, <3>1 DEF Ends, Counters
    <3> QED
      BY <1>3, <2>4, <3>1, <3>2 DEF k3
  <2>5. CASE m3
    <3>1. keyed = [c EXCEPT !.encrypted = TRUE, !.tx.key = k1, !.rx.key = k2] /\ do # "verify1"
      BY <2>3, <2>5
    <3> HIDE DEF keyed, m3
    <3>2. keyed \in Ends /\ keyed.encrypted = TRUE /\ keyed.tx.nonce = c.tx.nonce
          /\ keyed.rx.nonce = c.rx.nonce /\ keyed.tx.key = k1 /\ keyed.rx.key = k2
      BY <1>3, <2>1, <3>1 DEF Ends, Counters
    <3> QED
      BY <1>3, <2>5, <3>1, <3>2 DEF k1, k2
  <2>6. CASE do \notin {"verify1", "verify3"}
    <3> DEFINE Fits1(k) == /\ k \in Ends /\ k.encrypted = c.encrypted
                           /\ c.tx.nonce = 0 /\ c.rx.nonce = 0 => k.tx.nonce = 0 /\ k.rx.nonce = 0
    <3>1. ~m3 /\ \/ keyed = [c EXCEPT !.tx.key = k4, !.rx.key = k4]
                 \/ keyed = [c EXCEPT !.tx = n2, !.rx = n1]
                 \/ keyed = c
      BY <2>3, <2>6
    <3>2. Fits1([c EXCEPT !.tx.key = k4, !.rx.key = k4])
      <4> HIDE DEF keyed, m3
      <4> QED
        BY <1>3, <2>1 DEF Ends, Counters
    <3>3. Fits1([c EXCEPT !.tx = n2, !.rx = n1])
      <4> HIDE DEF keyed, m3
      <4> QED
        BY <1>3, <2>2 DEF Ends
    <3>4. Fits1(c)
      BY <1>3
    <3>5. Fits1(keyed)
      <4> HIDE DEF keyed, m3, Fits1
      <4> QED
        BY <3>1, <3>2, <3>3, <3>4
    <3> HIDE DEF keyed
    <3>6. keyed.encrypted = (c.encrypted \/ m3)
      <4> HIDE DEF m3
      <4> QED
        BY <1>3, <3>1, <3>5
    <3> QED
      BY <2>6, <3>1, <3>5, <3>6
  <2>7. CASE do = "verify3" /\ ~m3
    <3>1. keyed = c
      BY <2>3, <2>7
    <3> HIDE DEF keyed, m3
    <3> QED
      BY <1>3, <2>7, <3>1
  <2> QED
    BY <2>4, <2>5, <2>6, <2>7
<1> DEFINE n == IF keyed.encrypted THEN script[r].answer ELSE 0
<1> HIDE DEF keyed, h2, out, do, m3, ok
<1>6. /\ n \in Nat
      /\ reply.answer = [to |-> r, ok |-> ok, proof |-> 0, frames |-> Frames(keyed.tx, n)]
      /\ reply.answer \in Answers
      /\ reply.channel \in Ends /\ reply.channel.encrypted = keyed.encrypted
      /\ reply.channel.rx = keyed.rx /\ reply.channel.tx.key = keyed.tx.key
      /\ reply.channel.tx.nonce = keyed.tx.nonce + n
  <2>1. 0 \in Nat
    OBVIOUS
  <2> QED
    BY <1>2, <1>5, <2>1, RespondIs
<1> HIDE DEF reply
<1>7. keyed.tx \in Counters /\ keyed.rx \in Counters
  BY <1>5 DEF Ends
<1>8. ASSUME ~c.encrypted, c.tx.nonce = 0, c.rx.nonce = 0, ~m3
      PROVE  /\ out.answer.frames = << >> /\ ~out.channel.encrypted
             /\ out.channel.tx.nonce = 0 /\ out.channel.rx.nonce = 0
             /\ do = "verify1" => out.channel.tx.key = VerifyKey(Curve)
  <2>1. n = 0 /\ ~keyed.encrypted /\ keyed.tx.nonce = 0 /\ keyed.rx.nonce = 0
    BY <1>5, <1>8
  <2>2. Frames(keyed.tx, 0) = << >>
    BY <1>7, NoFrames
  <2> HIDE DEF n
  <2> QED
    BY <1>1, <1>5, <1>6, <2>1, <2>2
<1>9. ASSUME c.tx.nonce = 0, c.rx.nonce = 0, m3
      PROVE  /\ out.answer.frames = Frames(Counter(ReadKey(Curve)), script[r].answer)
             /\ out.channel.encrypted /\ out.channel.rx = Counter(WriteKey(Curve))
             /\ out.channel.tx.key = ReadKey(Curve) /\ out.channel.tx.nonce = script[r].answer
  <2>1. n = script[r].answer /\ keyed.encrypted
    BY <1>5, <1>9
  <2>2. keyed.tx = Counter(ReadKey(Curve)) /\ keyed.rx = Counter(WriteKey(Curve))
    BY <1>5, <1>7, <1>9 DEF Counters, Counter
  <2>3. keyed.tx.nonce = 0
    BY <1>5, <1>9
  <2> HIDE DEF n
  <2> QED
    BY <1>1, <1>2, <1>5, <1>6, <1>9, <2>1, <2>2, <2>3
<1>10. out.channel \in Ends /\ out.hap \in Sessions /\ out.answer \in Answers /\ out.answer.to = r
  BY <1>1, <1>4, <1>6
<1> QED
  BY <1>8, <1>9, <1>10 DEF out, m3, do

LEMMA OtherIs ==
  ASSUME script \in Seq(Requests), NEW r \in 1 .. Len(script), NEW c \in Ends, NEW h \in Sessions
  PROVE  LET out == Other(c, h, r)
         IN  /\ out.channel \in Ends /\ out.hap \in Sessions /\ out.answer \in Answers
             /\ out.answer.to = r
             /\ ~c.encrypted /\ c.tx.nonce = 0 /\ c.rx.nonce = 0 =>
                  /\ out.answer.frames = << >> /\ ~out.channel.encrypted
                  /\ out.channel.tx.nonce = 0 /\ out.channel.rx.nonce = 0
             /\ c.encrypted =>
                  /\ out.channel.encrypted /\ out.channel.rx = c.rx /\ out.channel.tx.key = c.tx.key
                  /\ out.channel.tx.nonce = c.tx.nonce + script[r].answer
                  /\ out.answer.frames = Frames(c.tx, script[r].answer)
<1> DEFINE ok == TRUE
           reply == Respond(c, r, ok, 0)
           out == Other(c, h, r)
           n == IF c.encrypted THEN script[r].answer ELSE 0
<1>1. out.hap = h /\ out.answer = reply.answer /\ out.channel = reply.channel
  BY DEF Other
<1>2. script[r].answer \in Nat /\ r \in Nat /\ 0 \in Nat /\ ok \in BOOLEAN
  BY RequestIs
<1>3. /\ n \in Nat
      /\ reply.answer = [to |-> r, ok |-> ok, proof |-> 0, frames |-> Frames(c.tx, n)]
      /\ reply.answer \in Answers
      /\ reply.channel \in Ends /\ reply.channel.encrypted = c.encrypted
      /\ reply.channel.rx = c.rx /\ reply.channel.tx.key = c.tx.key
      /\ reply.channel.tx.nonce = c.tx.nonce + n
  <2> HIDE DEF ok
  <2> QED
    BY <1>2, RespondIs
<1>4. c.tx \in Counters
  BY DEF Ends
<1>5. Frames(c.tx, 0) = << >>
  BY <1>4, NoFrames
<1>6. c.encrypted \in BOOLEAN
  BY DEF Ends
<1> HIDE DEF reply, out, ok
<1>7. ASSUME ~c.encrypted, c.tx.nonce = 0, c.rx.nonce = 0
      PROVE  /\ out.answer.frames = << >> /\ ~out.channel.encrypted
             /\ out.channel.tx.nonce = 0 /\ out.channel.rx.nonce = 0
  BY <1>1, <1>3, <1>5, <1>6, <1>7
<1>8. ASSUME c.encrypted
      PROVE  /\ out.channel.encrypted /\ out.channel.rx = c.rx /\ out.channel.tx.key = c.tx.key
             /\ out.channel.tx.nonce = c.tx.nonce + script[r].answer
             /\ out.answer.frames = Frames(c.tx, script[r].answer)
  BY <1>1, <1>3, <1>6, <1>8
<1> QED
  BY <1>1, <1>3, <1>7, <1>8 DEF out

(* What a request does to the channel: in the clear, only a proof turns encryption on; *)
(* in frames, a request that pairs nothing counts the frames of its answer.            *)
LEMMA HandleIs ==
  ASSUME script \in Seq(Requests), NEW r \in 1 .. Len(script), NEW c \in Ends, NEW h \in Sessions
  PROVE  LET out == Handle(c, h, r)
             proved == script[r].do = "setup3" /\ Proves(h, r)
             m3 == script[r].do = "verify3" /\ c.tx.key = VerifyKey(Curve)
         IN  /\ out.channel \in Ends /\ out.hap \in Sessions /\ out.answer \in Answers
             /\ out.answer.to = r
             /\ script[r].do = "setup1" => out.hap.transient = script[r].transient
             /\ ~c.encrypted /\ c.tx.nonce = 0 /\ c.rx.nonce = 0 /\ ~proved /\ ~m3 =>
                  /\ ~out.channel.encrypted /\ out.answer.frames = << >>
                  /\ out.channel.tx.nonce = 0 /\ out.channel.rx.nonce = 0
                  /\ ~(out.answer.ok /\ script[r].do = "setup3")
                  /\ script[r].do = "verify1" => out.channel.tx.key = VerifyKey(Curve)
             /\ ~c.encrypted /\ c.tx.nonce = 0 /\ c.rx.nonce = 0 /\ proved =>
                  /\ out.channel.encrypted /\ out.answer.frames = << >> /\ out.answer.ok
                  /\ out.channel.tx = Counter(ReadKey(out.answer.proof))
                  /\ out.channel.rx = Counter(WriteKey(out.answer.proof))
             /\ ~c.encrypted /\ c.tx.nonce = 0 /\ c.rx.nonce = 0 /\ m3 =>
                  /\ out.channel.encrypted /\ out.channel.rx = Counter(WriteKey(Curve))
                  /\ out.answer.frames = Frames(Counter(ReadKey(Curve)), script[r].answer)
                  /\ out.channel.tx.key = ReadKey(Curve) /\ out.channel.tx.nonce = script[r].answer
             /\ c.encrypted /\ script[r].do = "other" =>
                  /\ out.channel.encrypted /\ out.channel.rx = c.rx /\ out.channel.tx.key = c.tx.key
                  /\ out.channel.tx.nonce = c.tx.nonce + script[r].answer
                  /\ out.answer.frames = Frames(c.tx, script[r].answer)
<1> DEFINE do == script[r].do
           out == Handle(c, h, r)
           proved == do = "setup3" /\ Proves(h, r)
           m3 == do = "verify3" /\ c.tx.key = VerifyKey(Curve)
           clear == ~c.encrypted /\ c.tx.nonce = 0 /\ c.rx.nonce = 0
<1>1. do \in Pairing \union {"other"}
  BY RequestIs
<1>2. CASE do \in {"setup1", "setup3", "setup5"}
  <2>1. out = PairSetup(c, h, r)
    BY <1>2 DEF Handle
  <2> HIDE DEF out
  <2>2. /\ out.channel \in Ends /\ out.hap \in Sessions /\ out.answer \in Answers
        /\ out.answer.to = r
        /\ clear =>
             /\ out.answer.frames = << >> /\ out.channel.encrypted = proved
             /\ out.channel.tx.nonce = 0 /\ out.channel.rx.nonce = 0
             /\ do = "setup3" => out.answer.ok = proved
             /\ proved => /\ out.channel.tx = Counter(ReadKey(out.answer.proof))
                          /\ out.channel.rx = Counter(WriteKey(out.answer.proof))
        /\ do = "setup1" => out.hap.transient = script[r].transient
    BY <2>1, PairSetupIs, Zenon
  <2>3. ~m3 /\ do # "verify1" /\ do # "other" /\ (proved => do = "setup3")
    BY <1>2
  <2> HIDE DEF m3, proved, clear
  <2> QED
    BY <2>2, <2>3, Zenon DEF out, m3, proved, clear
<1>3. CASE do \in {"verify1", "verify3", "raw1", "raw3"}
  <2>1. out = PairVerify(c, h, r)
    BY <1>3 DEF Handle
  <2> DEFINE Verified(o) ==
        /\ o.channel \in Ends /\ o.hap \in Sessions /\ o.answer \in Answers
        /\ o.answer.to = r
        /\ clear /\ ~m3 =>
             /\ o.answer.frames = << >> /\ ~o.channel.encrypted
             /\ o.channel.tx.nonce = 0 /\ o.channel.rx.nonce = 0
             /\ do = "verify1" => o.channel.tx.key = VerifyKey(Curve)
        /\ clear /\ m3 =>
             /\ o.answer.frames = Frames(Counter(ReadKey(Curve)), script[r].answer)
             /\ o.channel.encrypted /\ o.channel.rx = Counter(WriteKey(Curve))
             /\ o.channel.tx.key = ReadKey(Curve) /\ o.channel.tx.nonce = script[r].answer
  <2>2. Verified(PairVerify(c, h, r))
    <3> DEFINE v == PairVerify(c, h, r)
    <3>1. /\ v.channel \in Ends /\ v.hap \in Sessions /\ v.answer \in Answers
          /\ v.answer.to = r
          /\ ~c.encrypted /\ c.tx.nonce = 0 /\ c.rx.nonce = 0 /\ ~m3 =>
               /\ v.answer.frames = << >> /\ ~v.channel.encrypted
               /\ v.channel.tx.nonce = 0 /\ v.channel.rx.nonce = 0
               /\ script[r].do = "verify1" => v.channel.tx.key = VerifyKey(Curve)
          /\ c.tx.nonce = 0 /\ c.rx.nonce = 0 /\ m3 =>
               /\ v.answer.frames = Frames(Counter(ReadKey(Curve)), script[r].answer)
               /\ v.channel.encrypted /\ v.channel.rx = Counter(WriteKey(Curve))
               /\ v.channel.tx.key = ReadKey(Curve) /\ v.channel.tx.nonce = script[r].answer
      BY PairVerifyIs
    <3> HIDE DEF v
    <3> QED
      BY <3>1 DEF v
  <2> HIDE DEF out, Verified
  <2>3. Verified(out)
    BY <2>1, <2>2
  <2>4. ~proved /\ do # "setup1" /\ do # "setup3" /\ do # "other"
    BY <1>3
  <2> HIDE DEF m3, proved, clear
  <2> QED
    BY <2>3, <2>4, Zenon DEF Verified, out, m3, proved, clear
<1>4. CASE do = "other"
  <2>1. out = Other(c, h, r)
    BY <1>4 DEF Handle
  <2> HIDE DEF out
  <2>2. /\ out.channel \in Ends /\ out.hap \in Sessions /\ out.answer \in Answers
        /\ out.answer.to = r
        /\ clear =>
             /\ out.answer.frames = << >> /\ ~out.channel.encrypted
             /\ out.channel.tx.nonce = 0 /\ out.channel.rx.nonce = 0
        /\ c.encrypted =>
             /\ out.channel.encrypted /\ out.channel.rx = c.rx /\ out.channel.tx.key = c.tx.key
             /\ out.channel.tx.nonce = c.tx.nonce + script[r].answer
             /\ out.answer.frames = Frames(c.tx, script[r].answer)
    BY <2>1, OtherIs, SMTT(30)
  <2>3. ~proved /\ ~m3 /\ do # "setup1" /\ do # "setup3" /\ do # "verify1"
    BY <1>4
  <2>4. /\ out.channel \in Ends /\ out.hap \in Sessions /\ out.answer \in Answers
        /\ out.answer.to = r
    BY <2>2
  <2>5. /\ clear /\ ~proved /\ ~m3 =>
             /\ ~out.channel.encrypted /\ out.answer.frames = << >>
             /\ out.channel.tx.nonce = 0 /\ out.channel.rx.nonce = 0
             /\ ~(out.answer.ok /\ do = "setup3")
             /\ do = "verify1" => out.channel.tx.key = VerifyKey(Curve)
    <3> HIDE DEF m3, proved, clear, do
    <3> QED
      BY <2>2, <2>3, Zenon
  <2> HIDE DEF m3, proved, clear
  <2> QED
    BY <2>2, <2>3, <2>4, <2>5, Zenon DEF out, m3, proved, clear
<1> QED
  BY <1>1, <1>2, <1>3, <1>4 DEF Pairing

LEMMA MinIs ==
  ASSUME NEW a \in Int, NEW b \in Int
  PROVE  Min({a, b}) = IF a <= b THEN a ELSE b
<1> DEFINE m == IF a <= b THEN a ELSE b
<1>1. m \in {a, b} /\ \A y \in {a, b} : m <= y
  OBVIOUS
<1>2. \A x \in {a, b} : (\A y \in {a, b} : x <= y) => x = m
  OBVIOUS
<1> HIDE DEF m
<1>3. Min({a, b}) = m
  BY <1>1, <1>2 DEF Min
<1> QED
  BY <1>3 DEF m

LEMMA Products ==
  ASSUME NEW a \in Nat, NEW b \in Nat, NEW M \in Nat, a <= b
  PROVE  a * M \in Nat /\ a * M <= b * M
OBVIOUS

LEMMA NextProduct ==
  ASSUME NEW a \in Int, NEW M \in Nat
  PROVE  (a - 1) * M = a * M - M
OBVIOUS

LEMMA Ceiling ==
  ASSUME NEW L \in Nat \ {0}, NEW M \in Nat \ {0}
  PROVE  LET n == (L + M - 1) \div M
         IN  n \in Nat \ {0} /\ (n - 1) * M < L /\ L <= n * M
<1> DEFINE n == (L + M - 1) \div M
           k == (L + M - 1) % M
<1>1. n \in Int /\ k \in 0 .. M - 1 /\ L + M - 1 = M * n + k
  OBVIOUS
<1> HIDE DEF n, k
<1>2. n >= 1
  BY <1>1
<1> QED
  BY <1>1, <1>2 DEF n

(* A part of a request's units, from one place in it to another. *)
LEMMA RunIs ==
  ASSUME script \in Seq(Requests), NEW d \in Nat, d + 1 <= Len(script),
         NEW lo \in Nat, NEW hi \in Nat, lo < hi, hi <= script[d + 1].size
  PROVE  LET s == SubSeq(Units(d + 1), lo + 1, hi)
             a == [request |-> d + 1, unit |-> lo + 1]
         IN  /\ s \in Seq(UnitOf(1 .. d + 1)) /\ Len(s) = hi - lo /\ Chain(s, a)
             /\ After(s, a) = IF hi < script[d + 1].size THEN [request |-> d + 1, unit |-> hi + 1]
                              ELSE First(d + 1)
<1> DEFINE L == script[d + 1].size
           U == Units(d + 1)
           s == SubSeq(U, lo + 1, hi)
           a == [request |-> d + 1, unit |-> lo + 1]
<1>1. L \in Nat \ {0} /\ d + 1 \in 1 .. Len(script)
  <2>1. d + 1 \in 1 .. Len(script) /\ 0 \in Nat
    OBVIOUS
  <2> QED
    BY <2>1, SuccIs
<1>2. U \in Seq(UnitOf(1 .. d + 1)) /\ Len(U) = L
  BY ChainUnits
<1>3. \A i \in 1 .. L : U[i] = [request |-> d + 1, unit |-> i]
  BY DEF Units
<1> HIDE DEF U
<1>4. s \in Seq(UnitOf(1 .. d + 1)) /\ Len(s) = hi - lo /\ \A i \in 1 .. hi - lo : s[i] = U[lo + i]
  <2>1. lo + 1 \in Int /\ hi \in Int /\ \A i \in lo + 1 .. hi : U[i] \in UnitOf(1 .. d + 1)
    BY <1>1, <1>2, ElementOfSeq
  <2>2. /\ s \in Seq(UnitOf(1 .. d + 1)) /\ Len(s) = IF lo + 1 <= hi THEN hi - (lo + 1) + 1 ELSE 0
        /\ \A i \in 1 .. hi - (lo + 1) + 1 : s[i] = U[lo + 1 + i - 1]
    BY <2>1, SubSeqProperties
  <2> HIDE DEF s
  <2> QED
    BY <2>2
<1> HIDE DEF s
<1>5. \A i \in 1 .. hi - lo : s[i] = [request |-> d + 1, unit |-> lo + i]
  <2>1. \A i \in 1 .. hi - lo : lo + i \in 1 .. L
    BY <1>1
  <2> HIDE DEF L
  <2> QED
    BY <1>3, <1>4, <2>1
<1>6. Chain(s, a)
  <2>1. s[1] = a
    BY <1>5
  <2>2. ASSUME NEW i \in 1 .. Len(s) - 1 PROVE s[i + 1] = Succ(s[i])
    <3>1. lo + i \in Nat /\ lo + i < script[d + 1].size /\ lo + (i + 1) = (lo + i) + 1
          /\ i \in 1 .. hi - lo /\ i + 1 \in 1 .. hi - lo
      <4>1. i \in 1 .. (hi - lo) - 1 /\ L \in Nat
        BY <1>1, <1>4
      <4> HIDE DEF L
      <4>2. lo + i \in Nat /\ lo + i < L /\ lo + (i + 1) = (lo + i) + 1
          /\ i \in 1 .. hi - lo /\ i + 1 \in 1 .. hi - lo
        BY <4>1 DEF L
      <4> QED
        BY <4>2 DEF L
    <3>2. Succ([request |-> d + 1, unit |-> lo + i]) = [request |-> d + 1, unit |-> (lo + i) + 1]
      BY <1>1, <3>1, SuccIs
    <3>3. /\ s[i] = [request |-> d + 1, unit |-> lo + i]
          /\ s[i + 1] = [request |-> d + 1, unit |-> lo + (i + 1)]
      BY <1>5, <3>1
    <3> QED
      BY <3>1, <3>2, <3>3, Zenon
  <2> QED
    BY <2>1, <2>2 DEF Chain
<1>7. After(s, a) = IF hi < L THEN [request |-> d + 1, unit |-> hi + 1] ELSE First(d + 1)
  <2>1. s # << >> /\ Len(s) = hi - lo /\ hi - lo \in 1 .. hi - lo /\ lo + (hi - lo) = hi
    <3>1. hi - lo \in 1 .. hi - lo /\ lo + (hi - lo) = hi /\ hi - lo # 0
      OBVIOUS
    <3>2. s # << >>
      BY <1>4, <3>1, LenIs, Zenon
    <3> QED
      BY <1>4, <3>1, <3>2, Zenon
  <2>2. s[Len(s)] = [request |-> d + 1, unit |-> hi]
    BY <1>5, <2>1
  <2>3. Succ([request |-> d + 1, unit |-> hi]) =
          IF hi < L THEN [request |-> d + 1, unit |-> hi + 1] ELSE First(d + 1)
    <3>1. hi < script[d + 1].size \/ hi >= script[d + 1].size
      BY <1>1
    <3> QED
      BY <1>1, <3>1, SuccIs
  <2> QED
    BY <2>1, <2>2, <2>3 DEF After
<1> QED
  BY <1>4, <1>6, <1>7 DEF s, U

(* Blocks with units of the requests R. *)
BlockOf(R) == [key : Keys, nonce : Nat, units : Seq(UnitOf(R))]

(* A sequence of blocks carries the units from one place to another. *)
Carries(bs, a, z) ==
  \E f \in [1 .. Len(bs) + 1 -> UnitOf(Nat)] :
    /\ f[1] = a /\ f[Len(bs) + 1] = z
    /\ \A t \in 1 .. Len(bs) :
         /\ Len(bs[t].units) \in 1 .. RTSP_ENCRYPTED_BLOCK_MAX
         /\ Chain(bs[t].units, f[t]) /\ f[t + 1] = After(bs[t].units, f[t])

LEMMA CarriesNone ==
  ASSUME NEW a \in UnitOf(Nat)
  PROVE  Carries(<< >>, a, a)
<1> DEFINE f == [t \in 1 .. 1 |-> a]
<1>1. f \in [1 .. 0 + 1 -> UnitOf(Nat)] /\ f[1] = a /\ f[0 + 1] = a
  OBVIOUS
<1>2. Len(<< >>) = 0
  OBVIOUS
<1> HIDE DEF f
<1> QED
  BY <1>1, <1>2 DEF Carries

LEMMA CarriesConcat ==
  ASSUME NEW S, NEW bs \in Seq(S), NEW cs \in Seq(S), NEW a, NEW b, NEW z,
         Carries(bs, a, b), Carries(cs, b, z)
  PROVE  Carries(bs \o cs, a, z)
<1> DEFINE m == Len(bs)
           n == Len(cs)
           ds == bs \o cs
           Links(x, f) == \A t \in 1 .. Len(x) :
             /\ Len(x[t].units) \in 1 .. RTSP_ENCRYPTED_BLOCK_MAX
             /\ Chain(x[t].units, f[t]) /\ f[t + 1] = After(x[t].units, f[t])
<1>1. m \in Nat /\ n \in Nat /\ Len(ds) = m + n
      /\ \A i \in 1 .. m + n : ds[i] = IF i <= m THEN bs[i] ELSE cs[i - m]
  BY LenIs, ConcatIs
<1>2. PICK f \in [1 .. m + 1 -> UnitOf(Nat)] : f[1] = a /\ f[m + 1] = b /\ Links(bs, f)
  BY DEF Carries
<1>3. PICK g \in [1 .. n + 1 -> UnitOf(Nat)] : g[1] = b /\ g[n + 1] = z /\ Links(cs, g)
  BY DEF Carries
<1> DEFINE h == [t \in 1 .. (m + n) + 1 |-> IF t <= m THEN f[t] ELSE g[t - m]]
<1> HIDE DEF m, n, ds, Links
<1>4. h \in [1 .. (m + n) + 1 -> UnitOf(Nat)]
  BY <1>1
<1>5. /\ \A t \in 1 .. m + 1 : h[t] = f[t]
      /\ \A t \in m + 1 .. (m + n) + 1 : h[t] = g[t - m]
  <2>1. ASSUME NEW t \in 1 .. m + 1 PROVE h[t] = f[t]
    BY <1>1, <1>2, <1>3
  <2>2. ASSUME NEW t \in m + 1 .. (m + n) + 1 PROVE h[t] = g[t - m]
    BY <1>1
  <2> QED
    BY <2>1, <2>2
<1> HIDE DEF h
<1>6. h[1] = a /\ h[(m + n) + 1] = z
  <2>1. h[1] = f[1]
    BY <1>1, <1>5
  <2>2. (m + n) + 1 \in m + 1 .. (m + n) + 1 /\ ((m + n) + 1) - m = n + 1
    BY <1>1
  <2>3. h[(m + n) + 1] = g[n + 1]
    BY <1>5, <2>2
  <2> QED
    BY <1>2, <1>3, <2>1, <2>3
<1>7. ASSUME NEW t \in 1 .. m + n
      PROVE  /\ Len(ds[t].units) \in 1 .. RTSP_ENCRYPTED_BLOCK_MAX
             /\ Chain(ds[t].units, h[t]) /\ h[t + 1] = After(ds[t].units, h[t])
  <2>1. CASE t <= m
    <3>1. ds[t] = bs[t] /\ t \in 1 .. m /\ t \in 1 .. m + 1 /\ t + 1 \in 1 .. m + 1
      BY <1>1, <2>1
    <3>2. h[t] = f[t] /\ h[t + 1] = f[t + 1]
      BY <1>5, <3>1
    <3>3. t \in 1 .. Len(bs)
      BY <3>1 DEF m
    <3> QED
      BY <1>2, <3>1, <3>2, <3>3 DEF Links
  <2>2. CASE t > m
    <3> DEFINE i == t - m
    <3>1. /\ ds[t] = cs[i] /\ i \in 1 .. n /\ t \in m + 1 .. (m + n) + 1
          /\ t + 1 \in m + 1 .. (m + n) + 1 /\ (t + 1) - m = i + 1
      BY <1>1, <2>2
    <3>2. h[t] = g[i] /\ h[t + 1] = g[i + 1]
      BY <1>5, <3>1
    <3> HIDE DEF i
    <3>3. i \in 1 .. Len(cs)
      BY <3>1 DEF n
    <3> QED
      BY <1>3, <3>1, <3>2, <3>3 DEF Links
  <2>3. t <= m \/ t > m
    BY <1>1
  <2> QED
    BY <2>1, <2>2, <2>3
<1>8. \E k \in [1 .. Len(ds) + 1 -> UnitOf(Nat)] :
        /\ k[1] = a /\ k[Len(ds) + 1] = z
        /\ \A t \in 1 .. Len(ds) :
             /\ Len(ds[t].units) \in 1 .. RTSP_ENCRYPTED_BLOCK_MAX
             /\ Chain(ds[t].units, k[t]) /\ k[t + 1] = After(ds[t].units, k[t])
  <2>1. Len(ds) = m + n
    BY <1>1
  <2> QED
    BY <1>4, <1>6, <1>7, <2>1
<1> QED
  BY <1>8 DEF Carries, ds

LEMMA CarriesHead ==
  ASSUME NEW S, NEW bs \in Seq(S), bs # << >>, NEW a, NEW z, Carries(bs, a, z)
  PROVE  /\ Len(bs[1].units) \in 1 .. RTSP_ENCRYPTED_BLOCK_MAX /\ Chain(bs[1].units, a)
         /\ Carries(Tail(bs), After(bs[1].units, a), z)
<1> DEFINE m == Len(bs)
           cs == Tail(bs)
<1>1. m \in Nat \ {0}
  BY LenIs
<1>2. Len(cs) = m - 1 /\ \A i \in 1 .. m - 1 : cs[i] = bs[i + 1]
  BY HeadTailProperties
<1>3. PICK f \in [1 .. m + 1 -> UnitOf(Nat)] :
        /\ f[1] = a /\ f[m + 1] = z
        /\ \A t \in 1 .. m : /\ Len(bs[t].units) \in 1 .. RTSP_ENCRYPTED_BLOCK_MAX
                             /\ Chain(bs[t].units, f[t]) /\ f[t + 1] = After(bs[t].units, f[t])
  BY DEF Carries
<1> HIDE DEF m, cs
<1>4. /\ Len(bs[1].units) \in 1 .. RTSP_ENCRYPTED_BLOCK_MAX /\ Chain(bs[1].units, a)
      /\ f[1 + 1] = After(bs[1].units, a)
  <2>1. 1 \in 1 .. m
    BY <1>1
  <2> QED
    BY <1>3, <2>1
<1> DEFINE g == [t \in 1 .. m |-> f[t + 1]]
<1>5. g \in [1 .. m -> UnitOf(Nat)]
  BY <1>1
<1>6. g[1] = After(bs[1].units, a) /\ g[m] = z
  BY <1>1, <1>3, <1>4
<1>7. ASSUME NEW t \in 1 .. m - 1
      PROVE  /\ Len(cs[t].units) \in 1 .. RTSP_ENCRYPTED_BLOCK_MAX
             /\ Chain(cs[t].units, g[t]) /\ g[t + 1] = After(cs[t].units, g[t])
  <2>1. t + 1 \in 1 .. m /\ t \in 1 .. m /\ cs[t] = bs[t + 1]
    BY <1>1, <1>2
  <2>2. g[t] = f[t + 1] /\ g[t + 1] = f[(t + 1) + 1]
    BY <2>1
  <2> HIDE DEF g
  <2> QED
    BY <1>3, <2>1, <2>2
<1> HIDE DEF g
<1>8. \E k \in [1 .. Len(cs) + 1 -> UnitOf(Nat)] :
        /\ k[1] = After(bs[1].units, a) /\ k[Len(cs) + 1] = z
        /\ \A t \in 1 .. Len(cs) :
             /\ Len(cs[t].units) \in 1 .. RTSP_ENCRYPTED_BLOCK_MAX
             /\ Chain(cs[t].units, k[t]) /\ k[t + 1] = After(cs[t].units, k[t])
  <2>1. Len(cs) = m - 1 /\ Len(cs) + 1 = m
    BY <1>1, <1>2
  <2> QED
    BY <1>5, <1>6, <1>7, <2>1
<1> QED
  BY <1>4, <1>8 DEF Carries, cs

(* Blocks that start at a request hold no unit of an earlier one. *)
LEMMA CarriesAbove ==
  ASSUME NEW R, R \subseteq Nat, NEW bs \in Seq(BlockOf(R)), NEW a, NEW z, Carries(bs, a, z)
  PROVE  /\ a.request \in Nat /\ z.request \in Nat /\ z.request >= a.request
         /\ \A t \in 1 .. Len(bs) :
              /\ bs[t].units # << >>
              /\ \A i \in 1 .. Len(bs[t].units) : bs[t].units[i].request >= a.request
<1> DEFINE m == Len(bs)
<1>1. m \in Nat
  BY LenIs
<1>2. PICK f \in [1 .. m + 1 -> UnitOf(Nat)] :
        /\ f[1] = a /\ f[m + 1] = z
        /\ \A t \in 1 .. m : /\ Len(bs[t].units) \in 1 .. RTSP_ENCRYPTED_BLOCK_MAX
                             /\ Chain(bs[t].units, f[t]) /\ f[t + 1] = After(bs[t].units, f[t])
  BY DEF Carries
<1>3. \A t \in 1 .. m : bs[t].units \in Seq(UnitOf(R))
  <2>1. \A t \in 1 .. m : bs[t] \in BlockOf(R)
    BY ElementOfSeq
  <2> QED
    BY <2>1 DEF BlockOf
<1> HIDE DEF m
<1>4. \A t \in 1 .. m + 1 : f[t].request \in Nat
  BY DEF UnitOf
<1> DEFINE good == {t \in 1 .. m + 1 : f[t].request >= a.request}
<1>5. 1 \in 1 .. m + 1 /\ m + 1 \in 1 .. m + 1 /\ m + 1 \in Nat \ {0}
  BY <1>1
<1>6. a.request \in Nat /\ 1 \in good /\ z.request \in Nat
  BY <1>2, <1>4, <1>5
<1>7. ASSUME NEW t \in 1 .. m
      PROVE  /\ \A i \in 1 .. Len(bs[t].units) : bs[t].units[i].request >= f[t].request
             /\ f[t + 1].request >= f[t].request /\ bs[t].units # << >>
  <2>1. f[t].request \in Nat
    BY <1>1, <1>4
  <2>2. bs[t].units \in Seq(UnitOf(R)) /\ Chain(bs[t].units, f[t]) /\ f[t + 1] = After(bs[t].units, f[t])
        /\ Len(bs[t].units) >= 1
    BY <1>2, <1>3
  <2> DEFINE u == bs[t].units
             b == f[t]
  <2>3. u # << >>
    BY <2>2, LenIs
  <2> HIDE DEF u, b
  <2>4. u \in Seq(UnitOf(R)) /\ Chain(u, b) /\ b.request \in Nat
    BY <2>1, <2>2 DEF u, b
  <2>5. /\ \A i \in 1 .. Len(u) : u[i].request >= b.request
        /\ After(u, b).request >= b.request
    BY <2>4, ChainAbove
  <2> QED
    BY <2>2, <2>3, <2>5 DEF u, b
<1>8. ASSUME NEW t \in 1 .. (m + 1) - 1, t \in good PROVE t + 1 \in good
  <2>1. t \in 1 .. m /\ t + 1 \in 1 .. m + 1 /\ t \in 1 .. m + 1
    BY <1>1
  <2>2. f[t + 1].request >= f[t].request
    BY <1>7, <2>1
  <2> QED
    BY <1>4, <1>6, <1>8, <2>1, <2>2
<1>9. 1 .. m + 1 \subseteq good
  <2>1. \A t \in 1 .. (m + 1) - 1 : t \in good => t + 1 \in good
    BY <1>8
  <2> DEFINE n == m + 1
  <2>2. n \in Nat \ {0} /\ 1 \in good /\ \A t \in 1 .. n - 1 : t \in good => t + 1 \in good
    BY <1>5, <1>6, <2>1
  <2> HIDE DEF good, n
  <2>3. 1 .. n \subseteq good
    BY <2>2, UpTo
  <2> QED
    BY <2>3 DEF n
<1>10. z.request >= a.request
  BY <1>2, <1>5, <1>9
<1>11. ASSUME NEW t \in 1 .. m, NEW i \in 1 .. Len(bs[t].units)
       PROVE  bs[t].units[i].request >= a.request
  <2>1. bs[t].units[i].request >= f[t].request /\ f[t].request >= a.request
    BY <1>1, <1>7, <1>9
  <2>2. bs[t].units[i].request \in Nat
    <3>1. bs[t].units[i] \in UnitOf(R)
      BY <1>3, ElementOfSeq
    <3> QED
      BY <3>1 DEF UnitOf
  <2>3. f[t].request \in Nat
    BY <1>1, <1>4
  <2> QED
    BY <1>6, <2>1, <2>2, <2>3
<1>12. \A t \in 1 .. m : bs[t].units # << >>
  BY <1>7
<1> QED
  BY <1>6, <1>10, <1>11, <1>12 DEF m

(* A request sealed in blocks: as many as it takes, under one key, counted in order. *)
LEMMA BlocksAre ==
  ASSUME script \in Seq(Requests), NEW d \in Nat, d + 1 <= Len(script), NEW c \in Counters
  PROVE  LET bs == Blocks(c, Units(d + 1))
         IN  /\ bs \in Seq(BlockOf(1 .. d + 1)) /\ Len(bs) \in Nat
             /\ \A t \in 1 .. Len(bs) : bs[t].key = c.key /\ bs[t].nonce = c.nonce + t - 1
             /\ Carries(bs, First(d), First(d + 1))
<1> DEFINE L == script[d + 1].size
           M == RTSP_ENCRYPTED_BLOCK_MAX
           U == Units(d + 1)
           n == (L + M - 1) \div M
           lo(t) == (t - 1) * M
           hi(t) == Min({t * M, L})
           cut(t) == SubSeq(U, lo(t) + 1, hi(t))
           e(t) == [key |-> c.key, nonce |-> c.nonce + t - 1, units |-> cut(t)]
           bs == Blocks(c, U)
           at(t) == [request |-> d + 1, unit |-> lo(t) + 1]
           f == [t \in 1 .. n + 1 |-> IF t <= n THEN at(t) ELSE First(d + 1)]
<1>1. L \in Nat \ {0} /\ M \in Nat \ {0} /\ Len(U) = L
  <2>1. d + 1 \in 1 .. Len(script) /\ 0 \in Nat
    OBVIOUS
  <2>2. L \in Nat \ {0}
    BY <2>1, SuccIs
  <2> QED
    BY <2>2, ChainUnits, BufferAssumption
<1>2. bs = [t \in 1 .. n |-> e(t)]
  BY <1>1 DEF Blocks
<1>3. n \in Nat \ {0} /\ (n - 1) * M < L /\ L <= n * M
  BY <1>1, Ceiling
<1> HIDE DEF n, L, M
<1>4. ASSUME NEW t \in 1 .. n
      PROVE  /\ lo(t) \in Nat /\ hi(t) \in Nat /\ lo(t) < hi(t) /\ hi(t) <= L /\ hi(t) - lo(t) <= M
             /\ hi(t) < L => t < n /\ hi(t) = lo(t + 1)
             /\ t < n => hi(t) < L
  <2>1. t - 1 \in Nat /\ n - 1 \in Nat /\ t - 1 <= n - 1 /\ t \in Nat /\ M \in Nat
    BY <1>1, <1>3
  <2>2. (t - 1) * M \in Nat /\ (t - 1) * M <= (n - 1) * M
    BY <2>1, Products
  <2>3. (t - 1) * M = t * M - M /\ t * M \in Int
    BY <2>1, NextProduct
  <2>4. (t + 1) - 1 = t
    BY <2>1
  <2>5. ASSUME t < n PROVE t * M <= (n - 1) * M
    <3> DEFINE k == n - 1
    <3>1. t \in Nat /\ k \in Nat /\ t <= k /\ M \in Nat
      BY <1>3, <2>1, <2>5
    <3> HIDE DEF k
    <3>2. t * M <= k * M
      BY <3>1, Products
    <3> QED
      BY <3>2 DEF k
  <2>6. hi(t) = IF t * M <= L THEN t * M ELSE L
    BY <1>1, <2>3, MinIs
  <2> DEFINE x == t * M
             y == (n - 1) * M
             w == (t - 1) * M
             z == n * M
  <2>7. w \in Nat /\ w <= y /\ w = x - M /\ x \in Int /\ y < L /\ L <= z /\ (t = n => x = z)
        /\ (t < n => x <= y) /\ y \in Int /\ z \in Int
    BY <1>3, <2>1, <2>2, <2>3, <2>5, NextProduct
  <2>8. lo(t) = w /\ lo(t + 1) = x /\ hi(t) = IF x <= L THEN x ELSE L
    BY <2>4, <2>6
  <2> HIDE DEF x, y, w, z, lo, hi
  <2>9. L \in Nat /\ L >= 1 /\ M \in Nat /\ M >= 1 /\ (t < n \/ t = n)
    BY <1>1, <1>3
  <2>10. lo(t) \in Nat /\ hi(t) \in Nat /\ lo(t) < hi(t) /\ hi(t) <= L /\ hi(t) - lo(t) <= M
    BY <2>7, <2>8, <2>9
  <2>11. (hi(t) < L => t < n /\ hi(t) = lo(t + 1)) /\ (t < n => hi(t) < L)
    BY <2>7, <2>8, <2>9
  <2> QED
    BY <2>10, <2>11
<1> HIDE DEF lo, hi
<1>5. ASSUME NEW t \in 1 .. n
      PROVE  /\ cut(t) \in Seq(UnitOf(1 .. d + 1)) /\ Len(cut(t)) = hi(t) - lo(t)
             /\ Chain(cut(t), at(t))
             /\ After(cut(t), at(t)) = IF hi(t) < L THEN [request |-> d + 1, unit |-> hi(t) + 1]
                                        ELSE First(d + 1)
  <2>1. lo(t) \in Nat /\ hi(t) \in Nat /\ lo(t) < hi(t) /\ hi(t) <= script[d + 1].size
    BY <1>4 DEF L
  <2> DEFINE l == lo(t)
             h == hi(t)
  <2> HIDE DEF l, h
  <2>2. l \in Nat /\ h \in Nat /\ l < h /\ h <= script[d + 1].size
    BY <2>1 DEF l, h
  <2>3. /\ SubSeq(U, l + 1, h) \in Seq(UnitOf(1 .. d + 1)) /\ Len(SubSeq(U, l + 1, h)) = h - l
        /\ Chain(SubSeq(U, l + 1, h), [request |-> d + 1, unit |-> l + 1])
        /\ After(SubSeq(U, l + 1, h), [request |-> d + 1, unit |-> l + 1]) =
             IF h < script[d + 1].size THEN [request |-> d + 1, unit |-> h + 1] ELSE First(d + 1)
    BY <2>2, RunIs
  <2> QED
    BY <2>3, Zenon DEF l, h, L
<1> HIDE DEF cut
<1>6. ASSUME NEW t \in 1 .. n PROVE e(t) \in BlockOf(1 .. d + 1)
  <2>1. c.key \in Keys /\ c.nonce \in Nat
    BY DEF Counters
  <2>2. c.nonce + t - 1 \in Nat
    BY <1>3, <2>1
  <2> QED
    BY <1>5, <2>1, <2>2 DEF BlockOf
<1> HIDE DEF e
<1>7. bs \in Seq(BlockOf(1 .. d + 1)) /\ Len(bs) = n /\ \A t \in 1 .. n : bs[t] = e(t)
  BY <1>2, <1>3, <1>6
<1> HIDE DEF bs, U
<1>8. \A t \in 1 .. n : bs[t].key = c.key /\ bs[t].nonce = c.nonce + t - 1 /\ bs[t].units = cut(t)
  BY <1>7 DEF e
<1>9. First(d + 1) \in UnitOf(Nat) /\ \A t \in 1 .. n : at(t) \in UnitOf(Nat)
  BY <1>4 DEF First, UnitOf
<1>10. at(1) = First(d)
  <2>1. lo(1) = 0
    BY <1>1 DEF lo
  <2> QED
    BY <2>1 DEF First
<1> HIDE DEF at
<1>11. f \in [1 .. n + 1 -> UnitOf(Nat)] /\ f[1] = First(d) /\ f[n + 1] = First(d + 1)
       /\ \A t \in 1 .. n : f[t] = at(t)
  <2>1. 1 \in 1 .. n + 1 /\ n + 1 \in 1 .. n + 1 /\ 1 <= n /\ ~(n + 1 <= n)
        /\ \A t \in 1 .. n : t \in 1 .. n + 1 /\ t <= n
    BY <1>3
  <2>2. f \in [1 .. n + 1 -> UnitOf(Nat)]
    <3>1. \A t \in 1 .. n + 1 : t <= n => t \in 1 .. n
      BY <1>3
    <3> QED
      BY <1>9, <3>1
  <2> QED
    BY <1>10, <2>1, <2>2
<1>12. ASSUME NEW t \in 1 .. n PROVE f[t + 1] = After(cut(t), at(t))
  <2>1. CASE t < n
    <3>1. t + 1 \in 1 .. n /\ hi(t) < L /\ hi(t) = lo(t + 1)
      BY <1>3, <1>4, <2>1
    <3>2. f[t + 1] = at(t + 1)
      BY <1>11, <3>1
    <3>3. at(t + 1) = [request |-> d + 1, unit |-> hi(t) + 1]
      BY <3>1 DEF at
    <3> HIDE DEF f
    <3> QED
      BY <1>5, <3>1, <3>2, <3>3
  <2>2. CASE t = n
    <3>1. ~(hi(t) < L)
      BY <1>3, <1>4, <2>2
    <3> HIDE DEF f
    <3> QED
      BY <1>5, <1>11, <2>2, <3>1
  <2> QED
    BY <1>3, <2>1, <2>2
<1> HIDE DEF f
<1>13. ASSUME NEW t \in 1 .. n
       PROVE  /\ Len(bs[t].units) \in 1 .. M /\ Chain(bs[t].units, f[t])
              /\ f[t + 1] = After(bs[t].units, f[t])
  <2>1. Len(cut(t)) \in 1 .. M
    BY <1>1, <1>4, <1>5
  <2> QED
    BY <1>5, <1>8, <1>11, <1>12, <2>1
<1>14. Carries(bs, First(d), First(d + 1))
  <2>1. Len(bs) = n
    BY <1>7
  <2> QED
    BY <1>11, <1>13, <2>1 DEF Carries, M
<1> QED
  BY <1>3, <1>7, <1>8, <1>14 DEF bs, U

(* What may be on the wire. *)
ItemOf(R) == UnitOf(R) \union PieceSet(BlockOf(R))

(* The answers under way, block after block, from one count to another. *)
Framed(b, rx, tx) ==
  \E f \in [1 .. Len(b) + 1 -> Nat] :
    /\ f[1] = rx.nonce /\ f[Len(b) + 1] = tx.nonce /\ rx.key = tx.key
    /\ \A i \in 1 .. Len(b) :
         /\ b[i].frames # << >> /\ f[i + 1] = f[i] + Len(b[i].frames)
         /\ b[i].frames = Frames([key |-> rx.key, nonce |-> f[i]], Len(b[i].frames))

LEMMA FramedNone ==
  ASSUME NEW rx \in Counters
  PROVE  Framed(<< >>, rx, rx)
<1> DEFINE f == [i \in 1 .. 1 |-> rx.nonce]
<1>1. rx.nonce \in Nat
  BY DEF Counters
<1>2. f \in [1 .. 0 + 1 -> Nat] /\ f[1] = rx.nonce /\ f[0 + 1] = rx.nonce
  BY <1>1
<1>3. Len(<< >>) = 0
  OBVIOUS
<1> HIDE DEF f
<1> QED
  BY <1>2, <1>3 DEF Framed

LEMMA AppendIs ==
  ASSUME NEW S, NEW s \in Seq(S), NEW e \in S
  PROVE  /\ Append(s, e) \in Seq(S) /\ Len(Append(s, e)) = Len(s) + 1
         /\ \A i \in 1 .. Len(s) : Append(s, e)[i] = s[i]
         /\ Append(s, e)[Len(s) + 1] = e
OBVIOUS

LEMMA FramedAppend ==
  ASSUME NEW b \in Seq(Answers), NEW a \in Answers, NEW rx \in Counters, NEW tx \in Counters,
         NEW next \in Counters, NEW n \in Nat \ {0},
         Framed(b, rx, tx), a.frames = Frames(tx, n), next.key = tx.key, next.nonce = tx.nonce + n
  PROVE  Framed(Append(b, a), rx, next)
<1> DEFINE m == Len(b)
           c == Append(b, a)
<1>1. m \in Nat /\ Len(c) = m + 1 /\ (\A i \in 1 .. m : c[i] = b[i]) /\ c[m + 1] = a
  BY AppendIs, LenIs
<1>2. PICK f \in [1 .. m + 1 -> Nat] :
        /\ f[1] = rx.nonce /\ f[m + 1] = tx.nonce /\ rx.key = tx.key
        /\ \A i \in 1 .. m :
             /\ b[i].frames # << >> /\ f[i + 1] = f[i] + Len(b[i].frames)
             /\ b[i].frames = Frames([key |-> rx.key, nonce |-> f[i]], Len(b[i].frames))
  BY DEF Framed
<1>3. /\ Len(a.frames) = n /\ a.frames # << >>
      /\ a.frames = Frames([key |-> rx.key, nonce |-> tx.nonce], n)
  <2>1. Frames(tx, n) \in Seq(Counters) /\ Len(Frames(tx, n)) = n
    BY FramesAre
  <2>2. Frames(tx, n) # << >>
    BY <2>1, LenIs
  <2>3. Frames(tx, n) = Frames([key |-> tx.key, nonce |-> tx.nonce], n)
    BY DEF Frames
  <2> QED
    BY <1>2, <2>1, <2>2, <2>3
<1> HIDE DEF m, c
<1> DEFINE g == [i \in 1 .. (m + 1) + 1 |-> IF i <= m + 1 THEN f[i] ELSE next.nonce]
<1>4. g \in [1 .. (m + 1) + 1 -> Nat]
  <2>1. next.nonce \in Nat
    BY DEF Counters
  <2> QED
    BY <1>1, <2>1
<1>5. (\A i \in 1 .. m + 1 : g[i] = f[i]) /\ g[(m + 1) + 1] = next.nonce
  BY <1>1
<1> HIDE DEF g
<1>6. ASSUME NEW i \in 1 .. m + 1
      PROVE  /\ c[i].frames # << >> /\ g[i + 1] = g[i] + Len(c[i].frames)
             /\ c[i].frames = Frames([key |-> rx.key, nonce |-> g[i]], Len(c[i].frames))
  <2>1. CASE i <= m
    <3>1. i \in 1 .. m /\ i + 1 \in 1 .. m + 1
      BY <1>1, <2>1
    <3>2. g[i] = f[i] /\ g[i + 1] = f[i + 1] /\ c[i] = b[i]
      BY <1>1, <1>5, <3>1
    <3> QED
      BY <1>2, <3>1, <3>2
  <2>2. CASE i = m + 1
    <3>1. g[i] = tx.nonce /\ g[i + 1] = tx.nonce + n /\ c[i] = a
      BY <1>1, <1>2, <1>5, <2>2
    <3> QED
      BY <1>3, <3>1
  <2> QED
    BY <1>1, <2>1, <2>2
<1>7. g[1] = rx.nonce /\ rx.key = next.key
  BY <1>1, <1>2, <1>5
<1>8. Framed(c, rx, next)
  <2>1. \E h \in [1 .. Len(c) + 1 -> Nat] :
          /\ h[1] = rx.nonce /\ h[Len(c) + 1] = next.nonce /\ rx.key = next.key
          /\ \A i \in 1 .. Len(c) :
               /\ c[i].frames # << >> /\ h[i + 1] = h[i] + Len(c[i].frames)
               /\ c[i].frames = Frames([key |-> rx.key, nonce |-> h[i]], Len(c[i].frames))
    <3>1. Len(c) = m + 1
      BY <1>1
    <3> QED
      BY <1>4, <1>5, <1>6, <1>7, <3>1
  <2> QED
    BY <2>1 DEF Framed
<1> QED
  BY <1>8 DEF c

LEMMA FramedHead ==
  ASSUME NEW b \in Seq(Answers), b # << >>, NEW rx \in Counters, NEW tx \in Counters,
         NEW next \in Counters, Framed(b, rx, tx),
         next.key = rx.key, next.nonce = rx.nonce + Len(b[1].frames)
  PROVE  /\ b[1].frames = Frames(rx, Len(b[1].frames)) /\ b[1].frames # << >>
         /\ Framed(Tail(b), next, tx)
<1> DEFINE m == Len(b)
           c == Tail(b)
<1>1. m \in Nat \ {0} /\ Len(c) = m - 1 /\ \A i \in 1 .. m - 1 : c[i] = b[i + 1]
  BY HeadTailProperties, LenIs
<1>2. PICK f \in [1 .. m + 1 -> Nat] :
        /\ f[1] = rx.nonce /\ f[m + 1] = tx.nonce /\ rx.key = tx.key
        /\ \A i \in 1 .. m :
             /\ b[i].frames # << >> /\ f[i + 1] = f[i] + Len(b[i].frames)
             /\ b[i].frames = Frames([key |-> rx.key, nonce |-> f[i]], Len(b[i].frames))
  BY DEF Framed
<1> HIDE DEF m, c
<1>3. /\ b[1].frames = Frames([key |-> rx.key, nonce |-> rx.nonce], Len(b[1].frames))
      /\ b[1].frames # << >> /\ f[1 + 1] = next.nonce
  <2>1. 1 \in 1 .. m
    BY <1>1
  <2> QED
    BY <1>2, <2>1
<1>4. Frames([key |-> rx.key, nonce |-> rx.nonce], Len(b[1].frames)) = Frames(rx, Len(b[1].frames))
  BY DEF Frames
<1> DEFINE g == [i \in 1 .. m |-> f[i + 1]]
<1>5. g \in [1 .. m -> Nat] /\ g[1] = next.nonce /\ g[m] = tx.nonce
  BY <1>1, <1>2, <1>3
<1>6. ASSUME NEW i \in 1 .. m - 1
      PROVE  /\ c[i].frames # << >> /\ g[i + 1] = g[i] + Len(c[i].frames)
             /\ c[i].frames = Frames([key |-> next.key, nonce |-> g[i]], Len(c[i].frames))
  <2>1. i + 1 \in 1 .. m /\ i \in 1 .. m /\ c[i] = b[i + 1]
    BY <1>1
  <2>2. g[i] = f[i + 1] /\ g[i + 1] = f[(i + 1) + 1]
    BY <2>1
  <2> HIDE DEF g
  <2> QED
    BY <1>2, <2>1, <2>2
<1> HIDE DEF g
<1>7. \E h \in [1 .. Len(c) + 1 -> Nat] :
        /\ h[1] = next.nonce /\ h[Len(c) + 1] = tx.nonce /\ next.key = tx.key
        /\ \A i \in 1 .. Len(c) :
             /\ c[i].frames # << >> /\ h[i + 1] = h[i] + Len(c[i].frames)
             /\ c[i].frames = Frames([key |-> next.key, nonce |-> h[i]], Len(c[i].frames))
  <2>1. Len(c) = m - 1 /\ Len(c) + 1 = m
    BY <1>1
  <2> QED
    BY <1>2, <1>5, <1>6, <2>1
<1> QED
  BY <1>3, <1>4, <1>7 DEF Framed, c

LEMMA NothingAbove ==
  ASSUME NEW n \in Nat, NEW s \in Seq(UnitOf(1 .. n)), Chain(s, First(n))
  PROVE  s = << >> /\ After(s, First(n)) = First(n)
<1>1. ASSUME s # << >> PROVE FALSE
  <2>1. 1 \in 1 .. Len(s) /\ s[1] = First(n)
    <3>1. Len(s) \in Nat /\ Len(s) # 0
      BY <1>1, LenIs
    <3> QED
      BY <1>1, <3>1 DEF Chain
  <2>2. s[1] \in UnitOf(1 .. n)
    BY <2>1, ElementOfSeq
  <2> QED
    BY <2>1, <2>2 DEF UnitOf, First
<1>2. s = << >>
  BY <1>1
<1> QED
  BY <1>2 DEF After

LEMMA NoBlocksAbove ==
  ASSUME NEW n \in Nat, NEW bs \in Seq(BlockOf(1 .. n)), NEW z, Carries(bs, First(n), z)
  PROVE  bs = << >>
<1>1. ASSUME bs # << >> PROVE FALSE
  <2>1. 1 \in 1 .. Len(bs)
    <3>1. Len(bs) \in Nat /\ Len(bs) # 0
      BY <1>1, LenIs
    <3> QED
      BY <3>1
  <2>2. bs[1].units \in Seq(UnitOf(1 .. n))
    <3>1. bs[1] \in BlockOf(1 .. n)
      BY <2>1, ElementOfSeq
    <3> QED
      BY <3>1 DEF BlockOf
  <2> DEFINE u == bs[1].units
  <2>3. Len(u) \in 1 .. RTSP_ENCRYPTED_BLOCK_MAX /\ Chain(u, First(n))
    BY <1>1, CarriesHead
  <2> HIDE DEF u
  <2>4. u = << >>
    BY <2>2, <2>3, NothingAbove DEF u
  <2> QED
    BY <2>3, <2>4
<1> QED
  BY <1>1

-----------------------------------------------------------------------------
(* The invariant of a connection.  Its types: R are the requests of which  *)
(* anything can be under way.                                              *)
ScriptType ==
  /\ script \in Scripts /\ sent \in 0 .. Len(script) /\ dispatched \in Seq(Nat)
  /\ broken \in BOOLEAN /\ open \in BOOLEAN
EndsType == peer \in Ends /\ channel \in Ends /\ hap \in Sessions /\ back \in Seq(Answers)
RoomType ==
  /\ errno \in {"0", "EAGAIN"} /\ capacity \in {RTSP_BUFFER_INITIAL, RTSP_BUFFER_LARGE}
  /\ Len(buffer) <= capacity /\ Len(reader) <= 3
Flight(R) ==
  buffer \in Seq(UnitOf(R)) /\ wire \in Seq(ItemOf(R)) /\ reader \in Seq(ItemOf(R))
(* The client's patience: the answers under way are those of the last      *)
(* requests dispatched, and a request that pairs has nothing beside it.    *)
Waits ==
  /\ D <= sent /\ Len(back) <= D
  /\ \A i \in 1 .. Len(back) : back[i].to = D - Len(back) + i
  /\ \A r \in D + 1 .. sent : script[r].do \in Pairing => r = sent /\ D + 1 = sent /\ back = << >>
(* Encryption follows a request that turns it on, and what the second      *)
(* message of a pairing finds is what the first has left.                  *)
Paired ==
  /\ channel.encrypted => \E r \in 1 .. D : Encrypts(script, r)
  /\ D >= 1 /\ ~channel.encrypted =>
       /\ script[D].do = "verify1" => channel.tx.key = VerifyKey(Curve)
       /\ script[D].do = "setup1" => hap.transient = script[D].transient
(* No frame, and no block half read, before encryption. *)
BothClear ==
  /\ channel.tx.nonce = 0 /\ channel.rx.nonce = 0 /\ reader = << >>
  /\ \A i \in 1 .. Len(back) :
       back[i].frames = << >> /\ script[back[i].to].do # "verify3"
         /\ ~(back[i].ok /\ script[back[i].to].do = "setup3")
(* The receiver has turned to encryption and the client has not: it is     *)
(* about to, with M4 of pair-setup under way to it in the clear, or it     *)
(* never will, with M4 of pair-verify under way, or met, that it cannot    *)
(* read.                                                                   *)
PeerToTurn ==
  /\ D = sent /\ sent >= 1 /\ script[sent].do = "setup3" /\ Len(back) = 1 /\ back[1].ok
  /\ back[1].frames = << >>
  /\ channel.tx = Counter(ReadKey(back[1].proof)) /\ channel.rx = Counter(WriteKey(back[1].proof))
PeerIsLost ==
  /\ D = sent /\ sent >= 1 /\ script[sent].do = "verify3"
  /\ ~broken => Len(back) = 1 /\ back[1].frames # << >>
(* What the two ends know of each other: keys, counters, encryption. *)
Agree ==
  /\ ~channel.encrypted => BothClear /\ ~peer.encrypted /\ ~broken
  /\ channel.encrypted /\ ~peer.encrypted => (~broken /\ PeerToTurn) \/ PeerIsLost
  /\ peer.encrypted /\ channel.encrypted => ~broken /\ Framed(back, peer.rx, channel.tx)
(* What is under way continues the buffer up to the last request sent: as  *)
(* units, or as blocks in the keys and with the counters of both ends.     *)
InTheClear ==
  /\ wire \in Seq(UnitOf(1 .. sent)) /\ Chain(wire, After(buffer, First(D)))
  /\ After(wire, After(buffer, First(D))) = First(sent)
Sealed ==
  \E bs \in Seq(BlockOf(1 .. sent)) :
    /\ reader \o wire = Pieces(bs)
    /\ Carries(bs, After(buffer, First(D)), First(sent))
    /\ \A t \in 1 .. Len(bs) :
         bs[t].key = channel.rx.key /\ bs[t].nonce = channel.rx.nonce + t - 1
    /\ peer.encrypted =>
         peer.tx.key = channel.rx.key /\ peer.tx.nonce = channel.rx.nonce + Len(bs)
(* The buffer starts with the next request, unless the last request was    *)
(* too large and what had come of it is dropped.                           *)
Flow ==
  /\ Chain(buffer, First(D))
  /\ IF channel.encrypted THEN Sealed ELSE InTheClear
  /\ reader # << >> => Len(buffer) + Room <= capacity
Dropped ==
  /\ D + 1 = sent /\ sent = Len(script) /\ script[sent].size > RTSP_BUFFER_LARGE
  /\ Flight({sent})
Pairs == Waits /\ Paired /\ Agree /\ AnswersReadable
ChannelIInv ==
  /\ ScriptType /\ EndsType /\ RoomType /\ Flight(1 .. sent)
  /\ InOrder /\ Pairs /\ (Dropped \/ Flow)

LEMMA ScriptIs ==
  ASSUME ScriptType
  PROVE  /\ Orderly(script) /\ script \in Seq(Requests) /\ Len(script) \in Nat /\ sent \in Nat
         /\ sent <= Len(script) /\ D \in Nat
<1>1. Orderly(script)
  BY ScriptAssumption DEF ScriptType
<1>2. script \in Seq(Requests)
  BY <1>1 DEF Orderly
<1>3. Len(script) \in Nat /\ D \in Nat
  BY <1>2, LenIs DEF ScriptType, D
<1> QED
  BY <1>1, <1>2, <1>3 DEF ScriptType

LEMMA SetsGrow ==
  ASSUME NEW P, NEW Q, P \subseteq Q
  PROVE  UnitOf(P) \subseteq UnitOf(Q) /\ BlockOf(P) \subseteq BlockOf(Q) /\ ItemOf(P) \subseteq ItemOf(Q)
<1>1. UnitOf(P) \subseteq UnitOf(Q)
  BY DEF UnitOf
<1>2. Seq(UnitOf(P)) \subseteq Seq(UnitOf(Q))
  BY <1>1, SeqMonotonic
<1>3. BlockOf(P) \subseteq BlockOf(Q)
  BY <1>2 DEF BlockOf
<1>4. PieceSet(BlockOf(P)) \subseteq PieceSet(BlockOf(Q))
  BY <1>3 DEF PieceSet
<1> QED
  BY <1>1, <1>3, <1>4 DEF ItemOf

LEMMA FlightGrows ==
  ASSUME NEW P, NEW Q, P \subseteq Q, Flight(P)
  PROVE  Flight(Q)
<1>1. UnitOf(P) \subseteq UnitOf(Q) /\ ItemOf(P) \subseteq ItemOf(Q)
  BY SetsGrow
<1>2. buffer \in Seq(UnitOf(P)) /\ wire \in Seq(ItemOf(P)) /\ reader \in Seq(ItemOf(P))
  BY DEF Flight
<1>3. buffer \in Seq(UnitOf(Q)) /\ wire \in Seq(ItemOf(Q)) /\ reader \in Seq(ItemOf(Q))
  BY <1>1, <1>2, SeqMonotonic
<1> QED
  BY <1>3 DEF Flight

LEMMA EmptyIsSeq ==
  ASSUME NEW S
  PROVE  << >> \in Seq(S) /\ Len(<< >>) = 0
BY EmptySeq

LEMMA ChannelInitIInv == ChannelInit => ChannelIInv
<1> SUFFICES ASSUME ChannelInit PROVE ChannelIInv
  OBVIOUS
<1>1. /\ script \in Scripts /\ sent = 0 /\ peer = Plain /\ broken = FALSE
      /\ wire = << >> /\ back = << >> /\ channel = Plain /\ reader = << >>
  BY DEF ChannelInit
<1>2. /\ hap = [setup |-> 0, verify |-> 0, transient |-> FALSE, srp |-> 0, verified |-> FALSE,
            established |-> FALSE]
      /\ errno = "0" /\ buffer = << >> /\ capacity = RTSP_BUFFER_INITIAL
      /\ dispatched = << >> /\ open = TRUE
  BY DEF ChannelInit
<1>3. ScriptType
  <2>1. Len(script) \in Nat
    <3>1. Orderly(script)
      BY <1>1, ScriptAssumption
    <3>2. script \in Seq(Requests)
      BY <3>1 DEF Orderly
    <3> QED
      BY <3>2, LenIs
  <2>2. << >> \in Seq(Nat)
    BY EmptyIsSeq
  <2>3. sent \in 0 .. Len(script)
    BY <1>1, <2>1
  <2>4. broken \in BOOLEAN /\ open \in BOOLEAN
    BY <1>1, <1>2
  <2>5. script \in Scripts /\ dispatched \in Seq(Nat)
    BY <1>1, <1>2, <2>2
  <2> QED
    BY <2>3, <2>4, <2>5 DEF ScriptType
<1>4. Plain \in Ends /\ ~Plain.encrypted /\ Plain.tx.nonce = 0 /\ Plain.rx.nonce = 0
  <2>1. Counter(NoKey) \in Counters /\ Counter(NoKey).nonce = 0
    <3>1. NoKey \in Keys
      BY DEF Keys
    <3> QED
      BY <3>1, CounterIs
  <2> QED
    BY <2>1 DEF Plain, Ends
<1>5. EndsType
  <2>1. hap \in Sessions
    BY <1>2 DEF Sessions
  <2>2. << >> \in Seq(Answers)
    BY EmptyIsSeq
  <2> QED
    BY <1>1, <1>4, <2>1, <2>2 DEF EndsType
<1>6. D = 0 /\ Len(back) = 0 /\ Len(buffer) = 0 /\ Len(reader) = 0
  BY <1>1, <1>2, EmptyIsSeq DEF D
<1>7. RoomType
  BY <1>2, <1>6, BufferAssumption DEF RoomType
<1>8. Flight(1 .. sent)
  BY <1>1, <1>2, EmptyIsSeq DEF Flight
<1>9. InOrder
  <2>1. DOMAIN dispatched = {}
    BY <1>2
  <2> QED
    BY <2>1 DEF InOrder
<1>10. Pairs
  <2>1. Waits
    BY <1>1, <1>6 DEF Waits
  <2>2. Paired
    BY <1>1, <1>4, <1>6 DEF Paired
  <2>3. BothClear
    BY <1>1, <1>4, <1>6 DEF BothClear
  <2>4. Agree
    BY <1>1, <1>4, <2>3 DEF Agree
  <2> QED
    BY <1>1, <2>1, <2>2, <2>4 DEF Pairs, AnswersReadable
<1>11. Flow
  <2>1. << >> \in Seq(UnitOf(1 .. sent))
    BY EmptyIsSeq
  <2>2. Chain(<< >>, First(D)) /\ After(<< >>, First(D)) = First(D)
    BY EmptyIsSeq DEF Chain, After
  <2>3. InTheClear
    BY <1>1, <1>2, <1>6, <2>1, <2>2 DEF InTheClear
  <2> QED
    BY <1>1, <1>2, <1>4, <2>2, <2>3 DEF Flow
<1> QED
  BY <1>3, <1>5, <1>7, <1>8, <1>9, <1>10, <1>11 DEF ChannelIInv

-----------------------------------------------------------------------------
(* The client sends. *)
LEMMA SameScript ==
  ASSUME script' = script
  PROVE  /\ \A s, a : Chain(s, a)' <=> Chain(s, a)
         /\ \A s, a : After(s, a)' = After(s, a)
         /\ \A s, a, z : Carries(s, a, z)' <=> Carries(s, a, z)
<1>1. \A a : Succ(a)' = Succ(a)
  BY DEF Succ
<1>2. \A s, a : Chain(s, a)' <=> Chain(s, a)
  BY <1>1 DEF Chain
<1>3. \A s, a : After(s, a)' = After(s, a)
  BY <1>1 DEF After
<1>4. \A s, a, z : Carries(s, a, z)' <=> Carries(s, a, z)
  BY <1>2, <1>3 DEF Carries
<1> QED
  BY <1>2, <1>3, <1>4

(* A client that has an answer to its last request has every answer. *)
LEMMA AnsweredIs ==
  ASSUME ScriptType, EndsType, Waits, sent >= 1, Answered(sent)
  PROVE  D = sent /\ back = << >>
<1>1. sent \in Nat /\ D \in Nat /\ Len(back) \in Nat
  BY ScriptIs, LenIs DEF EndsType
<1>2. D = sent
  <2>1. sent <= Len(dispatched)
    BY DEF Answered
  <2> QED
    BY <1>1, <2>1 DEF Waits, D
<1>3. ASSUME Len(back) # 0 PROVE FALSE
  <2>1. Len(back) \in 1 .. Len(back) /\ DOMAIN back = 1 .. Len(back)
    BY <1>1, <1>3, LenProperties DEF EndsType
  <2>2. back[Len(back)].to = D
    <3>1. back[Len(back)].to = D - Len(back) + Len(back)
      BY <2>1 DEF Waits
    <3> QED
      BY <1>1, <3>1
  <2> QED
    BY <1>2, <2>1, <2>2 DEF Answered
<1>4. back = << >>
  <2>1. Len(back) = 0
    BY <1>3
  <2> QED
    BY <2>1, LenIs DEF EndsType
<1> QED
  BY <1>2, <1>4

LEMMA SendMoves ==
  ASSUME Send
  PROVE  /\ script' = script /\ broken' = broken /\ back' = back /\ channel' = channel /\ hap' = hap
         /\ reader' = reader /\ errno' = errno /\ buffer' = buffer /\ capacity' = capacity
         /\ dispatched' = dispatched /\ open' = open /\ D' = D
         /\ sent' = sent + 1 /\ sent < Len(script) /\ ~broken
BY DEF Send, D

LEMMA SendTogether ==
  ASSUME ChannelIInv, Send
  PROVE  /\ peer.encrypted <=> channel.encrypted
         /\ Flow
         /\ sent >= 1 /\ (script[sent].do \in Pairing \/ script[sent + 1].do \in Pairing)
              => D = sent /\ back = << >>
         /\ \A r \in D + 1 .. sent : script[r].do \notin Pairing
<1>0. ScriptType /\ EndsType /\ Waits /\ Agree
  BY DEF ChannelIInv, Pairs
<1>1. sent \in Nat /\ D \in Nat /\ Len(script) \in Nat /\ sent < Len(script)
  BY <1>0, ScriptIs, SendMoves
<1>2. ASSUME sent >= 1, script[sent].do \in Pairing \/ script[sent + 1].do \in Pairing
      PROVE  D = sent /\ back = << >>
  <2>1. sent > 0 /\ {script[sent].do, script[sent + 1].do} \cap Pairing # {} => Answered(sent)
    BY DEF Send
  <2>2. sent > 0 /\ {script[sent].do, script[sent + 1].do} \cap Pairing # {}
    BY <1>1, <1>2
  <2>3. Answered(sent)
    BY <2>1, <2>2
  <2> QED
    BY <1>0, <1>2, <2>3, AnsweredIs
<1>3. Len(<< >>) = 0
  OBVIOUS
<1>4. ~(channel.encrypted /\ ~peer.encrypted)
  <2> SUFFICES ASSUME channel.encrypted, ~peer.encrypted PROVE FALSE
    OBVIOUS
  <2>1. sent >= 1 /\ script[sent].do \in {"setup3", "verify3"} /\ Len(back) = 1
    BY <1>0, SendMoves DEF Agree, PeerToTurn, PeerIsLost
  <2>2. back = << >>
    BY <1>2, <2>1 DEF Pairing
  <2> QED
    BY <1>3, <2>1, <2>2
<1>5. ~(peer.encrypted /\ ~channel.encrypted)
  BY <1>0 DEF Agree
<1>6. peer.encrypted <=> channel.encrypted
  BY <1>4, <1>5
<1>7. Flow
  <2>1. ~Dropped
    BY <1>1 DEF Dropped
  <2> QED
    BY <2>1 DEF ChannelIInv
<1>8. ASSUME NEW r \in D + 1 .. sent, script[r].do \in Pairing PROVE FALSE
  <2>1. r = sent /\ sent >= 1
    BY <1>0, <1>1, <1>8 DEF Waits
  <2>2. D = sent
    BY <1>2, <1>8, <2>1
  <2> QED
    BY <1>1, <2>1, <2>2
<1> QED
  BY <1>2, <1>6, <1>7, <1>8

LEMMA SendSeals ==
  ASSUME ChannelIInv, Send, channel.encrypted
  PROVE  LET blocks == Blocks(peer.tx, Units(sent + 1))
         IN  /\ wire' = wire \o Pieces(blocks)
             /\ peer' \in Ends /\ peer'.encrypted /\ peer'.rx = peer.rx
             /\ peer'.tx.key = peer.tx.key /\ peer'.tx.nonce = peer.tx.nonce + Len(blocks)
             /\ blocks \in Seq(BlockOf(1 .. sent + 1))
             /\ \A t \in 1 .. Len(blocks) :
                  blocks[t].key = peer.tx.key /\ blocks[t].nonce = peer.tx.nonce + t - 1
             /\ Carries(blocks, First(sent), First(sent + 1))
<1> DEFINE blocks == Blocks(peer.tx, Units(sent + 1))
<1>1. peer.encrypted
  BY SendTogether
<1>2. /\ wire' = wire \o Pieces(blocks)
      /\ peer' = [peer EXCEPT !.tx.nonce = @ + Len(blocks)]
  BY <1>1 DEF Send
<1>3. peer \in Ends /\ peer.tx \in Counters /\ peer.rx \in Counters /\ peer.encrypted \in BOOLEAN
  BY DEF ChannelIInv, EndsType, Ends
<1>4. script \in Seq(Requests) /\ sent \in Nat /\ sent + 1 <= Len(script)
  <2>1. ScriptType
    BY DEF ChannelIInv
  <2>2. sent < Len(script)
    BY SendMoves
  <2> QED
    BY <2>1, <2>2, ScriptIs
<1>5. /\ blocks \in Seq(BlockOf(1 .. sent + 1)) /\ Len(blocks) \in Nat
      /\ \A t \in 1 .. Len(blocks) :
           blocks[t].key = peer.tx.key /\ blocks[t].nonce = peer.tx.nonce + t - 1
      /\ Carries(blocks, First(sent), First(sent + 1))
  BY <1>3, <1>4, BlocksAre
<1> HIDE DEF blocks
<1>6. /\ peer' \in Ends /\ peer'.encrypted /\ peer'.rx = peer.rx
      /\ peer'.tx.key = peer.tx.key /\ peer'.tx.nonce = peer.tx.nonce + Len(blocks)
  <2> DEFINE n == Len(blocks)
  <2>1. n \in Nat /\ peer' = [peer EXCEPT !.tx.nonce = @ + n]
    BY <1>2, <1>5
  <2> HIDE DEF n
  <2>2. /\ peer' \in Ends /\ peer'.encrypted /\ peer'.rx = peer.rx
        /\ peer'.tx.key = peer.tx.key /\ peer'.tx.nonce = peer.tx.nonce + n
    BY <1>1, <1>3, <2>1 DEF Ends, Counters
  <2> QED
    BY <2>2 DEF n
<1> QED
  BY <1>2, <1>5, <1>6 DEF blocks

LEMMA SendClear ==
  ASSUME ChannelIInv, Send, ~channel.encrypted
  PROVE  /\ wire' = wire \o Units(sent + 1)
         /\ peer' \in Ends /\ peer' = peer /\ ~peer.encrypted
<1>1. ~peer.encrypted
  BY SendTogether
<1>2. wire' = wire \o Units(sent + 1) /\ peer' = peer
  BY <1>1 DEF Send
<1>3. peer \in Ends
  BY DEF ChannelIInv, EndsType
<1> QED
  BY <1>1, <1>2, <1>3

LEMMA SendTypes ==
  ASSUME ChannelIInv, Send
  PROVE  ScriptType' /\ EndsType' /\ RoomType' /\ Flight(1 .. sent)' /\ InOrder'
<1>0. ScriptType /\ EndsType /\ RoomType /\ Flight(1 .. sent) /\ InOrder
  BY DEF ChannelIInv
<1>1. sent \in Nat /\ Len(script) \in Nat
  BY <1>0, ScriptIs
<1>2. ScriptType'
  <2>1. script' = script /\ sent' = sent + 1 /\ sent < Len(script) /\ dispatched' = dispatched
        /\ broken' = broken /\ open' = open
    BY SendMoves
  <2>2. sent' \in 0 .. Len(script')
    BY <1>1, <2>1
  <2>3. script' \in Scripts /\ dispatched' \in Seq(Nat) /\ broken' \in BOOLEAN /\ open' \in BOOLEAN
    BY <1>0, <2>1 DEF ScriptType
  <2> QED
    BY <2>2, <2>3 DEF ScriptType
<1>3. EndsType'
  <2>1. peer' \in Ends
    BY SendSeals, SendClear
  <2> QED
    BY <1>0, <2>1, SendMoves DEF EndsType
<1>4. RoomType' /\ InOrder'
  BY <1>0, SendMoves DEF RoomType, InOrder
<1>5. Flight(1 .. sent)'
  <2>1. 1 .. sent \subseteq 1 .. sent + 1 /\ sent' = sent + 1
    BY <1>1, SendMoves
  <2>2. Flight(1 .. sent + 1)
    BY <1>0, <2>1, FlightGrows
  <2>3. buffer \in Seq(UnitOf(1 .. sent + 1)) /\ reader \in Seq(ItemOf(1 .. sent + 1))
        /\ wire \in Seq(ItemOf(1 .. sent + 1))
    BY <2>2 DEF Flight
  <2>4. wire' \in Seq(ItemOf(1 .. sent + 1))
    <3>1. CASE channel.encrypted
      <4> DEFINE blocks == Blocks(peer.tx, Units(sent + 1))
                 p == Pieces(blocks)
      <4>1. wire' = wire \o p /\ blocks \in Seq(BlockOf(1 .. sent + 1))
        BY <3>1, SendSeals
      <4>2. p \in Seq(PieceSet(BlockOf(1 .. sent + 1)))
        BY <4>1, PiecesAre
      <4>3. PieceSet(BlockOf(1 .. sent + 1)) \subseteq ItemOf(1 .. sent + 1)
        BY DEF ItemOf
      <4> HIDE DEF p
      <4>4. p \in Seq(ItemOf(1 .. sent + 1))
        BY <4>2, <4>3, SeqMonotonic
      <4> QED
        BY <2>3, <4>1, <4>4, ConcatProperties
    <3>2. CASE ~channel.encrypted
      <4> DEFINE u == Units(sent + 1)
      <4>1. wire' = wire \o u
        BY <3>2, SendClear
      <4>2. u \in Seq(UnitOf(1 .. sent + 1))
        <5>1. script \in Seq(Requests) /\ sent + 1 <= Len(script)
          <6>1. sent < Len(script)
            BY SendMoves
          <6> QED
            BY <1>0, <1>1, <6>1, ScriptIs
        <5> QED
          BY <1>1, <5>1, ChainUnits
      <4>3. UnitOf(1 .. sent + 1) \subseteq ItemOf(1 .. sent + 1)
        BY DEF ItemOf
      <4> HIDE DEF u
      <4>4. u \in Seq(ItemOf(1 .. sent + 1))
        BY <4>2, <4>3, SeqMonotonic
      <4> QED
        BY <2>3, <4>1, <4>4, ConcatProperties
    <3> QED
      BY <3>1, <3>2
  <2>5. buffer' = buffer /\ reader' = reader
    BY SendMoves
  <2> QED
    BY <2>1, <2>3, <2>4, <2>5 DEF Flight
<1> QED
  BY <1>2, <1>3, <1>4, <1>5

LEMMA SendPairs ==
  ASSUME ChannelIInv, Send
  PROVE  Pairs'
<1>0. ScriptType /\ EndsType /\ Waits /\ Paired /\ Agree /\ AnswersReadable
  BY DEF ChannelIInv, Pairs
<1>1. sent \in Nat /\ D \in Nat /\ Len(script) \in Nat /\ sent < Len(script) /\ Len(back) \in Nat
  BY <1>0, ScriptIs, SendMoves, LenIs DEF EndsType
<1>2. /\ script' = script /\ back' = back /\ channel' = channel /\ hap' = hap /\ D' = D
      /\ sent' = sent + 1 /\ reader' = reader
  BY SendMoves
<1>3. script[sent + 1].do \in Pairing => D = sent /\ back = << >>
  <2>1. CASE sent >= 1
    BY <2>1, SendTogether
  <2>2. CASE sent = 0
    <3>1. D = 0 /\ Len(back) = 0
      BY <1>0, <1>1, <2>2 DEF Waits
    <3>2. back = << >>
      BY <1>0, <3>1, LenIs DEF EndsType
    <3> QED
      BY <2>2, <3>1, <3>2
  <2> QED
    BY <1>1, <2>1, <2>2
<1>4. Waits'
  <2>1. D <= sent + 1 /\ Len(back) <= D /\ \A i \in 1 .. Len(back) : back[i].to = D - Len(back) + i
    <3>1. D <= sent /\ Len(back) <= D /\ \A i \in 1 .. Len(back) : back[i].to = D - Len(back) + i
      BY <1>0, Zenon DEF Waits
    <3>2. D <= sent + 1
      BY <1>1, <3>1
    <3> QED
      BY <3>1, <3>2, Zenon
  <2>2. ASSUME NEW r \in D + 1 .. sent + 1, script[r].do \in Pairing
        PROVE  r = sent + 1 /\ D + 1 = sent + 1 /\ back = << >>
    <3>1. r \notin D + 1 .. sent
      BY <2>2, SendTogether
    <3>2. r = sent + 1
      BY <1>1, <3>1
    <3> QED
      BY <1>3, <2>2, <3>2
  <2> QED
    BY <1>2, <2>1, <2>2 DEF Waits
<1>5. Paired'
  BY <1>0, <1>2 DEF Paired
<1>6. BothClear' <=> BothClear
  BY <1>2 DEF BothClear
<1>7. Agree'
  <2>1. CASE channel.encrypted
    <3>1. peer'.encrypted /\ peer'.rx = peer.rx /\ peer.encrypted
      BY <2>1, SendSeals, SendTogether
    <3>2. Framed(back, peer.rx, channel.tx)
      BY <1>0, <2>1, <3>1 DEF Agree
    <3>3. Framed(back, peer.rx, channel.tx)'
      BY <1>2, <3>1, <3>2 DEF Framed, Frames
    <3> QED
      BY <1>2, <2>1, <3>1, <3>3, SendMoves DEF Agree
  <2>2. CASE ~channel.encrypted
    <3>1. BothClear'
      BY <1>0, <1>6, <2>2 DEF Agree
    <3>2. ~peer'.encrypted /\ ~broken' /\ ~channel'.encrypted
      BY <1>2, <2>2, SendClear, SendMoves
    <3> QED
      BY <3>1, <3>2 DEF Agree
  <2> QED
    BY <2>1, <2>2
<1>8. AnswersReadable'
  BY SendMoves DEF AnswersReadable
<1> QED
  BY <1>4, <1>5, <1>7, <1>8 DEF Pairs

LEMMA SendStream ==
  ASSUME ChannelIInv, Send
  PROVE  Flow'
<1>0. ScriptType /\ EndsType /\ Flight(1 .. sent) /\ Flow
  BY SendTogether DEF ChannelIInv
<1>1. sent \in Nat /\ D \in Nat /\ script \in Seq(Requests) /\ sent + 1 <= Len(script)
  <2>1. sent < Len(script)
    BY SendMoves
  <2> QED
    BY <1>0, <2>1, ScriptIs
<1>2. /\ script' = script /\ channel' = channel /\ D' = D /\ buffer' = buffer
      /\ sent' = sent + 1 /\ reader' = reader /\ capacity' = capacity
  BY SendMoves
<1>3. Chain(buffer, First(D))' /\ (reader # << >> => Len(buffer) + Room <= capacity)'
  <2>1. Chain(buffer, First(D))'
    BY <1>0, <1>2, SameScript DEF Flow, First
  <2> QED
    BY <1>0, <1>2, <2>1 DEF Flow, Room
<1> DEFINE P == After(buffer, First(D))
           R == 1 .. sent
           Q == 1 .. sent + 1
<1>4. After(buffer, First(D))' = P /\ First(sent)' = First(sent + 1)
  BY <1>2, SameScript DEF First
<1>5. UnitOf(R) \subseteq UnitOf(Q) /\ BlockOf(R) \subseteq BlockOf(Q) /\ ItemOf(R) \subseteq ItemOf(Q)
      /\ PieceSet(BlockOf(Q)) \subseteq ItemOf(Q)
  <2>1. R \subseteq Q
    BY <1>1
  <2> HIDE DEF R, Q
  <2> QED
    BY <2>1, SetsGrow DEF ItemOf
<1> HIDE DEF P, R, Q
<1>6. ASSUME ~channel.encrypted PROVE InTheClear'
  <2> DEFINE u == Units(sent + 1)
  <2>1. wire' = wire \o u
    BY <1>6, SendClear
  <2>2. wire \in Seq(UnitOf(R)) /\ Chain(wire, P) /\ After(wire, P) = First(sent)
    BY <1>0, <1>6 DEF Flow, InTheClear, P, R
  <2>3. u \in Seq(UnitOf(Q)) /\ Chain(u, First(sent)) /\ After(u, First(sent)) = First(sent + 1)
    BY <1>1, ChainUnits DEF Q
  <2> HIDE DEF u
  <2>4. wire \in Seq(UnitOf(Q))
    BY <1>5, <2>2, SeqMonotonic
  <2>5. wire \o u \in Seq(UnitOf(Q))
    BY <2>3, <2>4, ConcatProperties
  <2>6. Chain(wire \o u, P) /\ After(wire \o u, P) = First(sent + 1)
    BY <2>2, <2>3, <2>4, ChainConcat
  <2>7. wire' \in Seq(UnitOf(1 .. sent'))
    BY <1>2, <2>1, <2>5 DEF Q
  <2>8. Chain(wire, After(buffer, First(D)))' /\ (After(wire, After(buffer, First(D))) = First(sent))'
    BY <1>2, <1>4, <2>1, <2>6, SameScript
  <2> QED
    BY <2>7, <2>8 DEF InTheClear
<1>7. ASSUME channel.encrypted PROVE Sealed'
  <2>1. PICK cs \in Seq(BlockOf(Q)) :
        /\ wire' = wire \o Pieces(cs)
        /\ peer'.tx.key = peer.tx.key /\ peer'.tx.nonce = peer.tx.nonce + Len(cs)
        /\ \A t \in 1 .. Len(cs) : cs[t].key = peer.tx.key /\ cs[t].nonce = peer.tx.nonce + t - 1
        /\ Carries(cs, First(sent), First(sent + 1))
    BY <1>7, SendSeals DEF Q
  <2>2. PICK bs \in Seq(BlockOf(R)) :
          /\ reader \o wire = Pieces(bs) /\ Carries(bs, P, First(sent))
          /\ \A t \in 1 .. Len(bs) :
               bs[t].key = channel.rx.key /\ bs[t].nonce = channel.rx.nonce + t - 1
          /\ peer.encrypted =>
               peer.tx.key = channel.rx.key /\ peer.tx.nonce = channel.rx.nonce + Len(bs)
    BY <1>0, <1>7 DEF Flow, Sealed, P, R
  <2>3. peer.tx.key = channel.rx.key /\ peer.tx.nonce = channel.rx.nonce + Len(bs)
    BY <1>7, <2>2, SendTogether
  <2>4. bs \in Seq(BlockOf(Q)) /\ reader \in Seq(ItemOf(Q)) /\ wire \in Seq(ItemOf(Q))
    <3>1. wire \in Seq(ItemOf(R)) /\ reader \in Seq(ItemOf(R))
      BY <1>0 DEF Flight, R
    <3> QED
      BY <1>5, <2>2, <3>1, SeqMonotonic
  <2> DEFINE ds == bs \o cs
             p == Pieces(cs)
             m == Len(bs)
             n == Len(cs)
             k == channel.rx.nonce
  <2>5. p \in Seq(ItemOf(Q))
    <3>1. p \in Seq(PieceSet(BlockOf(Q)))
      BY <2>1, PiecesAre
    <3> HIDE DEF p
    <3> QED
      BY <1>5, <3>1, SeqMonotonic
  <2>6. m \in Nat /\ n \in Nat /\ ds \in Seq(BlockOf(Q)) /\ Len(ds) = m + n
        /\ \A i \in 1 .. m + n : ds[i] = IF i <= m THEN bs[i] ELSE cs[i - m]
    BY <2>1, <2>4, LenIs, ConcatIs
  <2>7. reader \o (wire \o p) = Pieces(ds)
    <3>1. (reader \o wire) \o p = reader \o (wire \o p)
      <4> HIDE DEF p
      <4> QED
        BY <2>4, <2>5, ConcatAssociative
    <3>2. Pieces(ds) = Pieces(bs) \o p
      BY <2>1, <2>4, PiecesConcat
    <3> HIDE DEF p, ds
    <3> QED
      BY <2>2, <3>1, <3>2, Zenon
  <2>8. Carries(ds, P, First(sent + 1))
    BY <2>1, <2>2, <2>4, CarriesConcat
  <2>9. k \in Nat
    BY <1>0 DEF EndsType, Ends, Counters
  <2>10. \A t \in 1 .. m : bs[t].key = channel.rx.key /\ bs[t].nonce = k + t - 1
    BY <2>2
  <2>11. \A t \in 1 .. n : cs[t].key = channel.rx.key /\ cs[t].nonce = (k + m) + t - 1
    BY <2>1, <2>3
  <2> HIDE DEF ds, p, m, n, k
  <2>12. ASSUME NEW t \in 1 .. m + n
         PROVE  ds[t].key = channel.rx.key /\ ds[t].nonce = k + t - 1
    <3>1. CASE t <= m
      <4>1. t \in 1 .. m /\ ds[t] = bs[t]
        BY <2>6, <3>1
      <4> QED
        BY <2>10, <4>1
    <3>2. CASE t > m
      <4>1. t - m \in 1 .. n /\ ds[t] = cs[t - m]
        <5>1. m \in Nat /\ n \in Nat
          BY <2>6
        <5>2. t - m \in 1 .. n /\ ~(t <= m)
          BY <3>2, <5>1
        <5>3. ds[t] = IF t <= m THEN bs[t] ELSE cs[t - m]
          BY <2>6
        <5> QED
          BY <5>2, <5>3
      <4>2. cs[t - m].key = channel.rx.key /\ cs[t - m].nonce = (k + m) + (t - m) - 1
        BY <2>11, <4>1
      <4>3. (k + m) + (t - m) - 1 = k + t - 1
        BY <2>6, <2>9
      <4> QED
        BY <4>1, <4>2, <4>3
    <3> QED
      BY <2>6, <3>1, <3>2
  <2>13. peer'.tx.key = channel.rx.key /\ peer'.tx.nonce = k + (m + n)
    <3>1. peer'.tx.nonce = (k + m) + n
      BY <2>1, <2>3 DEF k, m, n
    <3> QED
      BY <2>1, <2>3, <2>6, <2>9, <3>1
  <2>14. /\ reader' \o wire' = Pieces(ds)
         /\ \A t \in 1 .. Len(ds) :
              ds[t].key = channel'.rx.key /\ ds[t].nonce = channel'.rx.nonce + t - 1
         /\ peer'.encrypted =>
              peer'.tx.key = channel'.rx.key /\ peer'.tx.nonce = channel'.rx.nonce + Len(ds)
         /\ ds \in Seq(BlockOf(1 .. sent'))
    <3>1. reader' \o wire' = Pieces(ds)
      BY <1>2, <2>1, <2>7 DEF p
    <3>2. channel'.rx.nonce = k /\ channel'.rx.key = channel.rx.key /\ Len(ds) = m + n
      BY <1>2, <2>6 DEF k
    <3>3. ds \in Seq(BlockOf(1 .. sent'))
      BY <1>2, <2>6 DEF Q
    <3> QED
      BY <2>12, <2>13, <3>1, <3>2, <3>3
  <2>15. Carries(ds, After(buffer, First(D)), First(sent))'
    BY <1>2, <1>4, <2>8, SameScript
  <2> QED
    BY <2>14, <2>15 DEF Sealed
<1> QED
  BY <1>2, <1>3, <1>6, <1>7 DEF Flow

LEMMA SendKept ==
  ASSUME ChannelIInv, Send
  PROVE  ChannelIInv'
BY SendTypes, SendPairs, SendStream DEF ChannelIInv

-----------------------------------------------------------------------------
(* The client reads an answer. *)
LEMMA ReadAnswerMoves ==
  ASSUME ReadAnswer
  PROVE  /\ script' = script /\ sent' = sent /\ wire' = wire /\ channel' = channel /\ hap' = hap
         /\ reader' = reader /\ errno' = errno /\ buffer' = buffer /\ capacity' = capacity
         /\ dispatched' = dispatched /\ open' = open /\ D' = D
         /\ back # << >> /\ back' = Tail(back) /\ ~broken
BY DEF ReadAnswer, D

LEMMA TailIs ==
  ASSUME NEW S, NEW s \in Seq(S), s # << >>
  PROVE  /\ Head(s) = s[1] /\ s[1] \in S /\ Tail(s) \in Seq(S) /\ Len(s) \in Nat \ {0}
         /\ Len(Tail(s)) = Len(s) - 1 /\ \A i \in 1 .. Len(s) - 1 : Tail(s)[i] = s[i + 1]
BY HeadTailProperties, LenIs

(* What the client makes of an answer: it turns encryption on with the      *)
(* receiver, or it cannot read the M4 of a pair-verify.                     *)
LEMMA ReadAnswerIs ==
  ASSUME ChannelIInv, ReadAnswer
  PROVE  /\ broken' \in BOOLEAN /\ peer' \in Ends
         /\ ~(peer.encrypted /\ ~channel.encrypted)
         /\ ~channel.encrypted => broken' = FALSE /\ peer' = peer
         /\ channel.encrypted /\ ~peer.encrypted /\ PeerToTurn =>
              /\ broken' = FALSE /\ peer'.encrypted /\ peer'.tx = channel.rx /\ peer'.rx = channel.tx
              /\ D = sent /\ Tail(back) = << >>
         /\ channel.encrypted /\ ~peer.encrypted /\ ~PeerToTurn =>
              broken' = TRUE /\ peer' = peer /\ PeerIsLost
         /\ channel.encrypted /\ peer.encrypted =>
              /\ broken' = FALSE /\ peer'.encrypted /\ peer'.tx = peer.tx /\ Framed(Tail(back), peer'.rx, channel.tx)
<1>0. ScriptType /\ EndsType /\ Waits /\ Agree
  BY DEF ChannelIInv, Pairs
<1> DEFINE a == back[1]
<1>1. /\ sent \in Nat /\ D \in Nat /\ back \in Seq(Answers) /\ back # << >> /\ Len(back) \in Nat \ {0}
      /\ Head(back) = a /\ a \in Answers /\ Tail(back) \in Seq(Answers)
  BY <1>0, ScriptIs, ReadAnswerMoves, TailIs DEF EndsType
<1>2. /\ peer \in Ends /\ peer.encrypted \in BOOLEAN /\ peer.tx \in Counters /\ peer.rx \in Counters
      /\ channel.tx \in Counters /\ channel.rx \in Counters
  BY <1>0 DEF EndsType, Ends
<1>3. /\ a.to \in Nat /\ a.ok \in BOOLEAN /\ a.proof \in Nat /\ a.frames \in Seq(Counters)
  BY <1>1 DEF Answers
<1> HIDE DEF a
<1>4. /\ broken' = ~Readable(a)
      /\ peer' = IF broken' THEN peer
                 ELSE IF IsM4(a, "setup3") THEN Turned(a.proof)
                 ELSE IF IsM4(a, "verify3") THEN Turned(Curve)
                 ELSE IF peer.encrypted THEN [peer EXCEPT !.rx.nonce = @ + Len(a.frames)]
                 ELSE peer
  BY <1>1 DEF ReadAnswer
<1>5. ~(peer.encrypted /\ ~channel.encrypted)
  BY <1>0 DEF Agree
<1>6. ASSUME ~channel.encrypted PROVE broken' = FALSE /\ peer' = peer
  <2>1. ~peer.encrypted
    BY <1>5, <1>6
  <2>2. a.frames = << >> /\ ~IsM4(a, "setup3") /\ ~IsM4(a, "verify3")
    <3>1. 1 \in 1 .. Len(back)
      BY <1>1
    <3> QED
      BY <1>0, <1>6, <3>1 DEF Agree, BothClear, IsM4, a
  <2>3. Readable(a)
    BY <2>1, <2>2 DEF Readable
  <2> QED
    BY <1>4, <2>1, <2>2, <2>3
<1>7. ASSUME channel.encrypted, ~peer.encrypted, PeerToTurn
      PROVE  /\ broken' = FALSE /\ peer' \in Ends /\ peer'.encrypted /\ peer'.tx = channel.rx
             /\ peer'.rx = channel.tx /\ D = sent /\ Tail(back) = << >>
  <2>1. /\ D = sent /\ script[sent].do = "setup3" /\ Len(back) = 1 /\ a.ok /\ a.frames = << >>
        /\ channel.tx = Counter(ReadKey(a.proof)) /\ channel.rx = Counter(WriteKey(a.proof))
    BY <1>7 DEF PeerToTurn, a
  <2>2. a.to = sent
    <3>1. 1 \in 1 .. Len(back)
      BY <2>1
    <3>2. a.to = D - Len(back) + 1
      BY <1>0, <3>1 DEF Waits, a
    <3> QED
      BY <1>1, <2>1, <3>2
  <2>3. Readable(a)
    BY <1>7, <2>1 DEF Readable
  <2>4. peer' = [encrypted |-> TRUE, tx |-> Counter(WriteKey(a.proof)), rx |-> Counter(ReadKey(a.proof))]
    BY <1>4, <1>7, <2>1, <2>2, <2>3 DEF IsM4, Turned
  <2>5. Tail(back) = << >>
    <3>1. Len(Tail(back)) = 0
      BY <1>1, <2>1, TailIs
    <3> QED
      BY <1>1, <3>1, LenIs
  <2>6. peer' \in Ends
    BY <1>2, <2>1, <2>4 DEF Ends
  <2>7. broken' = FALSE
    BY <1>4, <2>3
  <2>8. peer'.encrypted /\ peer'.tx = Counter(WriteKey(a.proof)) /\ peer'.rx = Counter(ReadKey(a.proof))
    BY <2>4
  <2> QED
    BY <2>1, <2>5, <2>6, <2>7, <2>8
<1>8. ASSUME channel.encrypted, peer.encrypted
      PROVE  /\ broken' = FALSE /\ peer' \in Ends /\ peer'.encrypted /\ peer'.tx = peer.tx
             /\ Framed(Tail(back), peer'.rx, channel.tx)
  <2>1. Framed(back, peer.rx, channel.tx)
    BY <1>0, <1>8 DEF Agree
  <2> DEFINE n == Len(a.frames)
             next == [key |-> peer.rx.key, nonce |-> peer.rx.nonce + n]
  <2>2. n \in Nat
    BY <1>3, LenIs
  <2> HIDE DEF n
  <2>3. next \in Counters /\ next.key = peer.rx.key /\ next.nonce = peer.rx.nonce + n
    BY <1>2, <2>2 DEF Counters
  <2> HIDE DEF next
  <2>4. a.frames = Frames(peer.rx, n) /\ a.frames # << >> /\ Framed(Tail(back), next, channel.tx)
    BY <1>1, <1>2, <2>1, <2>3, FramedHead DEF a, n
  <2>5. Readable(a)
    BY <1>8, <2>4 DEF Readable, n
  <2>6. peer' = [peer EXCEPT !.rx.nonce = @ + n]
    BY <1>4, <1>8, <2>5 DEF n, IsM4
  <2>7. /\ peer' \in Ends /\ peer'.encrypted /\ peer'.tx = peer.tx /\ peer'.rx = next
    <3> DEFINE x == [peer.rx EXCEPT !.nonce = @ + n]
    <3>1. x = next
      BY <1>2, <2>2 DEF Counters, next
    <3>2. peer' = [peer EXCEPT !.rx = x]
      BY <1>2, <2>6 DEF Ends
    <3> HIDE DEF x
    <3> QED
      BY <1>2, <1>8, <2>3, <3>1, <3>2 DEF Ends
  <2> QED
    BY <1>4, <2>4, <2>5, <2>7
<1>9. ASSUME channel.encrypted, ~peer.encrypted, ~PeerToTurn
      PROVE  broken' = TRUE /\ peer' = peer /\ PeerIsLost
  <2>1. PeerIsLost /\ a.frames # << >>
    BY <1>0, <1>9, ReadAnswerMoves DEF Agree, PeerIsLost, a
  <2>2. ~Readable(a)
    BY <1>9, <2>1 DEF Readable
  <2> QED
    BY <1>4, <2>1, <2>2
<1>10. broken' \in BOOLEAN
  BY <1>6, <1>7, <1>8, <1>9, <1>2
<1> QED
  BY <1>2, <1>5, <1>6, <1>7, <1>8, <1>9, <1>10

LEMMA ReadAnswerTypes ==
  ASSUME ChannelIInv, ReadAnswer
  PROVE  ScriptType' /\ EndsType' /\ RoomType' /\ Flight(1 .. sent)' /\ InOrder' /\ (Dropped => Dropped')
<1>0. ScriptType /\ EndsType /\ RoomType /\ Flight(1 .. sent) /\ InOrder
  BY DEF ChannelIInv
<1>1. broken' \in BOOLEAN
  BY ReadAnswerIs
<1>2. ScriptType'
  BY <1>0, <1>1, ReadAnswerMoves DEF ScriptType
<1>3. EndsType'
  <2>1. Tail(back) \in Seq(Answers)
    BY <1>0, ReadAnswerMoves, TailIs DEF EndsType
  <2>2. peer' \in Ends
    BY ReadAnswerIs
  <2> QED
    BY <1>0, <2>1, <2>2, ReadAnswerMoves DEF EndsType
<1>4. RoomType' /\ InOrder'
  BY <1>0, ReadAnswerMoves DEF RoomType, InOrder
<1>5. Flight(1 .. sent)'
  BY <1>0, ReadAnswerMoves DEF Flight
<1>6. Dropped => Dropped'
  BY ReadAnswerMoves DEF Dropped, Flight
<1> QED
  BY <1>2, <1>3, <1>4, <1>5, <1>6

LEMMA ReadAnswerPairs ==
  ASSUME ChannelIInv, ReadAnswer
  PROVE  Pairs'
<1>0. ScriptType /\ EndsType /\ Waits /\ Paired /\ Agree
  BY DEF ChannelIInv, Pairs
<1>1. /\ sent \in Nat /\ D \in Nat /\ back \in Seq(Answers) /\ back # << >> /\ Len(back) \in Nat \ {0}
      /\ Len(Tail(back)) = Len(back) - 1 /\ \A i \in 1 .. Len(back) - 1 : Tail(back)[i] = back[i + 1]
  BY <1>0, ScriptIs, ReadAnswerMoves, TailIs DEF EndsType
<1>2. /\ script' = script /\ sent' = sent /\ channel' = channel /\ hap' = hap /\ reader' = reader
      /\ D' = D /\ back' = Tail(back)
  BY ReadAnswerMoves
<1>3. Waits'
  <2> DEFINE m == Len(back)
             t == Tail(back)
  <2>1. m \in Nat \ {0} /\ Len(t) = m - 1 /\ m <= D /\ D <= sent
        /\ (\A i \in 1 .. m : back[i].to = D - m + i) /\ \A i \in 1 .. m - 1 : t[i] = back[i + 1]
    BY <1>0, <1>1 DEF Waits
  <2>2. \A r \in D + 1 .. sent : script[r].do \notin Pairing
    BY <1>0, <1>1 DEF Waits
  <2> HIDE DEF m, t
  <2>3. ASSUME NEW i \in 1 .. m - 1 PROVE t[i].to = D - (m - 1) + i
    <3>1. i + 1 \in 1 .. m /\ t[i] = back[i + 1] /\ D - m + (i + 1) = D - (m - 1) + i
      BY <1>1, <2>1
    <3>2. back[i + 1].to = D - m + (i + 1)
      BY <2>1, <3>1
    <3> QED
      BY <3>1, <3>2
  <2>4. Len(t) <= D /\ \A i \in 1 .. Len(t) : t[i].to = D - Len(t) + i
    BY <1>1, <2>1, <2>3
  <2> QED
    BY <1>2, <2>1, <2>2, <2>4 DEF Waits, t
<1>4. Paired'
  BY <1>0, <1>2 DEF Paired
<1>5. AnswersReadable'
  <2>1. broken' => script[sent].do = "verify3"
    BY ReadAnswerIs DEF PeerIsLost
  <2> QED
    BY <1>2, <2>1 DEF AnswersReadable
<1>6. Agree'
  <2>1. CASE ~channel.encrypted
    <3>1. ~peer.encrypted /\ peer' = peer /\ ~broken'
      BY <2>1, ReadAnswerIs
    <3>2. BothClear
      BY <1>0, <2>1 DEF Agree
    <3>3. ASSUME NEW i \in 1 .. Len(back) - 1
          PROVE  Tail(back)[i].frames = << >> /\ script[Tail(back)[i].to].do # "verify3"
                 /\ ~(Tail(back)[i].ok /\ script[Tail(back)[i].to].do = "setup3")
      <4>1. i + 1 \in 1 .. Len(back) /\ Tail(back)[i] = back[i + 1]
        BY <1>1
      <4> QED
        BY <3>2, <4>1 DEF BothClear
    <3>4. BothClear'
      <4>1. Len(back') = Len(back) - 1
        BY <1>1, <1>2
      <4>2. channel'.tx.nonce = 0 /\ channel'.rx.nonce = 0 /\ reader' = << >>
        BY <1>2, <3>2 DEF BothClear
      <4>3. \A i \in 1 .. Len(back') :
              back'[i].frames = << >> /\ script'[back'[i].to].do # "verify3" /\ ~(back'[i].ok /\ script'[back'[i].to].do = "setup3")
        BY <1>2, <3>3, <4>1
      <4> QED
        BY <4>2, <4>3 DEF BothClear
    <3> QED
      BY <1>0, <1>2, <2>1, <3>1, <3>4 DEF Agree
  <2>2. CASE channel.encrypted /\ ~peer.encrypted /\ PeerToTurn
    <3>1. ~broken' /\ peer'.encrypted /\ peer'.rx = channel.tx /\ back' = << >>
      BY <1>2, <2>2, ReadAnswerIs
    <3>2. Framed(<< >>, channel.tx, channel.tx)
      BY <1>0, FramedNone DEF EndsType, Ends
    <3>3. Framed(back, peer.rx, channel.tx)'
      BY <1>2, <3>1, <3>2
    <3> QED
      BY <1>2, <2>2, <3>1, <3>3 DEF Agree
  <2>3. CASE channel.encrypted /\ peer.encrypted
    <3>1. ~broken' /\ peer'.encrypted /\ Framed(Tail(back), peer'.rx, channel.tx)
      BY <2>3, ReadAnswerIs
    <3>2. Framed(back, peer.rx, channel.tx)'
      BY <1>2, <3>1
    <3> QED
      BY <1>2, <2>3, <3>1, <3>2 DEF Agree
  <2>4. CASE channel.encrypted /\ ~peer.encrypted /\ ~PeerToTurn
    <3>1. broken' /\ peer' = peer /\ PeerIsLost
      BY <2>4, ReadAnswerIs
    <3>2. PeerIsLost'
      BY <1>2, <3>1 DEF PeerIsLost
    <3> QED
      BY <1>2, <2>4, <3>1, <3>2 DEF Agree
  <2> QED
    BY <2>1, <2>2, <2>3, <2>4
<1> QED
  BY <1>3, <1>4, <1>5, <1>6 DEF Pairs

(* A channel's stream is the same while none of what it is made of changes, the peer's count apart. *)
LEMMA StreamStays ==
  ASSUME Flow, Flight(1 .. sent), sent \in Nat, D \in Nat,
         script' = script, sent' = sent, D' = D, buffer' = buffer, wire' = wire, reader' = reader,
         channel' = channel, capacity' = capacity \/ (reader = << >>),
         ~channel.encrypted \/ (peer'.tx = peer.tx /\ (peer.encrypted \/ ~peer'.encrypted))
           \/ (D = sent /\ peer'.tx = channel.rx /\ channel.rx.nonce \in Nat)
  PROVE  Flow'
<1> DEFINE P == After(buffer, First(D))
<1>1. Chain(buffer, First(D))' /\ After(buffer, First(D))' = P /\ First(sent)' = First(sent)
  BY SameScript DEF Flow, First
<1>2. Chain(buffer, First(D)) /\ (reader # << >> => Len(buffer) + Room <= capacity)'
  BY DEF Flow, Room
<1>3. buffer \in Seq(UnitOf(1 .. sent))
  BY DEF Flight
<1> HIDE DEF P
<1>4. ASSUME ~channel.encrypted PROVE InTheClear'
  <2>1. wire \in Seq(UnitOf(1 .. sent)) /\ Chain(wire, P) /\ After(wire, P) = First(sent)
    BY <1>4 DEF Flow, InTheClear, P
  <2>2. Chain(wire, After(buffer, First(D)))' /\ (After(wire, After(buffer, First(D))) = First(sent))'
    BY <1>1, <2>1, SameScript
  <2> QED
    BY <2>1, <2>2 DEF InTheClear
<1>5. ASSUME channel.encrypted PROVE Sealed'
  <2>1. PICK bs \in Seq(BlockOf(1 .. sent)) :
          /\ reader \o wire = Pieces(bs) /\ Carries(bs, P, First(sent))
          /\ \A t \in 1 .. Len(bs) :
               bs[t].key = channel.rx.key /\ bs[t].nonce = channel.rx.nonce + t - 1
          /\ peer.encrypted =>
               peer.tx.key = channel.rx.key /\ peer.tx.nonce = channel.rx.nonce + Len(bs)
    BY <1>5 DEF Flow, Sealed, P
  <2>2. Carries(bs, After(buffer, First(D)), First(sent))'
    BY <1>1, <2>1, SameScript
  <2>3. peer'.encrypted =>
          peer'.tx.key = channel.rx.key /\ peer'.tx.nonce = channel.rx.nonce + Len(bs)
    <3>1. CASE peer'.tx = peer.tx /\ (peer.encrypted \/ ~peer'.encrypted)
      BY <2>1, <3>1
    <3>2. CASE D = sent /\ peer'.tx = channel.rx /\ channel.rx.nonce \in Nat
      <4>1. P = First(sent)
        BY <1>2, <1>3, <3>2, NothingAbove DEF P
      <4>2. bs = << >>
        BY <2>1, <4>1, NoBlocksAbove
      <4>3. Len(bs) = 0
        BY <4>2
      <4> QED
        BY <3>2, <4>3
    <3> QED
      BY <1>5, <3>1, <3>2
  <2>4. /\ reader' \o wire' = Pieces(bs) /\ bs \in Seq(BlockOf(1 .. sent'))
        /\ \A t \in 1 .. Len(bs) :
             bs[t].key = channel'.rx.key /\ bs[t].nonce = channel'.rx.nonce + t - 1
        /\ peer'.encrypted =>
             peer'.tx.key = channel'.rx.key /\ peer'.tx.nonce = channel'.rx.nonce + Len(bs)
    BY <2>1, <2>3
  <2> QED
    BY <2>2, <2>4 DEF Sealed
<1> QED
  BY <1>1, <1>2, <1>4, <1>5 DEF Flow

LEMMA ReadAnswerKept ==
  ASSUME ChannelIInv, ReadAnswer
  PROVE  ChannelIInv'
<1>1. Dropped' \/ Flow'
  <2>1. CASE Dropped
    BY <2>1, ReadAnswerTypes
  <2>2. CASE Flow
    <3>1. sent \in Nat /\ D \in Nat /\ Flight(1 .. sent) /\ channel.rx.nonce \in Nat
      <4>1. ScriptType /\ EndsType /\ Flight(1 .. sent)
        BY DEF ChannelIInv
      <4> QED
        BY <4>1, ScriptIs DEF EndsType, Ends, Counters
    <3>2. ~channel.encrypted \/ (peer'.tx = peer.tx /\ (peer.encrypted \/ ~peer'.encrypted))
           \/ (D = sent /\ peer'.tx = channel.rx /\ channel.rx.nonce \in Nat)
      BY <3>1, ReadAnswerIs
    <3>3. /\ script' = script /\ sent' = sent /\ D' = D /\ buffer' = buffer /\ wire' = wire
          /\ reader' = reader /\ channel' = channel /\ capacity' = capacity
      BY ReadAnswerMoves
    <3> QED
      BY <2>2, <3>1, <3>2, <3>3, StreamStays, Zenon
  <2> QED
    BY <2>1, <2>2 DEF ChannelIInv
<1> QED
  BY <1>1, ReadAnswerTypes, ReadAnswerPairs DEF ChannelIInv

(* Who is paired with whom does not depend on what the buffers hold. *)
-----------------------------------------------------------------------------
(* A timeout, a larger buffer, and nothing at all. *)
LEMMA PairsStay ==
  ASSUME Pairs, script' = script, sent' = sent, D' = D, peer' = peer, broken' = broken, back' = back,
         hap' = hap,
         channel' = channel \/ (/\ channel.encrypted /\ peer.encrypted /\ channel'.encrypted
                                /\ channel'.tx = channel.tx),
         channel.encrypted \/ reader' = reader
  PROVE  Pairs'
<1>0. Waits /\ Paired /\ Agree /\ AnswersReadable
  BY DEF Pairs
<1>1. Waits'
  BY <1>0 DEF Waits
<1>2. Paired'
  BY <1>0 DEF Paired
<1>3. AnswersReadable'
  BY <1>0 DEF AnswersReadable
<1>4. Agree'
  <2>1. CASE channel' = channel /\ channel.encrypted
    BY <1>0, <2>1 DEF Agree, PeerToTurn, PeerIsLost
  <2>2. CASE channel' = channel /\ ~channel.encrypted
    <3>1. reader' = reader
      BY <2>2
    <3>2. BothClear'
      BY <1>0, <2>2, <3>1 DEF Agree, BothClear
    <3> QED
      BY <1>0, <2>2, <3>2 DEF Agree
  <2>3. CASE /\ channel.encrypted /\ peer.encrypted /\ channel'.encrypted
             /\ channel'.tx = channel.tx
    <3>1. Framed(back, peer.rx, channel.tx)
      BY <1>0, <2>3 DEF Agree
    <3>2. Framed(back, peer.rx, channel.tx)'
      BY <2>3, <3>1
    <3> QED
      BY <1>0, <2>3, <3>2 DEF Agree
  <2> QED
    BY <2>1, <2>2, <2>3
<1> QED
  BY <1>1, <1>2, <1>3, <1>4 DEF Pairs

LEMMA TypesAre ==
  ASSUME ChannelIInv
  PROVE  /\ ScriptType /\ EndsType /\ RoomType /\ Flight(1 .. sent) /\ InOrder /\ Pairs
         /\ sent \in Nat /\ D \in Nat /\ script \in Seq(Requests) /\ sent <= Len(script)
         /\ Len(script) \in Nat /\ Len(buffer) \in Nat /\ capacity \in Nat /\ Room \in Nat \ {0}
         /\ channel.tx.nonce \in Nat /\ channel.rx.nonce \in Nat /\ channel \in Ends
<1>1. ScriptType /\ EndsType /\ RoomType /\ Flight(1 .. sent) /\ InOrder /\ Pairs
  BY DEF ChannelIInv
<1>2. sent \in Nat /\ D \in Nat /\ script \in Seq(Requests) /\ sent <= Len(script)
      /\ Len(script) \in Nat
  BY <1>1, ScriptIs
<1>3. Len(buffer) \in Nat
  BY <1>1, LenIs DEF Flight
<1>4. capacity \in Nat /\ Room \in Nat \ {0}
  BY <1>1, BufferAssumption DEF RoomType, Room
<1>5. channel.tx.nonce \in Nat /\ channel.rx.nonce \in Nat /\ channel \in Ends
  BY <1>1 DEF EndsType, Ends, Counters
<1> QED
  BY <1>1, <1>2, <1>3, <1>4, <1>5

(* A timeout, a bigger buffer and the end of the connection leave the stream as it is. *)
LEMMA StillKept ==
  ASSUME ChannelIInv,
         script' = script, sent' = sent, peer' = peer, broken' = broken, wire' = wire, back' = back,
         channel' = channel, hap' = hap, reader' = reader, buffer' = buffer,
         dispatched' = dispatched,
         errno' \in {"0", "EAGAIN"}, open' \in BOOLEAN,
         capacity' = capacity \/ (reader = << >> /\ capacity' = RTSP_BUFFER_LARGE)
  PROVE  ChannelIInv'
<1>1. /\ ScriptType /\ EndsType /\ RoomType /\ Flight(1 .. sent) /\ InOrder /\ Pairs
      /\ sent \in Nat /\ D \in Nat /\ Len(buffer) \in Nat
  BY TypesAre
<1>2. D' = D
  BY DEF D
<1>3. ScriptType' /\ EndsType' /\ InOrder'
  BY <1>1 DEF ScriptType, EndsType, InOrder
<1>4. Flight(1 .. sent)'
  BY <1>1 DEF Flight
<1>5. RoomType'
  BY <1>1, BufferAssumption DEF RoomType
<1>6. Pairs'
  BY <1>1, <1>2, PairsStay
<1>7. Dropped => Dropped'
  BY <1>2 DEF Dropped, Flight
<1>8. Flow => Flow'
  <2>1. peer'.tx = peer.tx /\ (peer.encrypted \/ ~peer'.encrypted)
    OBVIOUS
  <2>2. capacity' = capacity \/ reader = << >>
    OBVIOUS
  <2> QED
    BY <1>1, <1>2, <2>1, <2>2, StreamStays, Zenon
<1> QED
  BY <1>3, <1>4, <1>5, <1>6, <1>7, <1>8 DEF ChannelIInv

LEMMA TimeoutKept ==
  ASSUME ChannelIInv, Timeout
  PROVE  ChannelIInv'
<1>1. ScriptType
  BY DEF ChannelIInv
<1>2. errno' \in {"0", "EAGAIN"} /\ open' \in BOOLEAN
  BY <1>1 DEF Timeout, ScriptType
<1>3. /\ script' = script /\ sent' = sent /\ peer' = peer /\ broken' = broken /\ wire' = wire
      /\ back' = back /\ channel' = channel /\ hap' = hap /\ reader' = reader /\ buffer' = buffer
      /\ dispatched' = dispatched /\ capacity' = capacity
  BY DEF Timeout
<1> QED
  BY <1>2, <1>3, StillKept

LEMMA GrowKept ==
  ASSUME ChannelIInv, Grow
  PROVE  ChannelIInv'
<1>1. ScriptType /\ RoomType
  BY DEF ChannelIInv
<1>2. errno' \in {"0", "EAGAIN"} /\ open' \in BOOLEAN
  BY <1>1 DEF Grow, ScriptType, RoomType
<1>3. capacity' = capacity \/ (reader = << >> /\ capacity' = RTSP_BUFFER_LARGE)
  BY DEF Grow
<1>4. /\ script' = script /\ sent' = sent /\ peer' = peer /\ broken' = broken /\ wire' = wire
      /\ back' = back /\ channel' = channel /\ hap' = hap /\ reader' = reader /\ buffer' = buffer
      /\ dispatched' = dispatched
  BY DEF Grow
<1> QED
  BY <1>2, <1>3, <1>4, StillKept

LEMMA IdleKept ==
  ASSUME ChannelIInv, UNCHANGED channelVars
  PROVE  ChannelIInv'
<1>1. ScriptType /\ RoomType
  BY DEF ChannelIInv
<1>2. /\ script' = script /\ sent' = sent /\ peer' = peer /\ broken' = broken /\ wire' = wire
      /\ back' = back /\ channel' = channel /\ hap' = hap /\ reader' = reader /\ buffer' = buffer
      /\ dispatched' = dispatched /\ capacity' = capacity /\ errno' = errno /\ open' = open
  BY DEF channelVars
<1>3. errno' \in {"0", "EAGAIN"} /\ open' \in BOOLEAN
  BY <1>1, <1>2 DEF ScriptType, RoomType
<1> QED
  BY <1>2, <1>3, StillKept

LEMMA AppendTail ==
  ASSUME NEW S, NEW r \in Seq(S), NEW w \in Seq(S), w # << >>
  PROVE  Append(r, Head(w)) \o Tail(w) = r \o w
<1> DEFINE m == Len(r)
           n == Len(w)
           h == Head(w)
           t == Tail(w)
           p == Append(r, h)
<1>1. /\ m \in Nat /\ n \in Nat \ {0} /\ h = w[1] /\ h \in S /\ t \in Seq(S) /\ Len(t) = n - 1
      /\ \A i \in 1 .. n - 1 : t[i] = w[i + 1]
  BY TailIs, LenIs
<1> HIDE DEF n, h, t
<1>2. p \in Seq(S) /\ Len(p) = m + 1 /\ (\A i \in 1 .. m : p[i] = r[i]) /\ p[m + 1] = h
  BY <1>1, AppendIs
<1> HIDE DEF m, p
<1> DEFINE x == p \o t
           y == r \o w
           k == m + 1
           l == n - 1
<1>3. k \in Nat /\ l \in Nat /\ Len(p) = k /\ Len(t) = l
  BY <1>1, <1>2
<1> HIDE DEF k, l
<1>4. /\ x \in Seq(S) /\ Len(x) = k + l
      /\ \A i \in 1 .. k + l : x[i] = IF i <= k THEN p[i] ELSE t[i - k]
  <2>1. p \in Seq(S) /\ t \in Seq(S) /\ Len(p) = k /\ Len(t) = l
    BY <1>1, <1>2, <1>3
  <2> QED
    BY <2>1, ConcatIs
<1>5. /\ y \in Seq(S) /\ Len(y) = m + n
      /\ \A i \in 1 .. m + n : y[i] = IF i <= m THEN r[i] ELSE w[i - m]
  BY ConcatIs DEF m, n
<1> HIDE DEF x, y
<1>6. ASSUME NEW i \in 1 .. m + n PROVE x[i] = y[i]
  <2>0. i \in 1 .. k + l
    BY <1>1 DEF k, l
  <2>1. CASE i <= m
    <3>1. i \in 1 .. m /\ i <= k
      BY <1>1, <2>1 DEF k
    <3> QED
      BY <1>2, <1>4, <1>5, <2>0, <2>1, <3>1
  <2>2. CASE i = m + 1
    <3>1. i <= k /\ ~(i <= m) /\ i - m = 1 /\ i = k
      BY <1>1, <2>2 DEF k
    <3> QED
      BY <1>1, <1>2, <1>4, <1>5, <2>0, <2>2, <3>1
  <2>3. CASE i > m + 1
    <3>1. ~(i <= k) /\ ~(i <= m) /\ i - k \in 1 .. n - 1 /\ (i - k) + 1 = i - m
      BY <1>1, <2>3 DEF k
    <3>2. t[i - k] = w[(i - k) + 1]
      BY <1>1, <3>1
    <3> QED
      BY <1>4, <1>5, <2>0, <3>1, <3>2
  <2> QED
    BY <1>1, <2>1, <2>2, <2>3
<1>7. Len(x) = Len(y) /\ k + l = m + n
  BY <1>1, <1>4, <1>5 DEF k, l
<1>8. x = y
  BY <1>4, <1>5, <1>6, <1>7, SeqEqual
<1> QED
  BY <1>8 DEF x, y, p, t, h

-----------------------------------------------------------------------------
(* What arrives. *)
LEMMA ReadPieceMoves ==
  ASSUME ReadPiece
  PROVE  /\ script' = script /\ sent' = sent /\ peer' = peer /\ broken' = broken /\ back' = back
         /\ channel' = channel /\ hap' = hap /\ errno' = errno /\ buffer' = buffer
         /\ capacity' = capacity /\ dispatched' = dispatched /\ open' = open /\ D' = D
         /\ channel.encrypted /\ Len(reader) < 3 /\ wire # << >> /\ (reader # << >> \/ ~Full)
         /\ reader' = Append(reader, Head(wire)) /\ wire' = Tail(wire)
BY DEF ReadPiece, D

LEMMA PieceTaken ==
  ASSUME NEW R, Flight(R), ReadPiece
  PROVE  Flight(R)' /\ Len(reader') = Len(reader) + 1 /\ reader' \o wire' = reader \o wire
<1>1. buffer \in Seq(UnitOf(R)) /\ wire \in Seq(ItemOf(R)) /\ reader \in Seq(ItemOf(R)) /\ wire # << >>
  BY ReadPieceMoves DEF Flight
<1>2. Head(wire) \in ItemOf(R) /\ Tail(wire) \in Seq(ItemOf(R))
  BY <1>1, HeadTailProperties
<1> DEFINE h == Head(wire)
<1> HIDE DEF h
<1>3. Append(reader, h) \in Seq(ItemOf(R)) /\ Len(Append(reader, h)) = Len(reader) + 1
  BY <1>1, <1>2, AppendIs DEF h
<1>4. reader' = Append(reader, h) /\ wire' = Tail(wire) /\ buffer' = buffer
  BY ReadPieceMoves DEF h
<1>5. Append(reader, h) \o Tail(wire) = reader \o wire
  BY <1>1, AppendTail DEF h
<1>6. reader' \in Seq(ItemOf(R)) /\ wire' \in Seq(ItemOf(R)) /\ buffer' \in Seq(UnitOf(R))
  BY <1>1, <1>2, <1>3, <1>4, Zenon
<1>7. Flight(R)'
  BY <1>6 DEF Flight, ItemOf, UnitOf, PieceSet, BlockOf
<1> QED
  BY <1>3, <1>4, <1>5, <1>7, Zenon

LEMMA ReadPieceKept ==
  ASSUME ChannelIInv, ReadPiece
  PROVE  ChannelIInv'
<1>1. /\ ScriptType /\ EndsType /\ RoomType /\ Flight(1 .. sent) /\ InOrder /\ Pairs
      /\ sent \in Nat /\ D \in Nat /\ Len(buffer) \in Nat /\ capacity \in Nat /\ Room \in Nat \ {0}
  BY TypesAre
<1>2. /\ script' = script /\ sent' = sent /\ peer' = peer /\ broken' = broken /\ back' = back
      /\ channel' = channel /\ hap' = hap /\ errno' = errno /\ buffer' = buffer
      /\ capacity' = capacity /\ dispatched' = dispatched /\ open' = open /\ D' = D
      /\ channel.encrypted /\ Len(reader) < 3
  BY ReadPieceMoves
<1>3. ScriptType' /\ EndsType' /\ InOrder'
  BY <1>1, <1>2 DEF ScriptType, EndsType, InOrder
<1>4. Flight(1 .. sent)' /\ Len(reader') = Len(reader) + 1 /\ reader' \o wire' = reader \o wire
  <2>1. PICK R : R = 1 .. sent
    OBVIOUS
  <2>2. Flight(R)
    BY <1>1, <2>1
  <2>3. Flight(R)' /\ Len(reader') = Len(reader) + 1 /\ reader' \o wire' = reader \o wire
    BY <2>2, PieceTaken
  <2>4. Flight(1 .. sent)'
    BY <1>2, <2>1, <2>3 DEF Flight
  <2> QED
    BY <2>3, <2>4
<1>5. RoomType'
  <2>1. Len(reader) \in Nat
    BY <1>1, LenIs DEF Flight
  <2>2. Len(reader') <= 3
    BY <1>2, <1>4, <2>1
  <2> QED
    BY <1>1, <1>2, <2>2 DEF RoomType
<1>6. Pairs'
  BY <1>1, <1>2, PairsStay
<1>7. ASSUME Dropped PROVE Dropped'
  <2>1. PICK R : R = {sent}
    OBVIOUS
  <2>2. Flight(R)
    BY <1>7, <2>1 DEF Dropped
  <2>3. Flight(R)'
    BY <2>2, PieceTaken
  <2>4. Flight({sent})'
    BY <1>2, <2>1, <2>3 DEF Flight
  <2> QED
    BY <1>2, <1>7, <2>4 DEF Dropped
<1>8. ASSUME Flow PROVE Flow'
  <2>1. Len(buffer) + Room <= capacity
    <3>1. CASE reader # << >>
      BY <1>8, <3>1 DEF Flow
    <3>2. CASE ~Full
      BY <1>1, <3>2 DEF Full
    <3> QED
      BY <3>1, <3>2, ReadPieceMoves
  <2>2. (reader # << >> => Len(buffer) + Room <= capacity)'
    BY <1>2, <2>1 DEF Room
  <2>3. Chain(buffer, First(D))' /\ After(buffer, First(D))' = After(buffer, First(D))
        /\ First(sent)' = First(sent)
    BY <1>2, <1>8, SameScript DEF Flow, First
  <2>4. PICK bs \in Seq(BlockOf(1 .. sent)) :
          /\ reader \o wire = Pieces(bs) /\ Carries(bs, After(buffer, First(D)), First(sent))
          /\ \A t \in 1 .. Len(bs) :
               bs[t].key = channel.rx.key /\ bs[t].nonce = channel.rx.nonce + t - 1
          /\ peer.encrypted =>
               peer.tx.key = channel.rx.key /\ peer.tx.nonce = channel.rx.nonce + Len(bs)
    BY <1>2, <1>8 DEF Flow, Sealed
  <2>5. Carries(bs, After(buffer, First(D)), First(sent))'
    BY <1>2, <2>3, <2>4, SameScript
  <2>6. reader' \o wire' = Pieces(bs) /\ bs \in Seq(BlockOf(1 .. sent'))
    BY <1>2, <1>4, <2>4
  <2>7. Sealed'
    BY <1>2, <2>4, <2>5, <2>6 DEF Sealed
  <2> QED
    BY <1>2, <2>2, <2>3, <2>7 DEF Flow
<1> QED
  BY <1>3, <1>4, <1>5, <1>6, <1>7, <1>8 DEF ChannelIInv

(* What a recv takes in the clear. *)
LEMMA ReceiveMoves ==
  ASSUME Receive
  PROVE  /\ script' = script /\ sent' = sent /\ peer' = peer /\ broken' = broken /\ back' = back
         /\ channel' = channel /\ hap' = hap /\ reader' = reader /\ errno' = errno
         /\ capacity' = capacity /\ dispatched' = dispatched /\ open' = open /\ D' = D
         /\ ~channel.encrypted
BY DEF Receive, D

LEMMA UnitTaken ==
  ASSUME NEW R, NEW x \in ItemOf(R), "unit" \in DOMAIN x
  PROVE  x \in UnitOf(R)
BY DEF ItemOf, UnitOf, PieceSet

LEMMA ReceiveIs ==
  ASSUME ChannelIInv, Receive, NEW R, Flight(R)
  PROVE  \E p \in Seq(UnitOf(R)), q \in Seq(ItemOf(R)) :
           /\ wire = p \o q /\ buffer' = buffer \o p /\ wire' = q
           /\ Len(buffer) + Len(p) <= capacity /\ Len(q) <= Len(wire)
           /\ \A S : wire \in Seq(S) => p \in Seq(S) /\ q \in Seq(S)
<1>1. Len(buffer) \in Nat /\ capacity \in Nat
  BY TypesAre
<1>2. wire \in Seq(ItemOf(R)) /\ Len(wire) \in Nat
  BY LenIs DEF Flight
<1>3. PICK n \in 1 .. Min({Len(wire), capacity - Len(buffer)}) :
        /\ \A i \in 1 .. n : "unit" \in DOMAIN wire[i]
        /\ buffer' = buffer \o SubSeq(wire, 1, n)
        /\ wire' = SubSeq(wire, n + 1, Len(wire))
  BY DEF Receive
<1>4. n \in 0 .. Len(wire) /\ n \in Nat /\ Len(buffer) + n <= capacity
  <2>1. capacity - Len(buffer) \in Int /\ Len(wire) \in Int
    BY <1>1, <1>2
  <2> DEFINE a == Len(wire)
             b == capacity - Len(buffer)
  <2>2. Min({a, b}) = IF a <= b THEN a ELSE b
    <3>1. a \in Int /\ b \in Int
      BY <2>1
    <3> HIDE DEF a, b
    <3> QED
      BY <3>1, MinIs
  <2>3. n \in 1 .. (IF a <= b THEN a ELSE b)
    BY <1>3, <2>2
  <2> QED
    BY <1>1, <1>2, <2>3
<1> DEFINE p == SubSeq(wire, 1, n)
           q == SubSeq(wire, n + 1, Len(wire))
<1>5. \A S : wire \in Seq(S) =>
        /\ wire = p \o q /\ p \in Seq(S) /\ Len(p) = n /\ q \in Seq(S) /\ Len(q) = Len(wire) - n
        /\ \A i \in 1 .. n : p[i] = wire[i]
  BY <1>4, SplitAt
<1> HIDE DEF p, q
<1>6. /\ wire = p \o q /\ p \in Seq(ItemOf(R)) /\ Len(p) = n /\ q \in Seq(ItemOf(R))
      /\ Len(q) = Len(wire) - n /\ \A i \in 1 .. n : p[i] = wire[i]
  BY <1>2, <1>5, Zenon
<1>7. p \in Seq(UnitOf(R))
  <2>1. p \in [1 .. n -> ItemOf(R)] /\ n \in Nat
    BY <1>4, <1>6, LenProperties
  <2>2. \A i \in 1 .. n : p[i] \in UnitOf(R)
    <3> SUFFICES ASSUME NEW i \in 1 .. n PROVE p[i] \in UnitOf(R)
      OBVIOUS
    <3>1. p[i] \in ItemOf(R) /\ "unit" \in DOMAIN p[i]
      BY <1>3, <1>6, <2>1
    <3> DEFINE x == p[i]
    <3> HIDE DEF x
    <3>2. x \in UnitOf(R)
      BY <3>1, UnitTaken DEF x
    <3> QED
      BY <3>2 DEF x
  <2>3. p \in [1 .. n -> UnitOf(R)]
    BY <2>1, <2>2
  <2> QED
    BY <2>1, <2>3, SeqDef
<1>8. buffer' = buffer \o p /\ wire' = q
  BY <1>3 DEF p, q
<1>9. Len(buffer) + Len(p) <= capacity /\ Len(q) <= Len(wire)
  BY <1>2, <1>4, <1>6
<1>10. \A S : wire \in Seq(S) => p \in Seq(S) /\ q \in Seq(S)
  BY <1>5
<1> QED
  BY <1>6, <1>7, <1>8, <1>9, <1>10, Zenon

LEMMA FlightReceived ==
  ASSUME ChannelIInv, Receive, NEW R, Flight(R)
  PROVE  Flight(R)' /\ Len(buffer') <= capacity
<1>1. PICK p \in Seq(UnitOf(R)), q \in Seq(ItemOf(R)) :
        buffer' = buffer \o p /\ wire' = q /\ Len(buffer) + Len(p) <= capacity
  BY ReceiveIs
<1>2. buffer \in Seq(UnitOf(R)) /\ reader \in Seq(ItemOf(R))
  BY DEF Flight
<1>3. buffer \o p \in Seq(UnitOf(R)) /\ Len(buffer \o p) = Len(buffer) + Len(p)
  BY <1>2, ConcatProperties
<1>4. buffer' \in Seq(UnitOf(R)) /\ wire' \in Seq(ItemOf(R)) /\ reader' \in Seq(ItemOf(R))
  BY <1>1, <1>2, <1>3, ReceiveMoves, Zenon
<1>5. Len(buffer') <= capacity
  BY <1>1, <1>3, Zenon
<1> QED
  BY <1>4, <1>5 DEF Flight, ItemOf, UnitOf, PieceSet, BlockOf

LEMMA ReceiveKept ==
  ASSUME ChannelIInv, Receive
  PROVE  ChannelIInv'
<1>1. /\ ScriptType /\ EndsType /\ RoomType /\ Flight(1 .. sent) /\ InOrder /\ Pairs
      /\ sent \in Nat /\ D \in Nat
  BY TypesAre
<1>2. /\ script' = script /\ sent' = sent /\ peer' = peer /\ broken' = broken /\ back' = back
      /\ channel' = channel /\ hap' = hap /\ reader' = reader /\ errno' = errno
      /\ capacity' = capacity /\ dispatched' = dispatched /\ open' = open /\ D' = D
      /\ ~channel.encrypted
  BY ReceiveMoves
<1>3. ScriptType' /\ EndsType' /\ InOrder'
  BY <1>1, <1>2 DEF ScriptType, EndsType, InOrder
<1>4. Flight(1 .. sent)' /\ Len(buffer') <= capacity
  <2>1. PICK R : R = 1 .. sent
    OBVIOUS
  <2>2. Flight(R)
    BY <1>1, <2>1
  <2>3. Flight(R)' /\ Len(buffer') <= capacity
    BY <2>2, FlightReceived
  <2> QED
    BY <1>2, <2>1, <2>3 DEF Flight
<1>5. RoomType'
  BY <1>1, <1>2, <1>4 DEF RoomType
<1>6. Pairs'
  BY <1>1, <1>2, PairsStay
<1>7. ASSUME Dropped PROVE Dropped'
  <2>1. PICK R : R = {sent}
    OBVIOUS
  <2>2. Flight(R)
    BY <1>7, <2>1 DEF Dropped
  <2>3. Flight(R)'
    BY <2>2, FlightReceived
  <2>4. Flight({sent})'
    BY <1>2, <2>1, <2>3 DEF Flight
  <2> QED
    BY <1>2, <1>7, <2>4 DEF Dropped
<1>8. ASSUME Flow PROVE Flow'
  <2>1. reader = << >>
    BY <1>1, <1>2 DEF Pairs, Agree, BothClear
  <2> DEFINE F == First(D)
             A == After(buffer, F)
             S == UnitOf(1 .. sent)
  <2>2. Chain(buffer, F) /\ wire \in Seq(S) /\ Chain(wire, A) /\ After(wire, A) = First(sent)
    BY <1>2, <1>8 DEF Flow, InTheClear
  <2>3. PICK p, q : wire = p \o q /\ buffer' = buffer \o p /\ wire' = q
                    /\ p \in Seq(S) /\ q \in Seq(S)
    <3>1. PICK R : R = 1 .. sent
      OBVIOUS
    <3>2. Flight(R)
      BY <1>1, <3>1
    <3>3. PICK p \in Seq(UnitOf(R)), q \in Seq(ItemOf(R)) :
           /\ wire = p \o q /\ buffer' = buffer \o p /\ wire' = q
           /\ \A T : wire \in Seq(T) => p \in Seq(T) /\ q \in Seq(T)
      BY <3>2, ReceiveIs
    <3>4. p \in Seq(S) /\ q \in Seq(S)
      BY <2>2, <3>3, Zenon
    <3> QED
      BY <3>3, <3>4, Zenon
  <2>4. buffer \in Seq(S)
    BY <1>1 DEF Flight
  <2> HIDE DEF F, A, S
  <2>5. Chain(p, A) /\ Chain(q, After(p, A)) /\ After(q, After(p, A)) = First(sent)
    <3>1. Chain(p \o q, A) /\ After(p \o q, A) = First(sent)
      BY <2>2, <2>3, Zenon
    <3> QED
      BY <2>3, <3>1, ChainConcat DEF S
  <2>6. Chain(buffer \o p, F) /\ After(buffer \o p, F) = After(p, A)
    BY <2>2, <2>3, <2>4, <2>5, ChainConcat DEF S, A
  <2>7. Chain(buffer', F) /\ After(buffer', F) = After(p, A)
    BY <2>3, <2>6, Zenon
  <2>8. F' = F /\ (1 .. sent)' = 1 .. sent /\ First(sent)' = First(sent)
    BY <1>2 DEF F, First
  <2>9. Chain(buffer, F)' /\ After(buffer, F)' = After(p, A)
    BY <1>2, <2>7, <2>8, SameScript
  <2>10. Chain(wire, After(buffer, F))' /\ After(wire, After(buffer, F))' = First(sent)
    BY <1>2, <2>3, <2>5, <2>9, SameScript
  <2>11. InTheClear'
    BY <1>2, <2>3, <2>8, <2>10 DEF InTheClear, F, S
  <2> QED
    BY <1>2, <2>1, <2>9, <2>11 DEF Flow, F
<1> QED
  BY <1>3, <1>4, <1>5, <1>6, <1>7, <1>8 DEF ChannelIInv

LEMMA PieceTyped ==
  ASSUME NEW R, NEW x \in ItemOf(R), "piece" \in DOMAIN x
  PROVE  x.block.units \in Seq(UnitOf(R))
<1>1. x \in PieceSet(BlockOf(R))
  BY DEF ItemOf, UnitOf, PieceSet
<1>2. x.block \in BlockOf(R)
  BY <1>1 DEF PieceSet
<1> QED
  BY <1>2 DEF BlockOf

(* A block is taken whole, or not at all. *)
LEMMA EndOfBlockMoves ==
  ASSUME ChannelIInv, EndOfBlock
  PROVE  /\ script' = script /\ sent' = sent /\ peer' = peer /\ broken' = broken /\ back' = back
         /\ wire' = wire /\ hap' = hap /\ errno' = errno
         /\ capacity' = capacity /\ dispatched' = dispatched /\ D' = D
         /\ reader' = << >> /\ reader # << >> /\ channel.encrypted /\ open' \in BOOLEAN
         /\ \/ channel' = channel /\ buffer' = buffer
            \/ /\ buffer' = buffer \o reader[1].block.units /\ ~BadLength /\ Len(reader) = 3
               /\ channel' \in Ends /\ channel'.encrypted /\ channel'.tx = channel.tx
               /\ channel'.rx.key = channel.rx.key /\ channel'.rx.nonce = channel.rx.nonce + 1
<1>1. /\ script' = script /\ sent' = sent /\ peer' = peer /\ broken' = broken /\ back' = back
      /\ wire' = wire /\ hap' = hap /\ errno' = errno
      /\ capacity' = capacity /\ dispatched' = dispatched /\ D' = D /\ reader' = << >>
  BY DEF EndOfBlock, D
<1>2. reader # << >>
  <2>1. Len(<< >>) = 0
    OBVIOUS
  <2>2. Len(reader) = 3 \/ Len(reader) >= 2
    BY DEF EndOfBlock, BadLength
  <2> QED
    BY <2>1, <2>2
<1>3. channel.encrypted
  BY <1>2 DEF ChannelIInv, Pairs, Agree, BothClear
<1> DEFINE ok == ~BadLength /\ IsPiece(3) /\ reader[1].block.key = channel.rx.key
                 /\ reader[1].block.nonce = channel.rx.nonce
<1>4. IF ok THEN /\ buffer' = buffer \o reader[1].block.units
                 /\ channel' = [channel EXCEPT !.rx.nonce = @ + 1] /\ open' = open
      ELSE open' = (errno = "EAGAIN") /\ buffer' = buffer /\ channel' = channel
  BY DEF EndOfBlock
<1>5. CASE ok
  <2>1. /\ buffer' = buffer \o reader[1].block.units /\ open' = open
        /\ channel' = [channel EXCEPT !.rx.nonce = @ + 1] /\ ~BadLength
    BY <1>4, <1>5
  <2>2. Len(reader) = 3
    BY <2>1 DEF EndOfBlock
  <2>3. open' \in BOOLEAN
    BY <2>1 DEF ChannelIInv, ScriptType
  <2>4. channel \in Ends /\ channel.rx \in Counters /\ channel.rx.nonce \in Nat /\ channel.encrypted \in BOOLEAN
    BY DEF ChannelIInv, EndsType, Ends, Counters
  <2>5. /\ channel' \in Ends /\ channel'.encrypted /\ channel'.tx = channel.tx
        /\ channel'.rx.key = channel.rx.key /\ channel'.rx.nonce = channel.rx.nonce + 1
    BY <1>3, <2>1, <2>4 DEF Ends, Counters
  <2> QED
    BY <1>1, <1>2, <1>3, <2>1, <2>2, <2>3, <2>5
<1>6. CASE ~ok
  <2>1. open' = (errno = "EAGAIN") /\ buffer' = buffer /\ channel' = channel
    BY <1>4, <1>6
  <2>2. open' \in BOOLEAN
    BY <2>1
  <2> QED
    BY <1>1, <1>2, <1>3, <2>1, <2>2
<1> QED
  BY <1>5, <1>6

LEMMA BlockTaken ==
  ASSUME ChannelIInv, EndOfBlock, NEW R, Flight(R)
  PROVE  Flight(R)' /\ Len(buffer') <= capacity
<1>1. buffer \in Seq(UnitOf(R)) /\ wire \in Seq(ItemOf(R)) /\ reader \in Seq(ItemOf(R))
  BY DEF Flight
<1>2. Len(buffer) \in Nat /\ capacity \in Nat /\ Len(buffer) <= capacity
  BY TypesAre DEF RoomType
<1>3. wire' \in Seq(ItemOf(R)) /\ reader' \in Seq(ItemOf(R))
  BY <1>1, EmptyIsSeq, EndOfBlockMoves
<1>4. buffer' \in Seq(UnitOf(R)) /\ Len(buffer') <= capacity
  <2>1. CASE buffer' = buffer
    BY <1>1, <1>2, <2>1
  <2>2. CASE buffer' = buffer \o reader[1].block.units /\ ~BadLength /\ Len(reader) = 3
    <3> DEFINE u == reader[1].block.units
    <3>1. \A i \in 1 .. 2 : IsPiece(i)
      BY <2>2, BufferAssumption DEF BadLength, BlockLength
    <3>2. "piece" \in DOMAIN reader[1] /\ reader[1] \in ItemOf(R)
      <4>1. 1 \in 1 .. 2 /\ 1 \in 1 .. Len(reader)
        BY <2>2
      <4>2. "piece" \in DOMAIN reader[1]
        BY <3>1, <4>1, Zenon DEF IsPiece
      <4>3. reader[1] \in ItemOf(R)
        <5> DEFINE I == ItemOf(R)
        <5>1. reader \in Seq(I)
          BY <1>1
        <5> HIDE DEF I
        <5>2. reader[1] \in I
          BY <4>1, <5>1, ElementOfSeq
        <5> QED
          BY <5>2 DEF I
      <4> QED
        BY <4>2, <4>3
    <3>3. u \in Seq(UnitOf(R))
      <4> DEFINE x == reader[1]
      <4> HIDE DEF x
      <4>1. x.block.units \in Seq(UnitOf(R))
        BY <3>2, PieceTyped DEF x
      <4> QED
        BY <4>1 DEF x
    <3>4. Len(u) \in Nat
      BY <3>3, LenIs
    <3>5. Len(u) <= capacity - Len(buffer)
      BY <1>2, <2>2, <3>1, <3>4 DEF BadLength, BlockLength
    <3> HIDE DEF u
    <3>6. buffer \o u \in Seq(UnitOf(R)) /\ Len(buffer \o u) = Len(buffer) + Len(u)
      BY <1>1, <3>3, ConcatProperties
    <3>7. buffer' = buffer \o u
      BY <2>2 DEF u
    <3>8. Len(buffer) + Len(u) <= capacity
      BY <1>2, <3>4, <3>5
    <3> QED
      BY <3>6, <3>7, <3>8, Zenon
  <2> QED
    BY <2>1, <2>2, EndOfBlockMoves
<1> QED
  BY <1>3, <1>4 DEF Flight, ItemOf, UnitOf, PieceSet, BlockOf

LEMMA EmptyConcat ==
  ASSUME NEW S, NEW s \in Seq(S)
  PROVE  << >> \o s = s
BY ConcatEmptySeq

(* The block that has arrived is the next one. *)
LEMMA BlockIsNext ==
  ASSUME ChannelIInv, EndOfBlock, Flow
  PROVE  peer.encrypted /\ Flow'
<1>1. /\ Flight(1 .. sent) /\ Agree /\ sent \in Nat /\ D \in Nat /\ Len(buffer) \in Nat /\ capacity \in Nat
      /\ Room \in Nat \ {0} /\ channel.rx.nonce \in Nat
  BY TypesAre DEF Pairs
<1>2. /\ script' = script /\ sent' = sent /\ peer' = peer /\ wire' = wire /\ capacity' = capacity
      /\ D' = D /\ reader' = << >> /\ reader # << >> /\ channel.encrypted
  BY EndOfBlockMoves
<1> DEFINE F == First(D)
           P == After(buffer, F)
           S == UnitOf(1 .. sent)
           B == BlockOf(1 .. sent)
           I == ItemOf(1 .. sent)
<1>3. PICK bs \in Seq(B) :
        /\ reader \o wire = Pieces(bs) /\ Carries(bs, P, First(sent))
        /\ \A t \in 1 .. Len(bs) :
             bs[t].key = channel.rx.key /\ bs[t].nonce = channel.rx.nonce + t - 1
        /\ peer.encrypted =>
             peer.tx.key = channel.rx.key /\ peer.tx.nonce = channel.rx.nonce + Len(bs)
  BY <1>2 DEF Flow, Sealed
<1>4. /\ buffer \in Seq(S) /\ wire \in Seq(I) /\ reader \in Seq(I) /\ Len(reader) <= 3
      /\ Chain(buffer, F) /\ Len(buffer) + Room <= capacity
  BY <1>1, <1>2, TypesAre DEF Flight, RoomType, Flow
<1> HIDE DEF P, F, S, B, I
<1>5. /\ bs # << >> /\ Len(bs) \in Nat \ {0} /\ bs[1] \in B
      /\ \A i \in 1 .. Len(reader) : reader[i] = [block |-> bs[1], piece |-> i]
      /\ Len(reader) = 3 => wire = Pieces(Tail(bs))
  <2>1. /\ bs \in Seq(B) /\ reader \in Seq(I) /\ wire \in Seq(I)
        /\ reader \o wire = Pieces(bs) /\ reader # << >> /\ Len(reader) <= 3
    BY <1>2, <1>3, <1>4
  <2>2. FirstOf(B, bs, reader, wire)
    BY <2>1, PiecesHead
  <2> QED
    BY <2>2 DEF FirstOf
<1>6. peer.encrypted
  <2> SUFFICES ASSUME ~peer.encrypted PROVE FALSE
    OBVIOUS
  <2>1. D = sent
    BY <1>1, <1>2 DEF Agree, PeerToTurn, PeerIsLost
  <2>2. P = First(sent)
    BY <1>1, <1>4, <2>1, NothingAbove DEF P, F, S
  <2>3. bs = << >>
    BY <1>1, <1>3, <2>2, NoBlocksAbove DEF B
  <2> QED
    BY <1>5, <2>3
<1> DEFINE u == bs[1].units
           cs == Tail(bs)
<1>7. /\ Len(u) \in 1 .. RTSP_ENCRYPTED_BLOCK_MAX /\ Chain(u, P)
      /\ Carries(cs, After(u, P), First(sent)) /\ u \in Seq(S)
  <2>1. bs[1].units \in Seq(S)
    BY <1>5 DEF B, BlockOf, S
  <2> QED
    BY <1>3, <1>5, <2>1, CarriesHead
<1> HIDE DEF u, cs
<1>8. ASSUME Len(reader) >= 2 PROVE ~BadLength
  <2>1. 1 \in 1 .. Len(reader) /\ 2 \in 1 .. Len(reader)
    <3>1. Len(reader) \in Nat
      BY <1>4, LenIs
    <3> QED
      BY <1>8, <3>1
  <2>2. reader[1] = [block |-> bs[1], piece |-> 1] /\ reader[2] = [block |-> bs[1], piece |-> 2]
    BY <1>5, <2>1
  <2>3. IsPiece(1) /\ IsPiece(2)
    BY <2>2 DEF IsPiece
  <2>4. BlockLength = Len(u)
    <3>1. \A i \in 1 .. 2 : IsPiece(i)
      <4>1. \A i \in 1 .. 2 : i = 1 \/ i = 2
        OBVIOUS
      <4> QED
        BY <2>3, <4>1
    <3>2. reader[1].block.units = u
      BY <2>2 DEF u
    <3> QED
      BY <3>1, <3>2 DEF BlockLength
  <2>5. RTSP_ENCRYPTED_BLOCK_MAX <= capacity - Len(buffer) /\ RTSP_ENCRYPTED_BLOCK_MAX \in Nat
    BY <1>1, <1>4, BufferAssumption DEF Room
  <2>6. Len(u) <= RTSP_ENCRYPTED_BLOCK_MAX /\ Len(u) <= capacity - Len(buffer)
    BY <1>1, <1>7, <2>5
  <2> QED
    BY <1>1, <1>7, <2>4, <2>5, <2>6 DEF BadLength
<1>9. Len(reader) = 3 /\ ~BadLength
  <2>1. ~BadLength
    BY <1>8 DEF BadLength
  <2> QED
    BY <2>1 DEF EndOfBlock
<1>10. /\ reader[1] = [block |-> bs[1], piece |-> 1] /\ reader[3] = [block |-> bs[1], piece |-> 3]
       /\ wire = Pieces(cs)
  BY <1>5, <1>9 DEF cs
<1>11. bs[1].key = channel.rx.key /\ bs[1].nonce = channel.rx.nonce
  <2>1. 1 \in 1 .. Len(bs)
    BY <1>5
  <2> QED
    BY <1>1, <1>3, <2>1
<1>12. buffer' = buffer \o u /\ channel' = [channel EXCEPT !.rx.nonce = @ + 1]
  <2>1. IsPiece(3) /\ reader[1].block.key = channel.rx.key /\ reader[1].block.nonce = channel.rx.nonce
        /\ reader[1].block.units = u
    BY <1>10, <1>11 DEF IsPiece, u
  <2> QED
    BY <1>9, <2>1 DEF EndOfBlock
<1>13. channel'.encrypted /\ channel'.rx.key = channel.rx.key /\ channel'.rx.nonce = channel.rx.nonce + 1
  <2>1. channel \in Ends /\ channel.rx \in Counters
    BY TypesAre DEF Ends
  <2> QED
    BY <1>1, <1>2, <1>12, <2>1 DEF Ends, Counters
<1>14. cs \in Seq(B) /\ Len(cs) = Len(bs) - 1 /\ \A t \in 1 .. Len(bs) - 1 : cs[t] = bs[t + 1]
  BY <1>5, TailIs DEF cs
<1>15. << >> \o wire = Pieces(cs)
  <2>1. << >> \o wire = wire
    BY <1>4, EmptyConcat
  <2> QED
    BY <1>10, <2>1
<1>16. Chain(buffer \o u, F) /\ After(buffer \o u, F) = After(u, P)
  BY <1>4, <1>7, ChainConcat DEF S, P
<1>17. PICK z : z = After(u, P)
  OBVIOUS
<1>18. Chain(buffer, First(D))' /\ After(buffer, First(D))' = z
  <2>1. First(D)' = F
    BY <1>2 DEF F, First
  <2>2. Chain(buffer', F) /\ After(buffer', F) = z
    BY <1>12, <1>16, <1>17
  <2> QED
    BY <1>2, <2>1, <2>2, SameScript
<1>19. Sealed'
  <2>1. PICK ds : ds = cs
    OBVIOUS
  <2>2. Carries(ds, After(buffer, First(D)), First(sent))'
    <3>1. Carries(ds, z, First(sent)) /\ First(sent)' = First(sent)
      BY <1>2, <1>7, <1>17, <2>1 DEF First
    <3> QED
      BY <1>2, <1>18, <3>1, SameScript
  <2>3. ds \in Seq(BlockOf(1 .. sent'))
    BY <1>2, <1>14, <2>1 DEF B
  <2>4. reader' \o wire' = Pieces(ds)
    BY <1>2, <1>15, <2>1
  <2>5. ASSUME NEW t \in 1 .. Len(ds)
        PROVE  ds[t].key = channel'.rx.key /\ ds[t].nonce = channel'.rx.nonce + t - 1
    <3>1. t + 1 \in 1 .. Len(bs) /\ ds[t] = bs[t + 1] /\ t \in Nat
      BY <1>5, <1>14, <2>1
    <3>2. bs[t + 1].key = channel.rx.key /\ bs[t + 1].nonce = channel.rx.nonce + (t + 1) - 1
      BY <1>3, <3>1
    <3>3. channel.rx.nonce + (t + 1) - 1 = (channel.rx.nonce + 1) + t - 1
      BY <1>1, <3>1
    <3> QED
      BY <1>13, <3>1, <3>2, <3>3
  <2>6. peer'.encrypted =>
          peer'.tx.key = channel'.rx.key /\ peer'.tx.nonce = channel'.rx.nonce + Len(ds)
    <3>1. Len(ds) = Len(bs) - 1 /\ Len(bs) \in Nat
      BY <1>5, <1>14, <2>1
    <3>2. channel.rx.nonce + Len(bs) = (channel.rx.nonce + 1) + Len(ds)
      BY <1>1, <3>1
    <3> QED
      BY <1>2, <1>3, <1>13, <3>2
  <2> QED
    BY <2>2, <2>3, <2>4, <2>5, <2>6 DEF Sealed
<1> QED
  BY <1>2, <1>6, <1>13, <1>18, <1>19 DEF Flow

LEMMA EndOfBlockKept ==
  ASSUME ChannelIInv, EndOfBlock
  PROVE  ChannelIInv'
<1>1. /\ ScriptType /\ EndsType /\ RoomType /\ Flight(1 .. sent) /\ InOrder /\ Pairs
      /\ sent \in Nat /\ D \in Nat
  BY TypesAre
<1>2. /\ script' = script /\ sent' = sent /\ peer' = peer /\ broken' = broken /\ back' = back
      /\ wire' = wire /\ hap' = hap /\ errno' = errno
      /\ capacity' = capacity /\ dispatched' = dispatched /\ D' = D
      /\ reader' = << >> /\ channel.encrypted /\ open' \in BOOLEAN
      /\ \/ channel' = channel
         \/ /\ channel' \in Ends /\ channel'.encrypted /\ channel'.tx = channel.tx
  BY EndOfBlockMoves
<1>3. ScriptType' /\ InOrder'
  BY <1>1, <1>2 DEF ScriptType, InOrder
<1>4. EndsType'
  BY <1>1, <1>2 DEF EndsType
<1>5. Flight(1 .. sent)' /\ Len(buffer') <= capacity
  <2>1. PICK R : R = 1 .. sent
    OBVIOUS
  <2>2. Flight(R)
    BY <1>1, <2>1
  <2>3. Flight(R)' /\ Len(buffer') <= capacity
    BY <2>2, BlockTaken
  <2> QED
    BY <1>2, <2>1, <2>3 DEF Flight
<1>6. RoomType'
  <2>1. Len(reader') = 0
    BY <1>2
  <2> QED
    BY <1>1, <1>2, <1>5, <2>1 DEF RoomType
<1>7. (Dropped' \/ Flow') /\ peer.encrypted
  <2>1. CASE Dropped
    <3>1. PICK R : R = {sent}
      OBVIOUS
    <3>2. Flight(R)
      BY <2>1, <3>1 DEF Dropped
    <3>3. Flight(R)'
      BY <3>2, BlockTaken
    <3>4. Flight({sent})'
      BY <1>2, <3>1, <3>3 DEF Flight
    <3>5. Dropped'
      BY <1>2, <2>1, <3>4 DEF Dropped
    <3>6. peer.encrypted
      <4>1. D # sent
        BY <1>1, <2>1 DEF Dropped
      <4> QED
        BY <1>1, <1>2, <4>1 DEF Pairs, Agree, PeerToTurn, PeerIsLost
    <3> QED
      BY <3>5, <3>6
  <2>2. CASE Flow
    BY <2>2, BlockIsNext
  <2> QED
    BY <2>1, <2>2 DEF ChannelIInv
<1>8. Pairs'
  BY <1>1, <1>2, <1>7, PairsStay
<1> QED
  BY <1>3, <1>4, <1>5, <1>6, <1>7, <1>8 DEF ChannelIInv

-----------------------------------------------------------------------------
(* A request too large for the buffer. *)
LEMMA Narrow ==
  ASSUME NEW S, NEW s \in Seq(S), NEW T, \A i \in 1 .. Len(s) : s[i] \in T
  PROVE  s \in Seq(T)
<1>1. s \in [1 .. Len(s) -> S] /\ Len(s) \in Nat
  BY LenProperties
<1>2. s \in [1 .. Len(s) -> T]
  BY <1>1
<1> QED
  BY <1>1, <1>2, IsASeq

LEMMA PartsOf ==
  ASSUME NEW S, NEW r \in Seq(S), NEW w \in Seq(S), NEW T, r \o w \in Seq(T)
  PROVE  r \in Seq(T) /\ w \in Seq(T)
<1> DEFINE u == r \o w
<1>1. Len(r) \in Nat /\ Len(w) \in Nat
  BY LenIs
<1>2. /\ Len(u) = Len(r) + Len(w)
      /\ \A i \in 1 .. Len(r) + Len(w) : u[i] = IF i <= Len(r) THEN r[i] ELSE w[i - Len(r)]
  BY ConcatIs
<1>3. u \in Seq(T)
  OBVIOUS
<1> HIDE DEF u
<1>4. \A i \in 1 .. Len(u) : u[i] \in T
  BY <1>3, ElementOfSeq
<1>5. ASSUME NEW i \in 1 .. Len(r) PROVE r[i] \in T
  <2>1. i \in 1 .. Len(u) /\ u[i] = r[i]
    BY <1>1, <1>2
  <2> QED
    BY <1>4, <2>1
<1>6. ASSUME NEW i \in 1 .. Len(w) PROVE w[i] \in T
  <2>1. Len(r) + i \in 1 .. Len(u) /\ u[Len(r) + i] = w[i]
    BY <1>1, <1>2
  <2> QED
    BY <1>4, <2>1
<1> QED
  BY <1>5, <1>6, Narrow

(* The request at the head of the buffer is the next one. *)
LEMMA HeadIs ==
  ASSUME ChannelIInv, Header, Flow
  PROVE  /\ Head(buffer) = First(D) /\ Head(buffer).request = D + 1 /\ D + 1 \in 1 .. sent
         /\ D + 1 \in 1 .. Len(script) /\ D + 1 <= Len(script)
<1>1. buffer \in Seq(UnitOf(1 .. sent)) /\ buffer # << >> /\ sent \in Nat /\ D \in Nat
      /\ sent <= Len(script) /\ Len(script) \in Nat
  BY TypesAre DEF Flight, Header
<1> DEFINE U == UnitOf(1 .. sent)
<1>2. buffer \in Seq(U)
  BY <1>1
<1> HIDE DEF U
<1>3. Head(buffer) = buffer[1] /\ buffer[1] \in U
  BY <1>1, <1>2, TailIs
<1>4. buffer[1] = First(D)
  BY <1>1 DEF Flow, Chain
<1>5. First(D).request = D + 1
  BY DEF First
<1>6. buffer[1].request \in 1 .. sent
  BY <1>3 DEF U, UnitOf
<1>7. D + 1 \in 1 .. sent
  BY <1>4, <1>5, <1>6
<1> QED
  BY <1>1, <1>3, <1>4, <1>5, <1>7

LEMMA HeadOfDropped ==
  ASSUME ChannelIInv, Header, Dropped
  PROVE  TooLarge
<1> DEFINE U == UnitOf({sent})
<1>1. buffer \in Seq(U) /\ buffer # << >>
  BY DEF Dropped, Flight, Header
<1> HIDE DEF U
<1>2. Head(buffer) = buffer[1] /\ buffer[1] \in U
  BY <1>1, TailIs
<1>3. Head(buffer).request = sent
  BY <1>2 DEF U, UnitOf
<1> QED
  BY <1>3 DEF TooLarge, Dropped

(* What follows the head of the last request is its own. *)
LEMMA NothingElse ==
  ASSUME ChannelIInv, Flow, D + 1 = sent
  PROVE  wire \in Seq(ItemOf({sent})) /\ reader \in Seq(ItemOf({sent}))
<1>1. /\ buffer \in Seq(UnitOf(1 .. sent)) /\ wire \in Seq(ItemOf(1 .. sent))
      /\ reader \in Seq(ItemOf(1 .. sent)) /\ sent \in Nat /\ D \in Nat
      /\ Pairs /\ (1 .. sent) \subseteq Nat
  BY TypesAre DEF Flight
<1> DEFINE R == 1 .. sent
           A == After(buffer, First(D))
<1>2. A.request \in Nat /\ A.request >= sent
  <2>1. Chain(buffer, First(D)) /\ First(D).request = sent
    BY DEF Flow, First
  <2> DEFINE F == First(D)
  <2> HIDE DEF F, R
  <2>2. Chain(buffer, F) /\ F.request = sent /\ buffer \in Seq(UnitOf(R)) /\ R \subseteq Nat
    BY <1>1, <2>1 DEF F, R
  <2>3. After(buffer, F).request \in Nat /\ After(buffer, F).request >= F.request
    BY <1>1, <2>2, ChainAbove
  <2> QED
    BY <2>2, <2>3 DEF F
<1> HIDE DEF A
<1>3. UnitOf({sent}) \subseteq ItemOf({sent}) /\ PieceSet(BlockOf({sent})) \subseteq ItemOf({sent})
  BY DEF ItemOf
<1>4. CASE ~channel.encrypted
  <2>1. reader = << >> /\ wire \in Seq(UnitOf(1 .. sent)) /\ Chain(wire, A)
    BY <1>1, <1>4 DEF Pairs, Agree, BothClear, Flow, InTheClear, A
  <2>2. \A i \in 1 .. Len(wire) : wire[i].request >= A.request
    <3> HIDE DEF R
    <3>1. wire \in Seq(UnitOf(R)) /\ R \subseteq Nat
      BY <1>1, <2>1 DEF R
    <3> QED
      BY <1>2, <2>1, <3>1, ChainAbove
  <2>3. ASSUME NEW i \in 1 .. Len(wire) PROVE wire[i] \in UnitOf({sent})
    <3> DEFINE U == UnitOf(1 .. sent)
    <3>1. wire \in Seq(U)
      BY <2>1
    <3> HIDE DEF U
    <3>2. wire[i] \in U
      BY <3>1, ElementOfSeq
    <3>3. wire[i].request \in 1 .. sent /\ wire[i].request >= A.request
      BY <2>2, <3>2 DEF U, UnitOf
    <3>4. wire[i].request = sent
      BY <1>1, <1>2, <3>3
    <3> QED
      BY <3>2, <3>4 DEF U, UnitOf
  <2>4. wire \in Seq(ItemOf({sent}))
    <3> DEFINE I == ItemOf(1 .. sent)
               T == ItemOf({sent})
    <3>1. wire \in Seq(I) /\ \A i \in 1 .. Len(wire) : wire[i] \in T
      BY <1>1, <1>3, <2>3
    <3> HIDE DEF I, T
    <3>2. wire \in Seq(T)
      BY <3>1, Narrow
    <3> QED
      BY <3>2 DEF T
  <2> QED
    BY <2>1, <2>4, EmptyIsSeq
<1>5. CASE channel.encrypted
  <2>1. PICK bs \in Seq(BlockOf(1 .. sent)) :
          reader \o wire = Pieces(bs) /\ Carries(bs, A, First(sent))
    BY <1>5 DEF Flow, Sealed, A
  <2>2. \A t \in 1 .. Len(bs) : \A i \in 1 .. Len(bs[t].units) : bs[t].units[i].request >= A.request
    <3> HIDE DEF R
    <3>1. bs \in Seq(BlockOf(R)) /\ R \subseteq Nat
      BY <1>1, <2>1 DEF R
    <3> QED
      BY <2>1, <3>1, CarriesAbove
  <2>3. ASSUME NEW t \in 1 .. Len(bs) PROVE bs[t] \in BlockOf({sent})
    <3> DEFINE B == BlockOf(1 .. sent)
               U == UnitOf(1 .. sent)
               T == UnitOf({sent})
               u == bs[t].units
    <3>1. bs \in Seq(B)
      BY <2>1
    <3>2. bs[t] \in B
      <4> HIDE DEF B
      <4> QED
        BY <3>1, ElementOfSeq
    <3>3. u \in Seq(U) /\ \A i \in 1 .. Len(u) : u[i].request >= A.request
      BY <2>2, <3>2 DEF BlockOf
    <3>4. ASSUME NEW i \in 1 .. Len(u) PROVE u[i] \in T
      <4>1. u[i] \in U
        <5> HIDE DEF u, U
        <5> QED
          BY <3>3, ElementOfSeq
      <4>2. u[i].request \in 1 .. sent /\ u[i].request >= A.request
        <5>1. u[i].request \in 1 .. sent
          <6> HIDE DEF u
          <6> QED
            BY <4>1 DEF UnitOf
        <5> QED
          BY <3>3, <5>1
      <4>3. u[i].request = sent
        <5> HIDE DEF u
        <5> QED
          BY <1>1, <1>2, <4>2
      <4> HIDE DEF u
      <4> QED
        BY <4>1, <4>3 DEF UnitOf
    <3>5. u \in Seq(T)
      <4> HIDE DEF u, U, T
      <4> QED
        BY <3>3, <3>4, Narrow
    <3> QED
      BY <3>2, <3>5 DEF BlockOf
  <2> DEFINE B == BlockOf({sent})
             T == ItemOf({sent})
  <2>4. bs \in Seq(B)
    <3> DEFINE C == BlockOf(1 .. sent)
    <3>1. bs \in Seq(C) /\ \A t \in 1 .. Len(bs) : bs[t] \in B
      BY <2>1, <2>3
    <3> HIDE DEF B, C
    <3> QED
      BY <3>1, Narrow
  <2>5. PieceSet(B) \subseteq T
    BY <1>3
  <2> HIDE DEF B, T
  <2>6. Pieces(bs) \in Seq(PieceSet(B))
    BY <2>4, PiecesAre
  <2>7. Pieces(bs) \in Seq(T)
    BY <2>5, <2>6, SeqMonotonic
  <2>8. reader \in Seq(T) /\ wire \in Seq(T)
    <3> DEFINE I == ItemOf(1 .. sent)
    <3>1. reader \in Seq(I) /\ wire \in Seq(I) /\ reader \o wire \in Seq(T)
      BY <1>1, <2>1, <2>7
    <3> HIDE DEF I
    <3> QED
      BY <3>1, PartsOf
  <2> QED
    BY <2>8 DEF T
<1> QED
  BY <1>4, <1>5

LEMMA DropKept ==
  ASSUME ChannelIInv, Drop
  PROVE  ChannelIInv'
<1>1. /\ ScriptType /\ EndsType /\ RoomType /\ Flight(1 .. sent) /\ InOrder /\ Pairs
      /\ sent \in Nat /\ D \in Nat /\ Len(script) \in Nat /\ sent <= Len(script)
      /\ capacity \in Nat
  BY TypesAre
<1>2. /\ script' = script /\ sent' = sent /\ peer' = peer /\ broken' = broken /\ back' = back
      /\ wire' = wire /\ channel' = channel /\ hap' = hap /\ reader' = reader /\ errno' = errno
      /\ capacity' = capacity /\ dispatched' = dispatched /\ open' = open /\ D' = D
      /\ buffer' = << >> /\ TooLarge
  BY DEF Drop, D
<1>3. ScriptType' /\ EndsType' /\ InOrder'
  BY <1>1, <1>2 DEF ScriptType, EndsType, InOrder
<1>4. \A R : Flight(R) => Flight(R)'
  BY <1>2, EmptyIsSeq DEF Flight, ItemOf, UnitOf, PieceSet, BlockOf
<1>5. RoomType'
  BY <1>1, <1>2, EmptyIsSeq DEF RoomType
<1>6. Pairs'
  BY <1>1, <1>2, PairsStay
<1>7. /\ D + 1 = sent /\ sent = Len(script) /\ script[sent].size > RTSP_BUFFER_LARGE
      /\ wire \in Seq(ItemOf({sent})) /\ reader \in Seq(ItemOf({sent}))
  <2>1. CASE Dropped
    BY <2>1 DEF Dropped, Flight
  <2>2. CASE Flow
    <3>1. Head(buffer).request = D + 1 /\ D + 1 \in 1 .. sent /\ D + 1 \in 1 .. Len(script)
      BY <1>2, <2>2, HeadIs DEF TooLarge
    <3>2. script[D + 1].size > RTSP_BUFFER_LARGE
      BY <1>2, <3>1 DEF TooLarge
    <3>3. D + 1 = Len(script)
      <4>1. Orderly(script)
        BY <1>1, ScriptIs
      <4>2. D + 1 \in DOMAIN script
        BY <3>1, <4>1 DEF Orderly
      <4> QED
        BY <3>2, <4>1, <4>2 DEF Orderly
    <3>4. D + 1 = sent
      BY <1>1, <3>1, <3>3
    <3> QED
      BY <2>2, <3>2, <3>3, <3>4, NothingElse
  <2> QED
    BY <2>1, <2>2 DEF ChannelIInv
<1>8. Dropped'
  <2>1. << >> \in Seq(UnitOf({sent}))
    BY EmptyIsSeq
  <2>2. Flight({sent})'
    BY <1>2, <1>7, <2>1 DEF Flight, ItemOf, UnitOf, PieceSet, BlockOf
  <2> QED
    BY <1>2, <1>7, <2>2 DEF Dropped
<1>9. Flight(1 .. sent)'
  <2>1. PICK R : R = 1 .. sent
    OBVIOUS
  <2>2. Flight(R)'
    BY <1>1, <1>4, <2>1
  <2> QED
    BY <1>2, <2>1, <2>2 DEF Flight
<1> QED
  BY <1>3, <1>5, <1>6, <1>8, <1>9 DEF ChannelIInv

-----------------------------------------------------------------------------
(* A request is dispatched: what is taken is the next one, whole. *)
LEMMA DispatchMoves ==
  ASSUME ChannelIInv, Dispatch
  PROVE  LET out == Handle(channel, hap, D + 1)
         IN  /\ script' = script /\ sent' = sent /\ peer' = peer /\ broken' = broken
             /\ wire' = wire /\ reader' = reader /\ errno' = errno /\ capacity' = capacity
             /\ open' = open /\ D' = D + 1 /\ dispatched' = Append(dispatched, D + 1)
             /\ channel' = out.channel /\ hap' = out.hap /\ back' = Append(back, out.answer)
             /\ buffer' = SubSeq(buffer, script[D + 1].size + 1, Len(buffer))
             /\ script[D + 1].size <= Len(buffer)
             /\ Flow /\ D + 1 \in 1 .. sent /\ D + 1 \in 1 .. Len(script) /\ D + 1 <= Len(script)
<1>1. Header /\ ~TooLarge /\ Len(buffer) >= script[Head(buffer).request].size
  BY DEF Dispatch, Whole
<1>2. Flow
  BY <1>1, HeadOfDropped DEF ChannelIInv
<1>3. Head(buffer).request = D + 1 /\ D + 1 \in 1 .. sent /\ D + 1 \in 1 .. Len(script)
      /\ D + 1 <= Len(script)
  BY <1>1, <1>2, HeadIs
<1>4. /\ script' = script /\ sent' = sent /\ peer' = peer /\ broken' = broken
      /\ wire' = wire /\ reader' = reader /\ errno' = errno /\ capacity' = capacity
      /\ open' = open /\ dispatched' = Append(dispatched, D + 1)
      /\ channel' = Handle(channel, hap, D + 1).channel /\ hap' = Handle(channel, hap, D + 1).hap
      /\ back' = Append(back, Handle(channel, hap, D + 1).answer)
      /\ buffer' = SubSeq(buffer, script[D + 1].size + 1, Len(buffer))
  BY <1>3, Zenon DEF Dispatch
<1>5. D' = D + 1
  <2> DEFINE d == D + 1
  <2>1. dispatched \in Seq(Nat) /\ d \in Nat /\ dispatched' = Append(dispatched, d)
    BY <1>4, TypesAre DEF ScriptType
  <2> HIDE DEF d
  <2>2. Len(dispatched') = Len(dispatched) + 1
    BY <2>1, AppendIs
  <2> QED
    BY <2>2 DEF D
<1> QED
  BY <1>1, <1>2, <1>3, <1>4, <1>5

(* The answer to it, and both ends after it. *)
LEMMA DispatchEnds ==
  ASSUME ChannelIInv, Dispatch
  PROVE  /\ channel' \in Ends /\ hap' \in Sessions /\ Handle(channel, hap, D + 1).answer \in Answers
         /\ Handle(channel, hap, D + 1).answer.to = D + 1
         /\ script[D + 1] \in Requests /\ script[D + 1].answer \in Nat \ {0}
         /\ back' \in Seq(Answers) /\ Len(back) \in Nat /\ Len(back') = Len(back) + 1
         /\ \A i \in 1 .. Len(back) : back'[i] = back[i]
         /\ back'[Len(back) + 1] = Handle(channel, hap, D + 1).answer
<1>1. channel \in Ends /\ hap \in Sessions /\ back \in Seq(Answers) /\ script \in Seq(Requests)
  BY TypesAre DEF EndsType
<1>2. /\ D + 1 \in 1 .. Len(script)
      /\ channel' = Handle(channel, hap, D + 1).channel /\ hap' = Handle(channel, hap, D + 1).hap
      /\ back' = Append(back, Handle(channel, hap, D + 1).answer)
  BY DispatchMoves
<1>3. script[D + 1] \in Requests /\ script[D + 1].answer \in Nat \ {0}
  BY <1>1, <1>2, RequestIs
<1> DEFINE a == Handle(channel, hap, D + 1).answer
<1>4. /\ Handle(channel, hap, D + 1).channel \in Ends /\ Handle(channel, hap, D + 1).hap \in Sessions
      /\ a \in Answers /\ a.to = D + 1
  <2> DEFINE r == D + 1
  <2>1. r \in 1 .. Len(script)
    BY <1>2
  <2> HIDE DEF r, a
  <2>2. /\ Handle(channel, hap, r).channel \in Ends /\ Handle(channel, hap, r).hap \in Sessions
        /\ Handle(channel, hap, r).answer \in Answers /\ Handle(channel, hap, r).answer.to = r
    BY <1>1, <2>1, HandleIs
  <2> QED
    BY <2>2 DEF r, a
<1> HIDE DEF a
<1>5. /\ back' \in Seq(Answers) /\ Len(back) \in Nat /\ Len(back') = Len(back) + 1
      /\ \A i \in 1 .. Len(back) : back'[i] = back[i]
      /\ back'[Len(back) + 1] = a
  <2>1. back' = Append(back, a)
    BY <1>2 DEF a
  <2>2. Len(back) \in Nat
    BY <1>1, LenIs
  <2>3. /\ Append(back, a) \in Seq(Answers) /\ Len(Append(back, a)) = Len(back) + 1
        /\ \A i \in 1 .. Len(back) : Append(back, a)[i] = back[i]
        /\ Append(back, a)[Len(back) + 1] = a
    BY <1>1, <1>4, AppendIs
  <2> QED
    BY <2>1, <2>2, <2>3, Zenon
<1> QED
  BY <1>2, <1>3, <1>4, <1>5 DEF a

LEMMA DispatchTypes ==
  ASSUME ChannelIInv, Dispatch
  PROVE  /\ ScriptType' /\ EndsType' /\ RoomType' /\ Flight(1 .. sent)' /\ InOrder'
         /\ Len(buffer') \in Nat /\ Len(buffer') <= Len(buffer) /\ buffer' \in Seq(UnitOf(1 .. sent))
         /\ Chain(buffer', First(D + 1)) /\ After(buffer', First(D + 1)) = After(buffer, First(D))
<1>1. /\ ScriptType /\ EndsType /\ RoomType /\ Flight(1 .. sent) /\ InOrder
      /\ sent \in Nat /\ D \in Nat /\ script \in Seq(Requests) /\ Len(buffer) \in Nat /\ capacity \in Nat
  BY TypesAre
<1>2. /\ script' = script /\ sent' = sent /\ peer' = peer /\ broken' = broken
      /\ wire' = wire /\ reader' = reader /\ errno' = errno /\ capacity' = capacity
      /\ open' = open /\ D' = D + 1 /\ dispatched' = Append(dispatched, D + 1)
      /\ buffer' = SubSeq(buffer, script[D + 1].size + 1, Len(buffer))
      /\ script[D + 1].size <= Len(buffer)
      /\ Flow /\ D + 1 \in 1 .. sent /\ D + 1 <= Len(script)
  BY DispatchMoves
<1>3. /\ dispatched' \in Seq(Nat) /\ Len(dispatched') = Len(dispatched) + 1
      /\ \A i \in 1 .. Len(dispatched) : dispatched'[i] = dispatched[i]
      /\ dispatched'[Len(dispatched) + 1] = D + 1
  <2> DEFINE d == D + 1
  <2>1. dispatched \in Seq(Nat) /\ d \in Nat /\ dispatched' = Append(dispatched, d)
    BY <1>1, <1>2 DEF ScriptType
  <2> HIDE DEF d
  <2>2. /\ Append(dispatched, d) \in Seq(Nat) /\ Len(Append(dispatched, d)) = Len(dispatched) + 1
        /\ \A i \in 1 .. Len(dispatched) : Append(dispatched, d)[i] = dispatched[i]
        /\ Append(dispatched, d)[Len(dispatched) + 1] = d
    BY <2>1, AppendIs
  <2> QED
    BY <2>1, <2>2, Zenon DEF d
<1>4. ScriptType'
  BY <1>1, <1>2, <1>3 DEF ScriptType
<1>5. EndsType'
  BY <1>1, <1>2, DispatchEnds DEF EndsType
<1>6. InOrder'
  <2>1. DOMAIN dispatched' = 1 .. D + 1 /\ DOMAIN dispatched = 1 .. D
    BY <1>1, <1>3 DEF ScriptType, D
  <2>2. ASSUME NEW i \in 1 .. D + 1 PROVE dispatched'[i] = i
    <3>1. CASE i = D + 1
      BY <1>3, <3>1 DEF D
    <3>2. CASE i \in 1 .. D
      BY <1>1, <1>3, <2>1, <3>2 DEF D, InOrder
    <3> QED
      BY <1>1, <3>1, <3>2
  <2> QED
    BY <2>1, <2>2 DEF InOrder
<1>7. /\ Chain(buffer', First(D + 1)) /\ After(buffer', First(D + 1)) = After(buffer, First(D))
      /\ buffer' \in Seq(UnitOf(1 .. sent)) /\ Len(buffer') <= Len(buffer)
  <2> DEFINE R == 1 .. sent
  <2>1. buffer \in Seq(UnitOf(R)) /\ Chain(buffer, First(D))
    BY <1>1, <1>2 DEF Flight, Flow
  <2> HIDE DEF R
  <2> DEFINE rest == SubSeq(buffer, script[D + 1].size + 1, Len(buffer))
  <2>2. /\ Chain(rest, First(D + 1)) /\ After(rest, First(D + 1)) = After(buffer, First(D))
        /\ rest \in Seq(UnitOf(R)) /\ Len(rest) <= Len(buffer)
    BY <1>1, <1>2, <2>1, ChainHead
  <2>3. buffer' = rest
    BY <1>2
  <2> HIDE DEF rest
  <2>4. /\ Chain(buffer', First(D + 1)) /\ After(buffer', First(D + 1)) = After(buffer, First(D))
        /\ buffer' \in Seq(UnitOf(R)) /\ Len(buffer') <= Len(buffer)
    BY <2>2, <2>3, Zenon
  <2> QED
    BY <2>4 DEF R
<1>8. Len(buffer') \in Nat
  <2> DEFINE U == UnitOf(1 .. sent)
  <2>1. buffer' \in Seq(U)
    BY <1>7
  <2> HIDE DEF U
  <2> QED
    BY <2>1, LenIs
<1>9. RoomType'
  BY <1>1, <1>2, <1>7, <1>8 DEF RoomType
<1>10. Flight(1 .. sent)'
  BY <1>1, <1>2, <1>7 DEF Flight, ItemOf, UnitOf, PieceSet, BlockOf
<1> QED
  BY <1>4, <1>5, <1>6, <1>7, <1>8, <1>9, <1>10

(* What a dispatch makes of the two ends: both stay encrypted, this one    *)
(* turns and answers in the clear (pair-setup) or not (pair-verify), or    *)
(* neither is encrypted.                                                   *)
Sealing ==
  /\ channel.encrypted /\ peer.encrypted /\ channel'.encrypted /\ channel'.rx = channel.rx
  /\ script[D + 1].do = "other" /\ Framed(back', peer.rx, channel'.tx)
TurnsWithM4(a) ==
  /\ ~channel.encrypted /\ ~peer.encrypted /\ channel'.encrypted /\ Encrypts(script, D + 1)
  /\ script[D + 1].do = "setup3" /\ D + 1 = sent /\ back = << >>
  /\ a.ok /\ a.frames = << >> /\ channel'.tx = Counter(ReadKey(a.proof))
  /\ channel'.rx = Counter(WriteKey(a.proof))
TurnsAlone(a) ==
  /\ ~channel.encrypted /\ ~peer.encrypted /\ channel'.encrypted /\ Encrypts(script, D + 1)
  /\ script[D + 1].do = "verify3" /\ D + 1 = sent /\ back = << >> /\ a.frames # << >>
StaysClear(a) ==
  /\ ~channel.encrypted /\ ~peer.encrypted /\ ~channel'.encrypted
  /\ channel'.tx.nonce = 0 /\ channel'.rx.nonce = 0 /\ a.frames = << >>
  /\ ~(a.ok /\ script[D + 1].do = "setup3") /\ script[D + 1].do # "verify3"
  /\ script[D + 1].do = "verify1" => channel'.tx.key = VerifyKey(Curve)
  /\ script[D + 1].do = "setup1" => hap'.transient = script[D + 1].transient

LEMMA DispatchIs ==
  ASSUME ChannelIInv, Dispatch, NEW a, a = Handle(channel, hap, D + 1).answer
  PROVE  Sealing \/ TurnsWithM4(a) \/ TurnsAlone(a) \/ StaysClear(a)
<1> DEFINE r == D + 1
           do == script[r].do
           proved == do = "setup3" /\ Proves(hap, r)
           m3 == do = "verify3" /\ channel.tx.key = VerifyKey(Curve)
<1>1. /\ script \in Seq(Requests) /\ Orderly(script) /\ D \in Nat /\ sent \in Nat /\ channel \in Ends
      /\ hap \in Sessions /\ peer \in Ends /\ back \in Seq(Answers) /\ Waits /\ Paired /\ Agree
      /\ sent <= Len(script) /\ Len(script) \in Nat /\ DOMAIN script = 1 .. Len(script)
  <2>1. script \in Seq(Requests) /\ ScriptType /\ EndsType /\ Pairs /\ D \in Nat /\ sent \in Nat
        /\ sent <= Len(script) /\ Len(script) \in Nat
    BY TypesAre
  <2>2. DOMAIN script = 1 .. Len(script)
    BY <2>1
  <2> QED
    BY <2>1, <2>2, ScriptIs DEF EndsType, Pairs
<1>2. /\ channel' = Handle(channel, hap, r).channel /\ hap' = Handle(channel, hap, r).hap
      /\ back' = Append(back, a) /\ r \in 1 .. sent /\ r \in 1 .. Len(script)
  BY DispatchMoves
<1>3. a \in Answers /\ channel' \in Ends /\ script[r].answer \in Nat \ {0} /\ script[r] \in Requests
  BY DispatchEnds
<1>4. /\ do = "setup1" => hap'.transient = script[r].transient
      /\ ~channel.encrypted /\ channel.tx.nonce = 0 /\ channel.rx.nonce = 0 /\ ~proved /\ ~m3 =>
           /\ ~channel'.encrypted /\ a.frames = << >>
           /\ channel'.tx.nonce = 0 /\ channel'.rx.nonce = 0
           /\ ~(a.ok /\ do = "setup3")
           /\ do = "verify1" => channel'.tx.key = VerifyKey(Curve)
      /\ ~channel.encrypted /\ channel.tx.nonce = 0 /\ channel.rx.nonce = 0 /\ proved =>
           /\ channel'.encrypted /\ a.frames = << >> /\ a.ok
           /\ channel'.tx = Counter(ReadKey(a.proof)) /\ channel'.rx = Counter(WriteKey(a.proof))
      /\ ~channel.encrypted /\ channel.tx.nonce = 0 /\ channel.rx.nonce = 0 /\ m3 =>
           /\ channel'.encrypted /\ channel'.rx = Counter(WriteKey(Curve))
           /\ a.frames = Frames(Counter(ReadKey(Curve)), script[r].answer)
           /\ channel'.tx.key = ReadKey(Curve) /\ channel'.tx.nonce = script[r].answer
      /\ channel.encrypted /\ do = "other" =>
           /\ channel'.encrypted /\ channel'.rx = channel.rx /\ channel'.tx.key = channel.tx.key
           /\ channel'.tx.nonce = channel.tx.nonce + script[r].answer
           /\ a.frames = Frames(channel.tx, script[r].answer)
  <2> DEFINE q == r
  <2>1. q \in 1 .. Len(script) /\ channel' = Handle(channel, hap, q).channel
        /\ hap' = Handle(channel, hap, q).hap /\ a = Handle(channel, hap, q).answer
    BY <1>2
  <2>2. script \in Seq(Requests) /\ channel \in Ends /\ hap \in Sessions
    BY <1>1
  <2> HIDE DEF q
  <2> DEFINE out == Handle(channel, hap, q)
             ok == script[q].do = "setup3" /\ Proves(hap, q)
             ver == script[q].do = "verify3" /\ channel.tx.key = VerifyKey(Curve)
  <2>3. /\ script[q].do = "setup1" => out.hap.transient = script[q].transient
        /\ ~channel.encrypted /\ channel.tx.nonce = 0 /\ channel.rx.nonce = 0 /\ ~ok /\ ~ver =>
             /\ ~out.channel.encrypted /\ out.answer.frames = << >>
             /\ out.channel.tx.nonce = 0 /\ out.channel.rx.nonce = 0
             /\ ~(out.answer.ok /\ script[q].do = "setup3")
             /\ script[q].do = "verify1" => out.channel.tx.key = VerifyKey(Curve)
        /\ ~channel.encrypted /\ channel.tx.nonce = 0 /\ channel.rx.nonce = 0 /\ ok =>
             /\ out.channel.encrypted /\ out.answer.frames = << >> /\ out.answer.ok
             /\ out.channel.tx = Counter(ReadKey(out.answer.proof))
             /\ out.channel.rx = Counter(WriteKey(out.answer.proof))
        /\ ~channel.encrypted /\ channel.tx.nonce = 0 /\ channel.rx.nonce = 0 /\ ver =>
             /\ out.channel.encrypted /\ out.channel.rx = Counter(WriteKey(Curve))
             /\ out.answer.frames = Frames(Counter(ReadKey(Curve)), script[q].answer)
             /\ out.channel.tx.key = ReadKey(Curve) /\ out.channel.tx.nonce = script[q].answer
        /\ channel.encrypted /\ script[q].do = "other" =>
             /\ out.channel.encrypted /\ out.channel.rx = channel.rx
             /\ out.channel.tx.key = channel.tx.key
             /\ out.channel.tx.nonce = channel.tx.nonce + script[q].answer
             /\ out.answer.frames = Frames(channel.tx, script[q].answer)
    BY <2>1, <2>2, HandleIs
  <2>4. out.channel = channel' /\ out.hap = hap' /\ out.answer = a
    BY <2>1
  <2> HIDE DEF out
  <2> QED
    BY <2>3, <2>4 DEF q
<1>5. r \in Nat /\ 1 <= r /\ r <= sent /\ r - 1 = D
  BY <1>1, <1>2
<1>6. do \in Pairing => r = sent /\ back = << >>
  <2>1. r \in D + 1 .. sent
    BY <1>1, <1>2
  <2> QED
    BY <2>1, <1>1 DEF Waits
<1>7. CASE channel.encrypted
  <2>1. PICK q \in 1 .. D : Encrypts(script, q)
    BY <1>1, <1>7 DEF Paired
  <2>2. q \in 1 .. Len(script) /\ r \in q + 1 .. Len(script)
    BY <1>1, <1>2, <1>5
  <2>3. do = "other"
    BY <1>1, <2>1, <2>2 DEF Orderly
  <2>4. peer.encrypted
    <3>1. D # sent
      BY <1>1, <1>5
    <3> QED
      BY <1>1, <1>7, <3>1 DEF Agree, PeerToTurn, PeerIsLost
  <2>5. Framed(back, peer.rx, channel.tx)
    BY <1>1, <1>7, <2>4 DEF Agree
  <2>6. Framed(back', peer.rx, channel'.tx)
    <3>1. channel.tx \in Counters /\ channel'.tx \in Counters /\ peer.rx \in Counters
      BY <1>1, <1>3 DEF Ends
    <3> DEFINE n == script[r].answer
               tx == channel'.tx
    <3>2. /\ n \in Nat \ {0} /\ a.frames = Frames(channel.tx, n)
          /\ tx.key = channel.tx.key /\ tx.nonce = channel.tx.nonce + n /\ tx \in Counters
      BY <1>3, <1>4, <1>7, <2>3, <3>1
    <3> HIDE DEF n, tx
    <3>3. Framed(Append(back, a), peer.rx, tx)
      BY <1>1, <1>3, <2>5, <3>1, <3>2, FramedAppend
    <3> QED
      BY <1>2, <3>3 DEF tx
  <2> QED
    BY <1>4, <1>7, <2>3, <2>4, <2>6 DEF Sealing
<1>8. CASE ~channel.encrypted
  <2>1. channel.tx.nonce = 0 /\ channel.rx.nonce = 0
    BY <1>1, <1>8 DEF Agree, BothClear
  <2>2. ~peer.encrypted
    BY <1>1, <1>8 DEF Agree
  <2>3. CASE proved
    <3>1. do = "setup3" /\ script[r].good /\ hap.transient
      BY <2>3 DEF Proves
    <3>2. r > 1 /\ script[r - 1].do = "setup1" /\ script[r - 1].transient = script[r].transient
      BY <1>1, <1>2, <3>1 DEF Orderly
    <3>3. hap.transient = script[D].transient
      BY <1>1, <1>5, <1>8, <3>2 DEF Paired
    <3>4. Encrypts(script, r)
      BY <1>5, <3>1, <3>2, <3>3 DEF Encrypts
    <3>5. r = sent /\ back = << >>
      BY <1>6, <3>1 DEF Pairing
    <3> QED
      BY <1>4, <1>8, <2>1, <2>2, <2>3, <3>1, <3>4, <3>5 DEF TurnsWithM4
  <2>4. CASE m3
    <3>1. do = "verify3" /\ Encrypts(script, r)
      BY <2>4 DEF Encrypts
    <3>2. r = sent /\ back = << >>
      BY <1>6, <3>1 DEF Pairing
    <3>3. a.frames # << >>
      <4> DEFINE n == script[r].answer
                 c == Counter(ReadKey(Curve))
      <4>1. n \in Nat \ {0} /\ a.frames = Frames(c, n)
        BY <1>3, <1>4, <1>8, <2>1, <2>4
      <4> HIDE DEF n, c
      <4>2. 1 \in DOMAIN a.frames
        BY <4>1 DEF Frames
      <4>3. a.frames \in Seq(Counters)
        BY <1>3 DEF Answers
      <4>4. 1 \in 1 .. Len(a.frames)
        BY <4>2, <4>3
      <4> QED
        BY <4>4
    <3> QED
      BY <1>4, <1>8, <2>1, <2>2, <2>4, <3>1, <3>2, <3>3 DEF TurnsAlone
  <2>5. CASE ~proved /\ ~m3
    <3>1. do # "verify3"
      <4> SUFFICES ASSUME do = "verify3" PROVE FALSE
        OBVIOUS
      <4>1. r > 1 /\ script[r - 1].do = "verify1"
        BY <1>1, <1>2 DEF Orderly
      <4>2. channel.tx.key = VerifyKey(Curve)
        BY <1>1, <1>5, <1>8, <4>1 DEF Paired
      <4> QED
        BY <2>5, <4>2
    <3> QED
      BY <1>4, <1>8, <2>1, <2>2, <2>5, <3>1 DEF StaysClear
  <2> QED
    BY <2>3, <2>4, <2>5
<1> QED
  BY <1>7, <1>8

LEMMA DispatchWaits ==
  ASSUME ChannelIInv, Dispatch
  PROVE  Waits'
<1>1. Waits /\ sent \in Nat /\ D \in Nat
  BY TypesAre DEF Pairs
<1>2. script' = script /\ sent' = sent /\ D' = D + 1 /\ D + 1 \in 1 .. sent
  BY DispatchMoves
<1>3. /\ Len(back) \in Nat /\ Len(back') = Len(back) + 1
      /\ \A i \in 1 .. Len(back) : back'[i] = back[i]
      /\ back'[Len(back) + 1].to = D + 1
  BY DispatchEnds
<1>4. D' <= sent' /\ Len(back') <= D'
  BY <1>1, <1>2, <1>3 DEF Waits
<1>5. ASSUME NEW i \in 1 .. Len(back') PROVE back'[i].to = D' - Len(back') + i
  <2>1. CASE i = Len(back) + 1
    BY <1>1, <1>2, <1>3, <2>1
  <2>2. CASE i # Len(back) + 1
    <3>1. i \in 1 .. Len(back)
      BY <1>3, <2>2
    <3>2. back[i].to = D - Len(back) + i
      BY <1>1, <3>1 DEF Waits
    <3> QED
      BY <1>1, <1>2, <1>3, <3>1, <3>2
  <2> QED
    BY <2>1, <2>2
<1>6. ASSUME NEW q \in D' + 1 .. sent', script'[q].do \in Pairing PROVE FALSE
  <2>1. q \in D + 1 .. sent /\ q # D + 1 /\ script[q].do \in Pairing
    BY <1>1, <1>2, <1>6
  <2>2. q = sent /\ D + 1 = sent
    BY <1>1, <2>1 DEF Waits
  <2> QED
    BY <2>1, <2>2
<1> QED
  BY <1>4, <1>5, <1>6 DEF Waits

LEMMA DispatchPaired ==
  ASSUME ChannelIInv, Dispatch
  PROVE  Paired'
<1>1. Paired /\ sent \in Nat /\ D \in Nat /\ channel \in Ends
  BY TypesAre DEF Pairs
<1>2. script' = script /\ D' = D + 1
  BY DispatchMoves
<1>3. PICK a : a = Handle(channel, hap, D + 1).answer
  OBVIOUS
<1>4. Sealing \/ TurnsWithM4(a) \/ TurnsAlone(a) \/ StaysClear(a)
  BY <1>3, DispatchIs
<1>5. CASE Sealing
  <2>1. PICK q \in 1 .. D : Encrypts(script, q)
    BY <1>1, <1>5 DEF Sealing, Paired
  <2>2. q \in 1 .. D' /\ Encrypts(script, q)'
    BY <1>1, <1>2, <2>1 DEF Encrypts
  <2>3. channel'.encrypted
    BY <1>5 DEF Sealing
  <2> QED
    BY <2>2, <2>3 DEF Paired
<1>6. CASE TurnsWithM4(a) \/ TurnsAlone(a)
  <2>1. channel'.encrypted /\ Encrypts(script, D + 1)
    BY <1>6 DEF TurnsWithM4, TurnsAlone
  <2>2. PICK q : q = D + 1
    OBVIOUS
  <2>3. q \in 1 .. D' /\ Encrypts(script, q)'
    BY <1>1, <1>2, <2>1, <2>2 DEF Encrypts
  <2> QED
    BY <2>1, <2>3 DEF Paired
<1>7. CASE StaysClear(a)
  BY <1>2, <1>7 DEF StaysClear, Paired
<1> QED
  BY <1>4, <1>5, <1>6, <1>7

LEMMA DispatchAgrees ==
  ASSUME ChannelIInv, Dispatch
  PROVE  Agree'
<1>1. Agree /\ Waits /\ sent \in Nat /\ D \in Nat /\ channel \in Ends
  BY TypesAre DEF Pairs
<1>2. script' = script /\ sent' = sent /\ D' = D + 1 /\ peer' = peer /\ reader' = reader
      /\ D + 1 \in 1 .. sent
  BY DispatchMoves
<1>3. PICK a : a = Handle(channel, hap, D + 1).answer
  OBVIOUS
<1>4. Sealing \/ TurnsWithM4(a) \/ TurnsAlone(a) \/ StaysClear(a)
  BY <1>3, DispatchIs
<1>5. /\ Len(back) \in Nat /\ Len(back') = Len(back) + 1
      /\ \A i \in 1 .. Len(back) : back'[i] = back[i]
      /\ back'[Len(back) + 1] = a /\ a.to = D + 1
  BY <1>3, DispatchEnds
<1>6. broken' = broken /\ (~channel.encrypted => ~broken)
  BY <1>1, DispatchMoves DEF Agree
<1>7. CASE Sealing
  BY <1>1, <1>2, <1>6, <1>7 DEF Sealing, Agree
<1>8. CASE TurnsWithM4(a)
  <2>1. Len(back') = 1 /\ back'[1] = a
    <3>1. Len(back) = 0
      BY <1>8, EmptyIsSeq DEF TurnsWithM4
    <3> QED
      BY <1>5, <3>1
  <2>2. PeerToTurn'
    BY <1>1, <1>2, <1>8, <2>1 DEF TurnsWithM4, PeerToTurn
  <2> QED
    BY <1>2, <1>6, <1>8, <2>2 DEF TurnsWithM4, Agree
<1>9. CASE TurnsAlone(a)
  <2>1. Len(back') = 1 /\ back'[1] = a
    <3>1. Len(back) = 0
      BY <1>9, EmptyIsSeq DEF TurnsAlone
    <3> QED
      BY <1>5, <3>1
  <2>2. PeerIsLost'
    BY <1>1, <1>2, <1>9, <2>1 DEF TurnsAlone, PeerIsLost
  <2> QED
    BY <1>2, <1>6, <1>9, <2>2 DEF TurnsAlone, Agree
<1>10. CASE StaysClear(a)
  <2>1. reader = << >>
    BY <1>1, <1>10 DEF StaysClear, Agree, BothClear
  <2>2. ASSUME NEW i \in 1 .. Len(back')
        PROVE  back'[i].frames = << >> /\ script'[back'[i].to].do # "verify3"
               /\ ~(back'[i].ok /\ script'[back'[i].to].do = "setup3")
    <3>1. CASE i = Len(back) + 1
      BY <1>2, <1>5, <1>10, <3>1 DEF StaysClear
    <3>2. CASE i # Len(back) + 1
      <4>1. i \in 1 .. Len(back)
        BY <1>5, <3>2
      <4>2. back[i].frames = << >> /\ script[back[i].to].do # "verify3"
            /\ ~(back[i].ok /\ script[back[i].to].do = "setup3")
        BY <1>1, <1>10, <4>1 DEF StaysClear, Agree, BothClear
      <4> QED
        BY <1>2, <1>5, <4>1, <4>2
    <3> QED
      BY <3>1, <3>2
  <2>3. BothClear'
    BY <1>2, <1>10, <2>1, <2>2 DEF StaysClear, BothClear
  <2> QED
    BY <1>2, <1>6, <1>10, <2>3 DEF StaysClear, Agree
<1> QED
  BY <1>4, <1>7, <1>8, <1>9, <1>10

LEMMA NoPieces == Pieces(<< >>) = << >> /\ << >> \o << >> = << >>
<1>1. << >> \in Seq({}) /\ Len(<< >>) = 0
  BY EmptyIsSeq
<1>2. Pieces(<< >>) \in Seq(PieceSet({})) /\ Len(Pieces(<< >>)) = 3 * Len(<< >>)
  BY <1>1, PiecesAre
<1>3. Len(Pieces(<< >>)) = 0
  BY <1>1, <1>2
<1>4. Pieces(<< >>) = << >>
  BY <1>2, <1>3, LenIs
<1> QED
  BY <1>1, <1>4, EmptyConcat

(* Nothing is under way when encryption turns on. *)
LEMMA NothingUnderWay ==
  ASSUME ChannelIInv, Dispatch, ~channel.encrypted, D + 1 = sent
  PROVE  /\ buffer' = << >> /\ wire = << >> /\ reader = << >>
         /\ Chain(buffer', First(D + 1)) /\ After(buffer', First(D + 1)) = First(sent)
<1>1. sent \in Nat /\ D \in Nat /\ Agree
  BY TypesAre DEF Pairs
<1>2. Chain(buffer', First(D + 1)) /\ After(buffer', First(D + 1)) = After(buffer, First(D))
      /\ buffer' \in Seq(UnitOf(1 .. sent))
  BY DispatchTypes
<1>3. Flow /\ InTheClear /\ reader = << >>
  BY <1>1, DispatchMoves DEF Flow, Agree, BothClear
<1>4. buffer' = << >> /\ After(buffer', First(sent)) = First(sent)
  <2>1. Chain(buffer', First(sent))
    BY <1>2
  <2> QED
    BY <1>1, <1>2, <2>1, NothingAbove
<1>5. Chain(wire, First(sent)) /\ wire \in Seq(UnitOf(1 .. sent))
  BY <1>2, <1>3, <1>4 DEF InTheClear
<1>6. wire = << >>
  BY <1>1, <1>5, NothingAbove
<1> QED
  BY <1>2, <1>3, <1>4, <1>6

LEMMA DispatchStream ==
  ASSUME ChannelIInv, Dispatch
  PROVE  Flow'
<1>1. /\ Agree /\ sent \in Nat /\ D \in Nat /\ channel \in Ends /\ Len(buffer) \in Nat
      /\ capacity \in Nat /\ Room \in Nat
  BY TypesAre DEF Pairs
<1>2. script' = script /\ sent' = sent /\ D' = D + 1 /\ peer' = peer /\ reader' = reader
      /\ wire' = wire /\ capacity' = capacity /\ Flow
  BY DispatchMoves
<1>3. PICK a : a = Handle(channel, hap, D + 1).answer
  OBVIOUS
<1>4. Sealing \/ TurnsWithM4(a) \/ TurnsAlone(a) \/ StaysClear(a)
  BY <1>3, DispatchIs
<1>5. /\ Chain(buffer', First(D + 1)) /\ After(buffer', First(D + 1)) = After(buffer, First(D))
      /\ Len(buffer') \in Nat /\ Len(buffer') <= Len(buffer)
  BY DispatchTypes
<1>6. PICK z : z = After(buffer, First(D))
  OBVIOUS
<1>7. Chain(buffer, First(D))' /\ After(buffer, First(D))' = z /\ First(sent)' = First(sent)
  <2>1. First(D)' = First(D + 1) /\ First(sent)' = First(sent)
    BY <1>2 DEF First
  <2> QED
    BY <1>2, <1>5, <1>6, <2>1, SameScript
<1>8. reader' # << >> => Len(buffer') + Room <= capacity'
  BY <1>1, <1>2, <1>5 DEF Flow
<1>9. CASE Sealing
  <2>1. channel.encrypted /\ channel'.encrypted /\ channel'.rx = channel.rx
    BY <1>9 DEF Sealing
  <2>2. PICK bs \in Seq(BlockOf(1 .. sent)) :
          /\ reader \o wire = Pieces(bs)
          /\ Carries(bs, z, First(sent))
          /\ \A t \in 1 .. Len(bs) :
               bs[t].key = channel.rx.key /\ bs[t].nonce = channel.rx.nonce + t - 1
          /\ peer.encrypted =>
               peer.tx.key = channel.rx.key /\ peer.tx.nonce = channel.rx.nonce + Len(bs)
    BY <1>2, <1>6, <2>1 DEF Flow, Sealed
  <2>3. Carries(bs, After(buffer, First(D)), First(sent))'
    BY <1>2, <1>7, <2>2, SameScript
  <2>4. Sealed'
    BY <1>2, <2>1, <2>2, <2>3 DEF Sealed
  <2> QED
    BY <1>7, <1>8, <2>1, <2>4 DEF Flow
<1>10. CASE TurnsWithM4(a) \/ TurnsAlone(a)
  <2>1. ~channel.encrypted /\ channel'.encrypted /\ D + 1 = sent
    BY <1>10 DEF TurnsWithM4, TurnsAlone
  <2>2. wire' = << >> /\ reader' = << >> /\ z = First(sent)
    BY <1>2, <1>5, <1>6, <2>1, NothingUnderWay
  <2>3. PICK bs : bs = << >>
    OBVIOUS
  <2>4. bs \in Seq(BlockOf(1 .. sent')) /\ Len(bs) = 0 /\ reader' \o wire' = Pieces(bs)
    BY <2>2, <2>3, EmptyIsSeq, NoPieces
  <2>5. Carries(bs, After(buffer, First(D)), First(sent))'
    <3>1. First(sent) \in UnitOf(Nat)
      BY <1>1 DEF First, UnitOf
    <3>2. Carries(bs, First(sent), First(sent))
      BY <2>3, <3>1, CarriesNone
    <3> QED
      BY <1>2, <1>7, <2>2, <3>2, SameScript
  <2>6. peer'.encrypted =>
          peer'.tx.key = channel'.rx.key /\ peer'.tx.nonce = channel'.rx.nonce + Len(bs)
    <3>1. CASE TurnsWithM4(a)
      BY <1>2, <3>1 DEF TurnsWithM4
    <3>2. CASE TurnsAlone(a)
      BY <1>2, <3>2 DEF TurnsAlone
    <3> QED
      BY <1>10, <3>1, <3>2
  <2>7. Sealed'
    <3>1. \A t \in 1 .. Len(bs) : FALSE
      BY <2>4
    <3> QED
      BY <2>4, <2>5, <2>6, <3>1 DEF Sealed
  <2> QED
    BY <1>7, <1>8, <2>1, <2>7 DEF Flow
<1>11. CASE StaysClear(a)
  <2>1. ~channel.encrypted /\ ~channel'.encrypted
    BY <1>11 DEF StaysClear
  <2>2. wire \in Seq(UnitOf(1 .. sent)) /\ Chain(wire, z) /\ After(wire, z) = First(sent)
    BY <1>2, <1>6, <2>1 DEF Flow, InTheClear
  <2>3. Chain(wire, After(buffer, First(D)))' /\ After(wire, After(buffer, First(D)))' = First(sent)
    BY <1>2, <1>7, <2>2, SameScript
  <2>4. InTheClear'
    BY <1>2, <1>7, <2>2, <2>3 DEF InTheClear
  <2> QED
    BY <1>7, <1>8, <2>1, <2>4 DEF Flow
<1> QED
  BY <1>4, <1>9, <1>10, <1>11

LEMMA DispatchKept ==
  ASSUME ChannelIInv, Dispatch
  PROVE  ChannelIInv'
<1>1. Pairs'
  <2>1. broken' = broken /\ AnswersReadable
    BY TypesAre, DispatchMoves DEF Pairs
  <2>2. AnswersReadable'
    BY <2>1, DispatchMoves DEF AnswersReadable
  <2> QED
    BY <2>2, DispatchWaits, DispatchPaired, DispatchAgrees DEF Pairs
<1> QED
  BY <1>1, DispatchTypes, DispatchStream DEF ChannelIInv

(* Every step keeps the connection's invariant. *)
LEMMA ChannelKept ==
  ASSUME ChannelIInv, [ChannelNext]_channelVars
  PROVE  ChannelIInv'
<1>1. CASE Send
  BY <1>1, SendKept
<1>2. CASE ReadAnswer
  BY <1>2, ReadAnswerKept
<1>3. CASE Dispatch
  BY <1>3, DispatchKept
<1>4. CASE Drop
  BY <1>4, DropKept
<1>5. CASE Grow
  BY <1>5, GrowKept
<1>6. CASE Receive
  BY <1>6, ReceiveKept
<1>7. CASE ReadPiece
  BY <1>7, ReadPieceKept
<1>8. CASE EndOfBlock
  BY <1>8, EndOfBlockKept
<1>9. CASE Timeout
  BY <1>9, TimeoutKept
<1>10. CASE UNCHANGED channelVars
  BY <1>10, IdleKept
<1> QED
  BY <1>1, <1>2, <1>3, <1>4, <1>5, <1>6, <1>7, <1>8, <1>9, <1>10 DEF ChannelNext, Receiver

LEMMA ChannelSafe ==
  ASSUME ChannelIInv
  PROVE  ChannelTypeOK /\ InOrder /\ AnswersReadable
<1>1. /\ ScriptType /\ EndsType /\ RoomType /\ InOrder /\ AnswersReadable
  BY TypesAre DEF Pairs
<1>2. hap.setup \in {0, 2, 4} /\ hap.verify \in {0, 2, 4}
  BY <1>1 DEF EndsType, Sessions
<1> QED
  BY <1>1, <1>2 DEF ChannelTypeOK, ScriptType, RoomType

-----------------------------------------------------------------------------
(* All of them: one takes its steps while the others rest. *)
LinksIInv == ChannelIInv /\ NetworkIInv /\ RingIInv /\ SqueezeTypeOK

LEMMA LinksInitIInv == LinksInit => LinksIInv
BY ChannelInitIInv, NetworkInitIInv, RingInitIInv, SqueezeInitTypeOK DEF LinksInit, LinksIInv

LEMMA LinksStep ==
  ASSUME LinksIInv, [LinksNext]_linksVars
  PROVE  LinksIInv'
<1>1. ChannelIInv /\ NetworkIInv /\ RingIInv /\ SqueezeTypeOK
  BY DEF LinksIInv
<1>2. /\ [ChannelNext]_channelVars /\ [NetworkNext]_networkVars
      /\ [RingNext]_ringVars /\ [SqueezeNext]_squeezeVars
  BY DEF LinksNext, linksVars
<1>3. ChannelIInv'
  BY <1>1, <1>2, ChannelKept
<1>4. NetworkIInv'
  BY <1>1, <1>2, NetworkKept
<1>5. RingIInv'
  BY <1>1, <1>2, RingKept
<1>6. SqueezeTypeOK'
  BY <1>1, <1>2, SqueezeKept
<1> QED
  BY <1>3, <1>4, <1>5, <1>6 DEF LinksIInv

LEMMA LinksTypes == LinksIInv => LinksInv /\ ChannelInv
<1> SUFFICES ASSUME LinksIInv PROVE LinksInv /\ ChannelInv
  OBVIOUS
<1>1. ChannelIInv /\ NetworkIInv /\ RingIInv /\ SqueezeTypeOK
  BY DEF LinksIInv
<1>2. ChannelTypeOK /\ InOrder /\ AnswersReadable
  BY <1>1, ChannelSafe
<1>3. NetworkTypeOK /\ SetupReachable
  BY <1>1 DEF NetworkIInv, NetworkTypeOK, NetworkAir, NetworkDriver, NetworkEvents, NetworkCounts,
              NetworkFlags, NetworkLinks, NetworkBoot, NetworkMonitor
<1>4. RingTypeOK
  BY <1>1 DEF RingIInv, RingTypeOK, RingNumbers, RingModes, RingTasks, RingControl, No
<1> QED
  BY <1>1, <1>2, <1>3, <1>4 DEF LinksInv, LinksTypeOK, ChannelInv

(* rtsp_server.c and rtsp_crypto.c, whatever an orderly client says and    *)
(* whatever the sizes: its requests are dispatched whole, once and in      *)
(* their order, in the clear and encrypted, however their bytes arrive and *)
(* wherever a timeout falls; and the two ends turn to encryption at the    *)
(* same message and count their blocks alike, so that the client can read  *)
(* every answer but the one the code encrypts too early, M4 of pair-verify *)
(* in TLVs.                                                                *)
THEOREM ChannelIsSafe == LinksSpec => []ChannelInv
<1>1. LinksInit => LinksIInv
  BY LinksInitIInv
<1>2. LinksIInv /\ [LinksNext]_linksVars => LinksIInv'
  BY LinksStep
<1>3. LinksIInv => ChannelInv
  BY LinksTypes
<1> QED
  BY <1>1, <1>2, <1>3, PTL DEF LinksSpec

(* The bounds of the links' buffers, queues and counters hold for any      *)
(* sizes, and wifi.c keeps the set-up access point while the station has   *)
(* no credentials, or has failed the threshold of attempts.                *)
THEOREM LinksAreBounded == LinksSpec => []LinksInv
<1>1. LinksInit => LinksIInv
  BY LinksInitIInv
<1>2. LinksIInv /\ [LinksNext]_linksVars => LinksIInv'
  BY LinksStep
<1>3. LinksIInv => LinksInv
  BY LinksTypes
<1> QED
  BY <1>1, <1>2, <1>3, PTL DEF LinksSpec
=============================================================================
