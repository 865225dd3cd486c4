------------------------- MODULE SourceSwitch_proofs -------------------------
(***************************************************************************)
(* One output, two sources: for any number of phones' visits and changes   *)
(* of the network, on any board, AirPlay is off while a phone is served,   *)
(* no server is started beside another one, and what is marked as started  *)
(* is there.                                                               *)
(*                                                                         *)
(* Nothing locks start_airplay_services.  What keeps its three callers     *)
(* apart is that they are called one after the other: the argument is that *)
(* a network which came up has been seen by the monitor before a phone     *)
(* may connect, and that a phone's last event is handled before the next   *)
(* one.  Hence the hypothesis of both theorems: the network changes, and a *)
(* phone comes, when nothing is under way.                                 *)
(*                                                                         *)
(* Whether a failed ESP_ERROR_CHECK stops the program is left open: where  *)
(* it does, the second initialisation of the output ends all (Down), and   *)
(* the invariant holds until then; where it does not, it always holds.     *)
(***************************************************************************)
EXTENDS SourceSwitch, TLAPS, SequenceTheorems

Walk == {"start", "init", "output", "serve", "mark"}
Stopping == {"stop_server", "wait_server", "stop_output", "wait_output", "stopped"}

MainAt == Walk \cup {"idle", "services", "output_init", "bluetooth"}
MonitorAt == Walk \cup {"idle"}
BtAt == Walk \cup Stopping \cup {"idle", "off", "take", "drain", "leave"}

(* The program counters, none of them at an abort. *)
Counters ==
  /\ pc \in [Tasks -> MainAt \cup MonitorAt \cup BtAt]
  /\ pc["main"] \in MainAt /\ pc["monitor"] \in MonitorAt /\ pc["bt"] \in BtAt

Ranges ==
  /\ net \subseteq Interfaces
  /\ playback \in {"none", "run"} /\ server \in {"none", "new", "run"}
  /\ writer \in {"none", "waiting", "writing"} /\ (writer # "none" => ringbuf)
  /\ source \in {"none", "airplay", "bluetooth"}
  /\ phone \in {"away", "connecting", "connected", "playing"}
Bounds == changes \in 0 .. MaxChanges /\ phones \in 0 .. MaxPhones

(* No phone is there, nor anything of one to be handled. *)
NoPhone == phone = "away" /\ events = << >> /\ ~s_connected

(* One task at a time starts the services: app_main while it boots, the     *)
(* monitor while nobody else does anything, bt_app when the phone has left. *)
NetworkIsNew == HasNetwork /\ ~had.network
OneAtATime ==
  /\ ((pc["bt"] = "off") <=> (pc["main"] # "idle"))
  /\ pc["main"] # "idle" => pc["monitor"] = "idle" /\ NoPhone /\ ~NetworkIsNew
  /\ pc["monitor"] # "idle" => pc["bt"] = "idle" /\ NoPhone /\ ~NetworkIsNew
  /\ pc["bt"] \in Walk \cup {"drain", "leave"} => NoPhone /\ ~NetworkIsNew
  /\ NetworkIsNew => pc["bt"] = "idle" /\ NoPhone /\ server # "new"

(* What a phone has caused: its events are handled in order, the last one   *)
(* is that it has left, and it is connected once.                           *)
Queued(q, e) == \E i \in 1 .. Len(q) : q[i] = e
InOrder(q) ==
  /\ \A i \in 1 .. Len(q) : q[i] = "disconnected" => i = Len(q)
  /\ \A i, j \in 1 .. Len(q) : q[i] = "connected" /\ q[j] = "connected" => i = j
Events == {"connecting", "connected", "configured", "disconnected"}
HandingOver == pc["bt"] \in Stopping \cup {"take"}
Visit ==
  /\ events \in Seq(Events) /\ InOrder(events)
  /\ Queued(events, "connected") => ~s_connected
  /\ phone # "away" => ~Queued(events, "disconnected")
  /\ phone = "connecting" => ~s_connected /\ ~Queued(events, "connected")
  /\ phone = "away" => NoPhone \/ Queued(events, "disconnected")
  /\ HandingOver => s_connected
  /\ ~NoPhone => server # "new"

(* The services: all of them, none of them, or as many as the one who       *)
(* starts or stops them has come to.                                        *)
ServerIsUp == server = "new" \/ server_running
PlaybackIsUp == playback = "run" /\ playback_running
At(label) == \E t \in Tasks : pc[t] = label
Services ==
  /\ server_running => server = "run"
  /\ airplay_started =>
       /\ \A t \in Tasks : pc[t] \notin Walk \ {"start"}
       /\ pc["main"] \notin {"services", "start"}
       /\ pc["bt"] \notin Stopping => ServerIsUp /\ PlaybackIsUp
  /\ ~airplay_started =>
       /\ ~HandingOver \/ pc["bt"] = "take"
       /\ ~At("mark") => ~ServerIsUp
       /\ ~At("mark") /\ ~At("serve") => playback = "none"
       /\ At("mark") => ServerIsUp
       /\ At("mark") \/ At("serve") => PlaybackIsUp
  /\ pc["bt"] \in Stopping \ {"stop_server"} => ~ServerIsUp
  /\ pc["bt"] \in {"stop_server", "wait_server", "stop_output"} => PlaybackIsUp
  /\ pc["bt"] = "wait_output" => ~playback_running
  /\ pc["bt"] = "stopped" => playback = "none"
  /\ s_connected => ~airplay_started \/ pc["bt"] \in Stopping
  /\ s_connected /\ pc["bt"] = "idle" => source = "bluetooth"

IInv == Counters /\ Ranges /\ Bounds /\ OneAtATime /\ Visit /\ Services

-----------------------------------------------------------------------------
(* Without the first event of the queue. *)
LEMMA TheRest ==
  ASSUME NEW q \in Seq(Events), q # << >>, InOrder(q)
  PROVE  /\ Tail(q) \in Seq(Events) /\ InOrder(Tail(q))
         /\ \A e \in Events : Queued(Tail(q), e) => Queued(q, e)
         /\ \A e \in Events : Queued(q, e) => Head(q) = e \/ Queued(Tail(q), e)
         /\ Head(q) = "connected" => ~Queued(Tail(q), "connected")
         /\ Head(q) = "disconnected" => Tail(q) = << >>
<1>1. /\ Tail(q) \in Seq(Events) /\ Len(Tail(q)) = Len(q) - 1 /\ Head(q) = q[1]
      /\ Len(q) \in Nat \ {0}
      /\ \A i \in 1 .. Len(q) - 1 : Tail(q)[i] = q[i + 1]
  OBVIOUS
<1>2. ASSUME NEW i \in 1 .. Len(Tail(q))
      PROVE  i \in Nat \ {0} /\ i + 1 \in 2 .. Len(q) /\ i + 1 \in 1 .. Len(q)
             /\ Tail(q)[i] = q[i + 1]
  BY <1>1
<1>3. /\ \A i \in 1 .. Len(q) : q[i] = "disconnected" => i = Len(q)
      /\ \A i, j \in 1 .. Len(q) : q[i] = "connected" /\ q[j] = "connected" => i = j
  BY DEF InOrder
<1>4. InOrder(Tail(q))
  <2>1. ASSUME NEW i \in 1 .. Len(Tail(q)), Tail(q)[i] = "disconnected"
        PROVE  i = Len(Tail(q))
    <3>1. i + 1 = Len(q)
      BY <1>2, <1>3, <2>1
    <3> QED
      BY <3>1, <1>1
  <2>2. ASSUME NEW i \in 1 .. Len(Tail(q)), NEW j \in 1 .. Len(Tail(q)),
               Tail(q)[i] = "connected", Tail(q)[j] = "connected"
        PROVE  i = j
    <3>1. i + 1 = j + 1
      BY <1>2, <1>3, <2>2
    <3> QED
      BY <3>1
  <2> QED
    BY <2>1, <2>2 DEF InOrder
<1>5. ASSUME NEW e \in Events, Queued(Tail(q), e)
      PROVE  Queued(q, e)
  BY <1>2, <1>5 DEF Queued
<1>6. ASSUME NEW e \in Events, Queued(q, e), Head(q) # e
      PROVE  Queued(Tail(q), e)
  <2>1. PICK i \in 1 .. Len(q) : q[i] = e
    BY <1>6 DEF Queued
  <2>2. i - 1 \in 1 .. Len(q) - 1 /\ Tail(q)[i - 1] = e
    BY <2>1, <1>1, <1>6
  <2> QED
    BY <2>2, <1>1 DEF Queued
<1>7. ASSUME Head(q) = "connected", NEW i \in 1 .. Len(Tail(q)), Tail(q)[i] = "connected"
      PROVE  FALSE
  <2>1. 1 \in 1 .. Len(q) /\ q[1] = "connected"
    BY <1>1, <1>7
  <2>2. i + 1 = 1
    BY <2>1, <1>2, <1>3, <1>7
  <2> QED
    BY <2>2
<1>8. Head(q) = "disconnected" => Tail(q) = << >>
  <2>1. 1 \in 1 .. Len(q) /\ q[1] = Head(q)
    BY <1>1
  <2>2. q[1] = "disconnected" => 1 = Len(q)
    BY <2>1, <1>3
  <2>3. q[1] = "disconnected" => Len(Tail(q)) = 0
    BY <2>2, <1>1
  <2> QED
    BY <2>1, <2>3, <1>1
<1> QED
  BY <1>1, <1>4, <1>5, <1>6, <1>7, <1>8 DEF Queued

(* With one more event at its end. *)
LEMMA OneMore ==
  ASSUME NEW q \in Seq(Events), NEW e \in Events, InOrder(q), ~Queued(q, "disconnected"),
         e = "connected" => ~Queued(q, "connected")
  PROVE  /\ Append(q, e) \in Seq(Events) /\ InOrder(Append(q, e)) /\ Append(q, e) # << >>
         /\ \A d \in Events : Queued(Append(q, e), d) <=> (Queued(q, d) \/ d = e)
<1>1. /\ Append(q, e) \in Seq(Events) /\ Len(Append(q, e)) = Len(q) + 1 /\ Len(q) \in Nat
      /\ \A i \in 1 .. Len(q) : Append(q, e)[i] = q[i]
      /\ Append(q, e)[Len(q) + 1] = e
      /\ Append(q, e) # << >>
  OBVIOUS
<1>2. \A i \in 1 .. Len(Append(q, e)) : i \in 1 .. Len(q) \/ (i = Len(q) + 1)
  BY <1>1
<1>3. /\ \A i \in 1 .. Len(q) : q[i] # "disconnected"
      /\ \A i, j \in 1 .. Len(q) : q[i] = "connected" /\ q[j] = "connected" => i = j
      /\ e = "connected" => \A i \in 1 .. Len(q) : q[i] # "connected"
  BY DEF InOrder, Queued
<1>4. InOrder(Append(q, e))
  <2>1. ASSUME NEW i \in 1 .. Len(Append(q, e)), Append(q, e)[i] = "disconnected"
        PROVE  i = Len(Append(q, e))
    BY <1>1, <1>2, <1>3, <2>1
  <2>2. ASSUME NEW i \in 1 .. Len(Append(q, e)), NEW j \in 1 .. Len(Append(q, e)),
               Append(q, e)[i] = "connected", Append(q, e)[j] = "connected"
        PROVE  i = j
    BY <1>1, <1>2, <1>3, <2>2
  <2> QED
    BY <2>1, <2>2 DEF InOrder
<1>5. ASSUME NEW d \in Events, Queued(Append(q, e), d)
      PROVE  Queued(q, d) \/ d = e
  BY <1>1, <1>2, <1>5 DEF Queued
<1>6. ASSUME NEW d \in Events, Queued(q, d) \/ d = e
      PROVE  Queued(Append(q, e), d)
  <2>1. CASE d = e
    <3>1. Len(q) + 1 \in 1 .. Len(Append(q, e))
      BY <1>1
    <3> QED
      BY <3>1, <2>1, <1>1 DEF Queued
  <2>2. CASE Queued(q, d)
    <3>1. PICK i \in 1 .. Len(q) : q[i] = d
      BY <2>2 DEF Queued
    <3>2. i \in 1 .. Len(Append(q, e)) /\ Append(q, e)[i] = d
      BY <3>1, <1>1
    <3> QED
      BY <3>2 DEF Queued
  <2> QED
    BY <1>6, <2>1, <2>2
<1> QED
  BY <1>1, <1>4, <1>5, <1>6

(* What taking an event and posting one do to the queue. *)
LEMMA Taken ==
  ASSUME IInv, NEW e \in Events, Take(e)
  PROVE  /\ pc["bt"] = "idle" /\ events # << >> /\ Queued(events, e)
         /\ events' \in Seq(Events) /\ InOrder(events')
         /\ \A d \in Events : Queued(events', d) => Queued(events, d)
         /\ \A d \in Events : Queued(events, d) => d = e \/ Queued(events', d)
         /\ e = "connected" => ~Queued(events', "connected")
         /\ e = "disconnected" => events' = << >>
<1>1. /\ events \in Seq(Events) /\ events # << >> /\ InOrder(events)
      /\ Head(events) = e /\ events' = Tail(events) /\ pc["bt"] = "idle"
  BY DEF Take, IInv, Visit
<1>2. 1 \in 1 .. Len(events) /\ events[1] = e
  BY <1>1
<1>3. Queued(events, e)
  BY <1>2 DEF Queued
<1> QED
  BY <1>1, <1>3, TheRest

LEMMA Posted ==
  ASSUME IInv, NEW e \in Events, Post(e), phone # "away" \/ events = << >>,
         e = "connected" => ~Queued(events, "connected")
  PROVE  /\ events' \in Seq(Events) /\ InOrder(events') /\ events' # << >>
         /\ \A d \in Events : Queued(events', d) <=> (Queued(events, d) \/ d = e)
<1>1. events \in Seq(Events) /\ InOrder(events) /\ events' = Append(events, e)
  BY DEF Post, IInv, Visit
<1>2. ~Queued(events, "disconnected")
  <2>1. events = << >> => ~Queued(events, "disconnected")
    BY DEF Queued
  <2> QED
    BY <2>1 DEF IInv, Visit
<1> QED
  BY <1>1, <1>2, OneMore

-----------------------------------------------------------------------------
(* Whoever comes to the start of the RTSP server finds none. *)
LEMMA ServerIsFree ==
  ASSUME IInv, NEW t \in Tasks, StartServer(t)
  PROVE  server = "none" /\ server' = "new" /\ Goto(t, "mark")
<1>1. pc[t] = "serve" /\ (server = "none" \/ server_running)
  BY DEF StartServer
<1>2. ~airplay_started
  BY <1>1 DEF IInv, Services, Walk
<1>3. ~At("mark")
  BY <1>1 DEF IInv, OneAtATime, Counters, At, Tasks, Walk
<1>4. server = "none"
  BY <1>1, <1>2, <1>3 DEF IInv, Services, ServerIsUp
<1> QED
  BY <1>4 DEF StartServer

(* The program counters stay in their ranges.                                *)
LEMMA CountersKept ==
  ASSUME IInv, ~Abort, NetChanges = "quiet", [Next]_vars
  PROVE  Counters'
<1> USE SwitchAssumption DEF IInv, Counters, MainAt, MonitorAt, BtAt, Walk,
       Stopping, Tasks, network, services, airplay, bluetooth
<1>1. ASSUME NEW i \in Interfaces, InterfaceUp(i) \/ InterfaceDown(i)
      PROVE  Counters'
  BY <1>1 DEF InterfaceUp, InterfaceDown, NetMayChange, Quiet
<1>2. CASE WifiLost
  BY <1>2 DEF WifiLost
<1>3. CASE Workers
  BY <1>3 DEF Workers, WriterEnds, ServerBegins, ServerEnds, PlaybackEnds
<1>4. CASE Boot \/ BootOutput \/ BootBluetooth
  BY <1>4 DEF Boot, BootOutput, InitOutput, Refused, BootBluetooth, Goto
<1>5. CASE Poll
  BY <1>5 DEF Poll, Goto, StopWifi, StartWifi
<1>6. CASE PhoneConnects
  BY <1>6 DEF PhoneConnects, Quiet, Post
<1>7. CASE PhoneConnected \/ PhoneConfigures \/ PhoneLeaves \/ Prefetched
  BY <1>7 DEF PhoneConnected, PhoneConfigures, PhoneLeaves, Prefetched, Post
<1>8. CASE OnConnecting \/ OnConfigured \/ OnConnected
  BY <1>8 DEF OnConnecting, OnConnected, OnConfigured, Take, Goto
<1>9. CASE OnDisconnected
  BY <1>9 DEF OnDisconnected, Goto, Take
<1>10. CASE StopServer \/ WaitServer \/ StopOutput
  BY <1>10 DEF StopServer, WaitServer, StopOutput, Goto
<1>11. CASE WaitOutput \/ Stopped \/ TakeOver
  BY <1>11 DEF WaitOutput, Stopped, TakeOver, Goto
<1>12. CASE Drain \/ Leave
  BY <1>12 DEF Drain, Leave, Goto
<1>13. ASSUME NEW t \in Tasks, Start(t) \/ Infrastructure(t) \/ StartOutput(t)
       PROVE  Counters'
  BY <1>13 DEF Start, Infrastructure, InitOutput, Refused, StartOutput, Goto
<1>14. ASSUME NEW t \in Tasks, StartServer(t)
       PROVE  Counters'
  BY <1>14, ServerIsFree DEF StartServer, Goto
<1>15. ASSUME NEW t \in Tasks, Mark(t)
       PROVE  Counters'
  BY <1>15 DEF Mark, Goto
<1>16. CASE UNCHANGED vars
  BY <1>16 DEF vars
<1> QED
  BY <1>1, <1>2, <1>3, <1>4, <1>5, <1>6, <1>7, <1>8, <1>9, <1>10, <1>11, <1>12,
         <1>13, <1>14, <1>15, <1>16 DEF Next, Main, Monitor, BtApp, Phone,
         Network, StartAirplay

(* The rest of the state stays within its ranges.                            *)
LEMMA RangesKept ==
  ASSUME Ranges, [Next]_vars
  PROVE  Ranges'
<1> USE SwitchAssumption DEF Ranges, Tasks, network, services, airplay,
       bluetooth
<1>1. ASSUME NEW i \in Interfaces, InterfaceUp(i) \/ InterfaceDown(i)
      PROVE  Ranges'
  BY <1>1 DEF InterfaceUp, InterfaceDown, NetMayChange, Quiet
<1>2. CASE WifiLost
  BY <1>2 DEF WifiLost
<1>3. CASE Workers
  BY <1>3 DEF Workers, WriterEnds, ServerBegins, ServerEnds, PlaybackEnds
<1>4. CASE Boot \/ BootOutput \/ BootBluetooth
  BY <1>4 DEF Boot, BootOutput, InitOutput, Refused, BootBluetooth, Goto
<1>5. CASE Poll
  BY <1>5 DEF Poll, Goto, StopWifi, StartWifi
<1>6. CASE PhoneConnects
  BY <1>6 DEF PhoneConnects, Quiet, Post
<1>7. CASE PhoneConnected \/ PhoneConfigures \/ PhoneLeaves \/ Prefetched
  BY <1>7 DEF PhoneConnected, PhoneConfigures, PhoneLeaves, Prefetched, Post
<1>8. CASE OnConnecting \/ OnConfigured \/ OnConnected
  BY <1>8 DEF OnConnecting, OnConnected, OnConfigured, Take, Goto
<1>9. CASE OnDisconnected
  BY <1>9 DEF OnDisconnected, Goto, Take
<1>10. CASE StopServer \/ WaitServer \/ StopOutput
  BY <1>10 DEF StopServer, WaitServer, StopOutput, Goto
<1>11. CASE WaitOutput \/ Stopped \/ TakeOver
  BY <1>11 DEF WaitOutput, Stopped, TakeOver, Goto
<1>12. CASE Drain \/ Leave
  BY <1>12 DEF Drain, Leave, Goto
<1>13. ASSUME NEW t \in Tasks, Start(t) \/ Infrastructure(t) \/ StartOutput(t)
       PROVE  Ranges'
  BY <1>13 DEF Start, Infrastructure, InitOutput, Refused, StartOutput, Goto
<1>14. ASSUME NEW t \in Tasks, StartServer(t)
       PROVE  Ranges'
  BY <1>14 DEF StartServer
<1>15. ASSUME NEW t \in Tasks, Mark(t)
       PROVE  Ranges'
  BY <1>15 DEF Mark, Goto
<1>16. CASE UNCHANGED vars
  BY <1>16 DEF vars
<1> QED
  BY <1>1, <1>2, <1>3, <1>4, <1>5, <1>6, <1>7, <1>8, <1>9, <1>10, <1>11, <1>12,
         <1>13, <1>14, <1>15, <1>16 DEF Next, Main, Monitor, BtApp, Phone,
         Network, StartAirplay

LEMMA BoundsKept ==
  ASSUME Bounds, [Next]_vars
  PROVE  Bounds'
<1> USE SwitchAssumption DEF Bounds, Tasks, network, services, airplay,
       bluetooth
<1>1. ASSUME NEW i \in Interfaces, InterfaceUp(i) \/ InterfaceDown(i)
      PROVE  Bounds'
  BY <1>1 DEF InterfaceUp, InterfaceDown, NetMayChange, Quiet
<1>2. CASE WifiLost
  BY <1>2 DEF WifiLost
<1>3. CASE Workers
  BY <1>3 DEF Workers, WriterEnds, ServerBegins, ServerEnds, PlaybackEnds
<1>4. CASE Boot \/ BootOutput \/ BootBluetooth
  BY <1>4 DEF Boot, BootOutput, InitOutput, Refused, BootBluetooth, Goto
<1>5. CASE Poll
  BY <1>5 DEF Poll, Goto, StopWifi, StartWifi
<1>6. CASE PhoneConnects
  BY <1>6 DEF PhoneConnects, Quiet, Post
<1>7. CASE PhoneConnected \/ PhoneConfigures \/ PhoneLeaves \/ Prefetched
  BY <1>7 DEF PhoneConnected, PhoneConfigures, PhoneLeaves, Prefetched, Post
<1>8. CASE OnConnecting \/ OnConfigured \/ OnConnected
  BY <1>8 DEF OnConnecting, OnConnected, OnConfigured, Take, Goto
<1>9. CASE OnDisconnected
  BY <1>9 DEF OnDisconnected, Goto, Take
<1>10. CASE StopServer \/ WaitServer \/ StopOutput
  BY <1>10 DEF StopServer, WaitServer, StopOutput, Goto
<1>11. CASE WaitOutput \/ Stopped \/ TakeOver
  BY <1>11 DEF WaitOutput, Stopped, TakeOver, Goto
<1>12. CASE Drain \/ Leave
  BY <1>12 DEF Drain, Leave, Goto
<1>13. ASSUME NEW t \in Tasks, Start(t) \/ Infrastructure(t) \/ StartOutput(t)
       PROVE  Bounds'
  BY <1>13 DEF Start, Infrastructure, InitOutput, Refused, StartOutput, Goto
<1>14. ASSUME NEW t \in Tasks, StartServer(t)
       PROVE  Bounds'
  BY <1>14 DEF StartServer
<1>15. ASSUME NEW t \in Tasks, Mark(t)
       PROVE  Bounds'
  BY <1>15 DEF Mark, Goto
<1>16. CASE UNCHANGED vars
  BY <1>16 DEF vars
<1> QED
  BY <1>1, <1>2, <1>3, <1>4, <1>5, <1>6, <1>7, <1>8, <1>9, <1>10, <1>11, <1>12,
         <1>13, <1>14, <1>15, <1>16 DEF Next, Main, Monitor, BtApp, Phone,
         Network, StartAirplay

(* Only one task is at the services.                                         *)
LEMMA OneAtATimeKept ==
  ASSUME IInv, ~Abort, NetChanges = "quiet", [Next]_vars
  PROVE  OneAtATime'
<1> USE SwitchAssumption DEF IInv, Counters, OneAtATime, NetworkIsNew,
       HasNetwork, NoPhone, Visit, Services, Queued, Events, MainAt, MonitorAt,
       BtAt, Walk, Stopping, Tasks, network, services, airplay, bluetooth
<1>1. ASSUME NEW i \in Interfaces, InterfaceUp(i) \/ InterfaceDown(i)
      PROVE  OneAtATime'
  BY <1>1 DEF InterfaceUp, InterfaceDown, NetMayChange, Quiet
<1>2. CASE WifiLost
  BY <1>2 DEF WifiLost
<1>3. CASE Workers
  BY <1>3 DEF Workers, WriterEnds, ServerBegins, ServerEnds, PlaybackEnds
<1>4. CASE Boot \/ BootOutput \/ BootBluetooth
  BY <1>4 DEF Boot, BootOutput, InitOutput, Refused, BootBluetooth, Goto
<1>5. CASE Poll
  BY <1>5 DEF Poll, Goto, StopWifi, StartWifi
<1>6. CASE PhoneConnects
  BY <1>6 DEF PhoneConnects, Quiet, Post
<1>7. CASE PhoneConnected \/ PhoneConfigures \/ PhoneLeaves \/ Prefetched
  BY <1>7 DEF PhoneConnected, PhoneConfigures, PhoneLeaves, Prefetched, Post
<1>8. CASE OnConnecting \/ OnConfigured \/ OnConnected
  BY <1>8 DEF OnConnecting, OnConnected, OnConfigured, Take, Goto
<1>9. CASE OnDisconnected
  BY <1>9, Taken DEF OnDisconnected, Goto
<1>10. CASE StopServer \/ WaitServer \/ StopOutput
  BY <1>10 DEF StopServer, WaitServer, StopOutput, Goto
<1>11. CASE WaitOutput \/ Stopped \/ TakeOver
  BY <1>11 DEF WaitOutput, Stopped, TakeOver, Goto
<1>12. CASE Drain \/ Leave
  BY <1>12 DEF Drain, Leave, Goto
<1>13. ASSUME NEW t \in Tasks, Start(t) \/ Infrastructure(t) \/ StartOutput(t)
       PROVE  OneAtATime'
  BY <1>13 DEF Start, Infrastructure, InitOutput, Refused, StartOutput, Goto
<1>14. ASSUME NEW t \in Tasks, StartServer(t)
       PROVE  OneAtATime'
  BY <1>14, ServerIsFree DEF StartServer, Goto
<1>15. ASSUME NEW t \in Tasks, Mark(t)
       PROVE  OneAtATime'
  BY <1>15 DEF Mark, Goto
<1>16. CASE UNCHANGED vars
  BY <1>16 DEF vars
<1> QED
  BY <1>1, <1>2, <1>3, <1>4, <1>5, <1>6, <1>7, <1>8, <1>9, <1>10, <1>11, <1>12,
         <1>13, <1>14, <1>15, <1>16 DEF Next, Main, Monitor, BtApp, Phone,
         Network, StartAirplay

(* The events of a visit stay in order.                                      *)
LEMMA VisitKept ==
  ASSUME IInv, ~Abort, NetChanges = "quiet", [Next]_vars
  PROVE  Visit'
<1> USE SwitchAssumption DEF IInv, Counters, Visit, OneAtATime, HandingOver,
       NoPhone, Services, Events, MainAt, MonitorAt, BtAt, Walk, Stopping, Tasks,
       network, services, airplay, bluetooth
<1>1. ASSUME NEW i \in Interfaces, InterfaceUp(i) \/ InterfaceDown(i)
      PROVE  Visit'
  BY <1>1 DEF InterfaceUp, InterfaceDown, NetMayChange, Quiet
<1>2. CASE WifiLost
  BY <1>2 DEF WifiLost
<1>3. CASE Workers
  BY <1>3 DEF Workers, WriterEnds, ServerBegins, ServerEnds, PlaybackEnds
<1>4. CASE Boot \/ BootOutput \/ BootBluetooth
  BY <1>4 DEF Boot, BootOutput, InitOutput, Refused, BootBluetooth, Goto
<1>5. CASE Poll
  BY <1>5 DEF Poll, Goto, StopWifi, StartWifi
<1>6. CASE PhoneConnects
  <2>1. phone = "away" /\ events = << >> /\ phone' = "connecting" /\ Post("connecting")
        /\ UNCHANGED << pc, s_connected >> /\ ~s_connected /\ Quiet
    BY <1>6 DEF PhoneConnects
  <2>2. /\ events' \in Seq(Events) /\ InOrder(events')
        /\ ~Queued(events', "disconnected") /\ ~Queued(events', "connected")
    <3>1. ~Queued(events, "disconnected") /\ ~Queued(events, "connected")
      BY <2>1 DEF Queued
    <3> QED
      BY <2>1, <3>1, Posted
  <2>3. ~s_connected /\ ~HandingOver /\ server # "new"
    BY <2>1 DEF Quiet
  <2> QED
    BY <2>1, <2>2, <2>3, <1>6 DEF PhoneConnects
<1>7. CASE PhoneConnected
  BY <1>7, Posted DEF PhoneConnected, Post
<1>8. CASE PhoneConfigures
  BY <1>8, Posted DEF PhoneConfigures, Post
<1>9. CASE PhoneLeaves
  BY <1>9, Posted DEF PhoneLeaves, Post
<1>10. CASE Prefetched
  BY <1>10 DEF Prefetched
<1>11. CASE OnConnecting
  <2>1. /\ pc["bt"] = "idle" /\ events # << >> /\ Queued(events, "connecting")
        /\ events' \in Seq(Events) /\ InOrder(events')
        /\ \A d \in Events : Queued(events', d) => Queued(events, d)
        /\ \A d \in Events : Queued(events, d) => d = "connecting" \/ Queued(events', d)
    BY <1>11, Taken DEF OnConnecting
  <2> QED
    BY <2>1, <1>11 DEF OnConnecting, Goto
<1>12. CASE OnConfigured
  <2>1. /\ pc["bt"] = "idle" /\ events # << >> /\ Queued(events, "configured")
        /\ events' \in Seq(Events) /\ InOrder(events')
        /\ \A d \in Events : Queued(events', d) => Queued(events, d)
        /\ \A d \in Events : Queued(events, d) => d = "configured" \/ Queued(events', d)
    BY <1>12, Taken DEF OnConfigured
  <2> QED
    BY <2>1, <1>12 DEF OnConfigured, Goto
<1>13. CASE OnConnected
  <2>1. /\ pc["bt"] = "idle" /\ events # << >> /\ Queued(events, "connected")
        /\ events' \in Seq(Events) /\ InOrder(events')
        /\ \A d \in Events : Queued(events', d) => Queued(events, d)
        /\ \A d \in Events : Queued(events, d) => d = "connected" \/ Queued(events', d)
        /\ ~Queued(events', "connected")
    BY <1>13, Taken DEF OnConnected
  <2> QED
    BY <2>1, <1>13 DEF OnConnected, Goto
<1>14. CASE OnDisconnected
  BY <1>14, Taken DEF OnDisconnected, Goto
<1>15. CASE StopServer \/ WaitServer \/ StopOutput
  BY <1>15 DEF StopServer, WaitServer, StopOutput, Goto
<1>16. CASE WaitOutput \/ Stopped \/ TakeOver
  BY <1>16 DEF WaitOutput, Stopped, TakeOver, Goto
<1>17. CASE Drain \/ Leave
  BY <1>17 DEF Drain, Leave, Goto
<1>18. ASSUME NEW t \in Tasks, Start(t) \/ Infrastructure(t) \/ StartOutput(t)
       PROVE  Visit'
  BY <1>18 DEF Start, Infrastructure, InitOutput, Refused, StartOutput, Goto
<1>19. ASSUME NEW t \in Tasks, StartServer(t)
       PROVE  Visit'
  BY <1>19, ServerIsFree DEF StartServer, Goto
<1>20. ASSUME NEW t \in Tasks, Mark(t)
       PROVE  Visit'
  BY <1>20 DEF Mark, Goto
<1>21. CASE UNCHANGED vars
  BY <1>21 DEF vars
<1> QED
  BY <1>1, <1>2, <1>3, <1>4, <1>5, <1>6, <1>7, <1>8, <1>9, <1>10, <1>11, <1>12,
         <1>13, <1>14, <1>15, <1>16, <1>17, <1>18, <1>19, <1>20, <1>21 DEF Next,
         Main, Monitor, BtApp, Phone, Network, StartAirplay

(* The services are as far as the one who starts or stops them.              *)
LEMMA ServicesKept ==
  ASSUME IInv, ~Abort, NetChanges = "quiet", [Next]_vars
  PROVE  Services'
<1> USE SwitchAssumption DEF IInv, Counters, Services, OneAtATime, Ranges, Visit,
       HandingOver, NoPhone, At, ServerIsUp, PlaybackIsUp, MainAt, MonitorAt,
       BtAt, Walk, Stopping, Tasks, network, services, airplay, bluetooth
<1>1. ASSUME NEW i \in Interfaces, InterfaceUp(i) \/ InterfaceDown(i)
      PROVE  Services'
  BY <1>1 DEF InterfaceUp, InterfaceDown, NetMayChange, Quiet
<1>2. CASE WifiLost
  BY <1>2 DEF WifiLost
<1>3. CASE Workers
  BY <1>3 DEF Workers, WriterEnds, ServerBegins, ServerEnds, PlaybackEnds
<1>4. CASE Boot \/ BootOutput \/ BootBluetooth
  BY <1>4 DEF Boot, BootOutput, InitOutput, Refused, BootBluetooth, Goto
<1>5. CASE Poll
  BY <1>5 DEF Poll, Goto, StopWifi, StartWifi
<1>6. CASE PhoneConnects
  BY <1>6 DEF PhoneConnects, Quiet, Post
<1>7. CASE PhoneConnected \/ PhoneConfigures \/ PhoneLeaves \/ Prefetched
  BY <1>7 DEF PhoneConnected, PhoneConfigures, PhoneLeaves, Prefetched, Post
<1>8. CASE OnConnecting \/ OnConfigured \/ OnConnected
  BY <1>8 DEF OnConnecting, OnConnected, OnConfigured, Take, Goto
<1>9. CASE OnDisconnected
  BY <1>9 DEF OnDisconnected, Goto, Take
<1>10. CASE StopServer \/ WaitServer \/ StopOutput
  BY <1>10 DEF StopServer, WaitServer, StopOutput, Goto
<1>11. CASE WaitOutput \/ Stopped \/ TakeOver
  BY <1>11 DEF WaitOutput, Stopped, TakeOver, Goto
<1>12. CASE Drain \/ Leave
  BY <1>12 DEF Drain, Leave, Goto
<1>13. ASSUME NEW t \in Tasks, Start(t) \/ Infrastructure(t) \/ StartOutput(t)
       PROVE  Services'
  BY <1>13 DEF Start, Infrastructure, InitOutput, Refused, StartOutput, Goto
<1>14. ASSUME NEW t \in Tasks, StartServer(t)
       PROVE  Services'
  BY <1>14, ServerIsFree DEF StartServer, Goto
<1>15. ASSUME NEW t \in Tasks, Mark(t)
       PROVE  Services'
  BY <1>15 DEF Mark, Goto
<1>16. CASE UNCHANGED vars
  BY <1>16 DEF vars
<1> QED
  BY <1>1, <1>2, <1>3, <1>4, <1>5, <1>6, <1>7, <1>8, <1>9, <1>10, <1>11, <1>12,
         <1>13, <1>14, <1>15, <1>16 DEF Next, Main, Monitor, BtApp, Phone,
         Network, StartAirplay


-----------------------------------------------------------------------------
(* The program that has stopped. *)
Down == pc = [t \in Tasks |-> "aborted"]

LEMMA IInvKept ==
  ASSUME IInv, ~Abort, NetChanges = "quiet", [Next]_vars
  PROVE  IInv'
BY CountersKept, RangesKept, BoundsKept, OneAtATimeKept, VisitKept, ServicesKept DEF IInv

LEMMA InitIsGood == Init => IInv
<1> SUFFICES ASSUME Init
             PROVE  IInv
  OBVIOUS
<1> USE SwitchAssumption DEF Init, Tasks, Walk, Stopping
<1>1. /\ pc = [main |-> "services", monitor |-> "idle", bt |-> "off"]
      /\ pc["main"] = "services" /\ pc["monitor"] = "idle" /\ pc["bt"] = "off"
  OBVIOUS
<1>2. Counters
  BY <1>1 DEF Counters, MainAt, MonitorAt, BtAt
<1>3. Ranges /\ Bounds
  BY DEF Ranges, Bounds
<1>4. NoPhone /\ ~NetworkIsNew
  BY DEF NoPhone, NetworkIsNew, HasNetwork
<1>5. OneAtATime
  BY <1>1, <1>4 DEF OneAtATime
<1>6. Visit
  <2>1. events = << >> /\ events \in Seq(Events)
    OBVIOUS
  <2>2. InOrder(events) /\ ~Queued(events, "connected") /\ ~Queued(events, "disconnected")
    BY <2>1 DEF InOrder, Queued
  <2> QED
    BY <1>1, <1>4, <2>1, <2>2 DEF Visit, HandingOver
<1>7. Services
  BY <1>1 DEF Services, At, HandingOver, ServerIsUp, PlaybackIsUp
<1> QED
  BY <1>2, <1>3, <1>5, <1>6, <1>7 DEF IInv

LEMMA DownIsDown ==
  ASSUME Down, [Next]_vars
  PROVE  Down'
<1>1. pc["main"] = "aborted" /\ pc["monitor"] = "aborted" /\ pc["bt"] = "aborted"
  BY DEF Down, Tasks
<1>2. ASSUME NEW t \in Tasks
      PROVE  ~StartAirplay(t)
  BY <1>1, <1>2 DEF StartAirplay, Start, Infrastructure, StartOutput, StartServer, Mark, Tasks
<1>3. ~Main /\ ~Monitor
  BY <1>1, <1>2 DEF Main, Monitor, Boot, BootOutput, BootBluetooth, Poll, Tasks
<1>4. ~BtApp
  BY <1>1, <1>2 DEF BtApp, OnConnecting, OnConnected, OnConfigured, OnDisconnected, Take,
     StopServer, WaitServer, StopOutput, WaitOutput, Stopped, TakeOver, Drain, Leave, Tasks
<1>5. pc' = pc
  BY <1>3, <1>4 DEF Next, Workers, ServerBegins, ServerEnds, PlaybackEnds, WriterEnds, Phone,
     PhoneConnects, PhoneConnected, PhoneConfigures, PhoneLeaves, Prefetched, Network,
     WifiLost, InterfaceUp, InterfaceDown, vars
<1> QED
  BY <1>5 DEF Down

(* Every state: the services as they should be, or the program stopped.    *)
Safe == IInv \/ (Down /\ Ranges /\ Bounds)

LEMMA SafeKept ==
  ASSUME NetChanges = "quiet", Safe, [Next]_vars
  PROVE  Safe'
<1>1. CASE IInv /\ ~Abort
  BY <1>1, IInvKept DEF Safe
<1>2. CASE IInv /\ Abort
  <2>1. Down'
    BY <1>2 DEF Abort, Down
  <2>2. Ranges /\ Bounds
    BY <1>2 DEF IInv
  <2> QED
    BY <2>1, <2>2, RangesKept, BoundsKept DEF Safe
<1>3. CASE Down /\ Ranges /\ Bounds
  BY <1>3, DownIsDown, RangesKept, BoundsKept DEF Safe
<1> QED
  BY <1>1, <1>2, <1>3 DEF Safe

(* Whatever the board, whether or not a failed check stops the program,     *)
(* and whenever phones come and go: once the hand-over to a phone is done   *)
(* AirPlay is off until it leaves, no second task writes and the buttons    *)
(* reach the phone.                                                         *)
THEOREM PhoneHasTheOutput ==
  ASSUME NetChanges = "quiet"
  PROVE  Spec => []BluetoothAlone
<1>1. Init => Safe
  BY InitIsGood DEF Safe
<1>2. Safe /\ [Next]_vars => Safe'
  BY SafeKept
<1>3. Safe => BluetoothAlone
  <2>1. Down => BluetoothAlone
    BY DEF Down, Tasks, BluetoothAlone
  <2>2. IInv => BluetoothAlone
    <3> SUFFICES ASSUME IInv, s_connected, pc["bt"] = "idle"
                 PROVE  playback = "none" /\ ~server_running /\ source = "bluetooth"
      BY DEF BluetoothAlone
    <3>1. ~airplay_started /\ source = "bluetooth"
      BY DEF IInv, Services, Stopping
    <3>2. \A t \in Tasks : pc[t] \notin Walk
      BY DEF IInv, OneAtATime, NoPhone, Tasks, Walk
    <3>3. ~At("mark") /\ ~At("serve")
      BY <3>2 DEF At, Walk
    <3> QED
      BY <3>1, <3>3 DEF IInv, Services, ServerIsUp
  <2> QED
    BY <2>1, <2>2 DEF Safe
<1> QED
  BY <1>1, <1>2, <1>3, PTL DEF Spec

(* Whichever of the three tasks starts and stops the services, no RTSP      *)
(* server is started beside another one, and services that are marked as    *)
(* started are all there: with checks that stop the program and without.    *)
THEOREM SwitchedAsAWhole ==
  ASSUME NetChanges = "quiet"
  PROVE  Spec => []SwitchInv
<1>1. Init => Safe
  BY InitIsGood DEF Safe
<1>2. Safe /\ [Next]_vars => Safe'
  BY SafeKept
<1>3. ASSUME Safe
      PROVE  TypeOK
  <2>1. /\ pc.main \in Calls \cup {"services", "output_init", "bluetooth"}
        /\ pc.monitor \in Calls
        /\ pc.bt \in Calls \cup {"off", "stop_server", "wait_server", "stop_output",
                                 "wait_output", "stopped", "take", "drain", "leave"}
    <3>1. CASE IInv
      <4>1. pc["main"] \in MainAt /\ pc["monitor"] \in MonitorAt /\ pc["bt"] \in BtAt
        BY <3>1 DEF IInv, Counters
      <4> QED
        BY <4>1 DEF MainAt, MonitorAt, BtAt, Walk, Stopping, Calls
    <3>2. CASE Down
      <4>1. pc["main"] = "aborted" /\ pc["monitor"] = "aborted" /\ pc["bt"] = "aborted"
        BY <3>2 DEF Down, Tasks
      <4> QED
        BY <4>1 DEF Calls
    <3> QED
      BY <1>3, <3>1, <3>2 DEF Safe
  <2>2. Ranges /\ Bounds
    BY <1>3 DEF Safe, IInv
  <2> QED
    BY <2>1, <2>2 DEF Ranges, Bounds, TypeOK
<1>4. ASSUME IInv, NEW t \in Tasks, pc[t] = "serve"
      PROVE  server # "new" /\ ~server_running
  <2>1. ~airplay_started
    BY <1>4 DEF IInv, Services, Walk
  <2>2. ~At("mark")
    BY <1>4 DEF IInv, OneAtATime, Counters, At, Tasks, Walk
  <2> QED
    BY <1>4, <2>1, <2>2 DEF IInv, Services, ServerIsUp
<1>5. ASSUME IInv, airplay_started,
             \A t \in Tasks : pc[t] \in {"idle", "off", "output_init", "bluetooth"}
      PROVE  playback = "run" /\ playback_running /\ server # "none"
  <2>1. pc["bt"] \notin Stopping
    BY <1>5 DEF Tasks, Stopping
  <2> QED
    BY <1>5, <2>1 DEF IInv, Services, ServerIsUp, PlaybackIsUp
<1>6. Down => ServerStartedOnce /\ StartedIsComplete
  BY DEF Down, Tasks, ServerStartedOnce, StartedIsComplete
<1>7. Safe => SwitchInv
  <2>1. IInv => ServerStartedOnce
    BY <1>4 DEF ServerStartedOnce
  <2>2. IInv => StartedIsComplete
    BY <1>5 DEF StartedIsComplete
  <2> QED
    BY <1>3, <1>6, <2>1, <2>2 DEF Safe, SwitchInv
<1> QED
  BY <1>1, <1>2, <1>7, PTL DEF Spec
=============================================================================
