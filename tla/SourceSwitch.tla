---------------------------- MODULE SourceSwitch ----------------------------
(***************************************************************************)
(* One I2S output, two sources.  main/main.c starts the AirPlay services   *)
(* when there is a network and stops them when a Bluetooth phone connects; *)
(* main/audio/a2dp_sink.c handles the events of the Bluetooth stack one by *)
(* one in the bt_app task; main/audio/audio_output.c has the playback task *)
(* of AirPlay, and a2dp_sink.c the writer task of Bluetooth.               *)
(*                                                                         *)
(* Three tasks run start_airplay_services: app_main at boot, the network   *)
(* monitor, and bt_app after a disconnect.  Nothing locks it, so each of   *)
(* its calls is an action.                                                 *)
(***************************************************************************)
EXTENDS Integers, Sequences, FiniteSets

CONSTANTS
  Interfaces,     \* the network interfaces of the board: "eth", "wifi"
  Checks,         \* the builds: in a "stop" a failed ESP_ERROR_CHECK aborts; in
                  \* a "pass" the option for assertions has left the test out
  NetChanges,     \* "quiet": the network changes alone; "anytime"
  MaxChanges,     \* bound: changes of the network
  MaxPhones       \* bound: connections of a phone

ASSUME SwitchAssumption ==
  /\ Interfaces \subseteq {"eth", "wifi"} /\ Checks \subseteq {"stop", "pass"}
  /\ NetChanges \in {"quiet", "anytime"} /\ MaxChanges \in Nat /\ MaxPhones \in Nat

VARIABLES
  pc,                        \* where each of the three tasks is
  net,                       \* the interfaces whose is_connected flag is set
  wifi_driver, wifi_started, \* the Wi-Fi driver is there; the monitor's flag
  had,                       \* had_network and had_eth of the monitor
  airplay_started, infrastructure_ready, output_ready,
  playback, playback_running, \* the playback task and its flag
  server, server_running,    \* the RTSP server task and its flag
  source,                    \* playback_control.c
  phone, events, s_connected, \* the phone, the bt_app queue, the sink's flag
  writer, writer_running, ringbuf,  \* the Bluetooth writer task
  changes, phones            \* bounds

network == << net, wifi_driver, wifi_started, had, changes >>
services == << airplay_started, infrastructure_ready, output_ready >>
airplay == << playback, playback_running, server, server_running >>
bluetooth == << phone, events, s_connected, writer, writer_running, ringbuf, phones >>
vars == << pc, network, services, airplay, source, bluetooth >>

Tasks == {"main", "monitor", "bt"}
Goto(t, label) == pc' = [pc EXCEPT ![t] = label]

(* A failed ESP_ERROR_CHECK in task t, which is at a label it goes on from  *)
(* where the test is left out.                                              *)
Abort == pc' = [t \in Tasks |-> "aborted"]
Refused(t, label) == ("stop" \in Checks /\ Abort) \/ ("pass" \in Checks /\ Goto(t, label))
aborted == pc.main = "aborted"
HasNetwork == net # {}

(* The tasks that write to the I2S channel. *)
Writers == {w \in {"airplay", "bluetooth"} :
              \/ w = "airplay" /\ playback = "run"
              \/ w = "bluetooth" /\ writer = "writing"}

Init ==
  /\ net \in SUBSET Interfaces /\ ("eth" \in net => "wifi" \notin net)
  /\ wifi_driver = ("wifi" \in Interfaces /\ "eth" \notin net) /\ wifi_started = wifi_driver
  /\ had = [network |-> net # {}, eth |-> "eth" \in net]
  /\ pc = [main |-> "services", monitor |-> "idle", bt |-> "off"]
  /\ airplay_started = FALSE /\ infrastructure_ready = FALSE /\ output_ready = FALSE
  /\ playback = "none" /\ playback_running = FALSE
  /\ server = "none" /\ server_running = FALSE
  /\ source = "none"
  /\ phone = "away" /\ events = << >> /\ s_connected = FALSE
  /\ writer = "none" /\ writer_running = FALSE /\ ringbuf = FALSE
  /\ changes = 0 /\ phones = 0

-----------------------------------------------------------------------------
(* The interfaces, whose event handlers set the flags.  The network does   *)
(* not change in the instant between the starts of the monitor and AirPlay. *)
Quiet == /\ phone = "away" /\ events = << >> /\ pc.bt = "idle"
         /\ pc.main = "idle" /\ pc.monitor = "idle" /\ server # "new"
         /\ had.network = HasNetwork

NetMayChange ==
  /\ changes < MaxChanges /\ pc.main = "idle" /\ pc.bt # "off"
  /\ NetChanges = "quiet" => Quiet

InterfaceUp(i) ==
  /\ NetMayChange /\ i \in Interfaces \ net /\ (i = "wifi" => wifi_driver)
  /\ net' = net \cup {i} /\ changes' = changes + 1
  /\ UNCHANGED << pc, wifi_driver, wifi_started, had, services, airplay, source, bluetooth >>

InterfaceDown(i) ==
  /\ NetMayChange /\ i \in net
  /\ net' = net \ {i} /\ changes' = changes + 1
  /\ UNCHANGED << pc, wifi_driver, wifi_started, had, services, airplay, source, bluetooth >>

(* The event loop learns that the Wi-Fi driver is gone. *)
WifiLost ==
  /\ ~wifi_driver /\ "wifi" \in net /\ net' = net \ {"wifi"}
  /\ UNCHANGED << pc, wifi_driver, wifi_started, had, changes, services, airplay, source,
                  bluetooth >>

-----------------------------------------------------------------------------
(* Mutant: whether the services are started already is not looked at. *)
StartAgain(t) ==
  /\ pc[t] = "start" /\ Goto(t, IF infrastructure_ready THEN "output" ELSE "init")
  /\ UNCHANGED << network, services, airplay, source, bluetooth >>

(* start_airplay_services, run by task t. *)
Start(t) ==
  /\ pc[t] = "start"
  /\ Goto(t, IF airplay_started THEN "idle" ELSE IF infrastructure_ready THEN "output" ELSE "init")
  /\ UNCHANGED << network, services, airplay, source, bluetooth >>

(* audio_output_init.  I2S_NUM_0 has one transmit channel and nothing gives *)
(* it back: the driver refuses a second one, and the first stays.           *)
InitOutput(t, label) ==
  /\ output_ready' = TRUE
  /\ IF output_ready THEN Refused(t, label) ELSE Goto(t, label)

Infrastructure(t) ==
  /\ pc[t] = "init" /\ InitOutput(t, "output")
  /\ infrastructure_ready' = TRUE
  /\ UNCHANGED << network, airplay_started, airplay, source, bluetooth >>

(* audio_output_start. *)
StartOutput(t) ==
  /\ pc[t] = "output" /\ Goto(t, "serve")
  /\ IF playback # "none"
       THEN UNCHANGED << playback, playback_running >>
       ELSE playback' = "run" /\ playback_running' = TRUE
  /\ UNCHANGED << network, services, server, server_running, source, bluetooth >>

(* rtsp_server_start: an old task that stops is waited for, one that runs  *)
(* is an error.                                                            *)
StartServer(t) ==
  /\ pc[t] = "serve"
  /\ server = "none" \/ server_running
  /\ IF server = "none"
       THEN server' = "new" /\ Goto(t, "mark")
       ELSE Refused(t, "mark") /\ UNCHANGED server
  /\ UNCHANGED << network, services, playback, playback_running, server_running, source,
                  bluetooth >>

Mark(t) ==
  /\ pc[t] = "mark" /\ Goto(t, IF t = "main" THEN "output_init" ELSE "idle")
  /\ airplay_started' = TRUE /\ source' = "airplay"
  /\ UNCHANGED << network, infrastructure_ready, output_ready, airplay, bluetooth >>

(* The RTSP server task and the playback task. *)
ServerBegins ==
  /\ server = "new" /\ server' = "run" /\ server_running' = TRUE
  /\ UNCHANGED << pc, network, services, playback, playback_running, source, bluetooth >>

ServerEnds ==
  /\ server = "run" /\ ~server_running /\ server' = "none"
  /\ UNCHANGED << pc, network, services, playback, playback_running, server_running, source,
                  bluetooth >>

PlaybackEnds ==
  /\ playback = "run" /\ ~playback_running /\ playback' = "none"
  /\ UNCHANGED << pc, network, services, playback_running, server, server_running, source,
                  bluetooth >>

-----------------------------------------------------------------------------
(* app_main, from the start of the monitor task, which first waits 2 s. *)
Boot ==
  /\ pc.main = "services"
  /\ Goto("main", IF HasNetwork THEN "start" ELSE "output_init")
  /\ UNCHANGED << network, services, airplay, source, bluetooth >>

BootOutput ==
  /\ pc.main = "output_init" /\ InitOutput("main", "bluetooth")
  /\ UNCHANGED << network, airplay_started, infrastructure_ready, airplay, source, bluetooth >>

(* bt_a2dp_sink_init; bt_stack_evt_handler creates the writer beforehand. *)
BootBluetooth ==
  /\ pc.main = "bluetooth" /\ pc' = [pc EXCEPT !["main"] = "idle", !["bt"] = "idle"]
  /\ writer' = "waiting" /\ writer_running' = TRUE /\ ringbuf' = TRUE
  /\ UNCHANGED << network, services, airplay, source, phone, events, s_connected, phones >>

(* One turn of network_monitor_task. *)
StopWifi == wifi_driver' = FALSE /\ wifi_started' = FALSE
StartWifi == wifi_driver' = ("wifi" \in Interfaces) /\ wifi_started' = TRUE

Poll ==
  LET eth_up == "eth" \in net
      stopped == eth_up /\ ~had.eth /\ wifi_started
      left == IF stopped THEN net \ {"wifi"} ELSE net
  IN  /\ pc.monitor = "idle"
      /\ net' = left
      /\ IF stopped THEN StopWifi
         ELSE IF ~eth_up /\ had.eth THEN StartWifi
         ELSE UNCHANGED << wifi_driver, wifi_started >>
      /\ had' = [network |-> left # {}, eth |-> eth_up]
      /\ Goto("monitor", IF left # {} /\ ~had.network THEN "start" ELSE "idle")
      /\ UNCHANGED << changes, services, airplay, source, bluetooth >>

-----------------------------------------------------------------------------
(* The phone and the Bluetooth stack, which posts events to bt_app. *)
Post(e) == events' = Append(events, e)

PhoneConnects ==
  /\ phone = "away" /\ pc.bt # "off" /\ ~s_connected /\ events = << >>
  /\ phones < MaxPhones /\ phones' = phones + 1
  /\ NetChanges = "quiet" => Quiet
  /\ phone' = "connecting" /\ Post("connecting")
  /\ UNCHANGED << pc, network, services, airplay, source, s_connected, writer,
                  writer_running, ringbuf >>

PhoneConnected ==
  /\ phone = "connecting" /\ phone' = "connected" /\ Post("connected")
  /\ UNCHANGED << pc, network, services, airplay, source, s_connected, writer,
                  writer_running, ringbuf, phones >>

PhoneConfigures ==
  /\ phone = "connected" /\ phone' = "playing" /\ Post("configured")
  /\ UNCHANGED << pc, network, services, airplay, source, s_connected, writer,
                  writer_running, ringbuf, phones >>

PhoneLeaves ==
  /\ phone # "away" /\ phone' = "away" /\ Post("disconnected")
  /\ UNCHANGED << pc, network, services, airplay, source, s_connected, writer,
                  writer_running, ringbuf, phones >>

(* bt_a2dp_data_cb: enough data, the writer may begin. *)
Prefetched ==
  /\ phone = "playing" /\ ringbuf /\ writer = "waiting" /\ writer' = "writing"
  /\ UNCHANGED << pc, network, services, airplay, source, phone, events, s_connected,
                  writer_running, ringbuf, phones >>

(* The writer task ends: i2s_task_stop also gives it the semaphore. *)
WriterEnds ==
  /\ writer # "none" /\ ~writer_running /\ writer' = "none"
  /\ UNCHANGED << pc, network, services, airplay, source, phone, events, s_connected,
                  writer_running, ringbuf, phones >>

-----------------------------------------------------------------------------
(* bt_a2dp_evt_handler, in the bt_app task. *)
Take(e) ==
  /\ pc.bt = "idle" /\ events # << >> /\ Head(events) = e
  /\ events' = Tail(events)

OnConnecting ==
  /\ Take("connecting") /\ wifi_driver' = FALSE
  /\ UNCHANGED << pc, net, wifi_started, had, changes, services, airplay, source, phone,
                  s_connected, writer, writer_running, ringbuf, phones >>

OnConnected ==
  /\ Take("connected") /\ s_connected' = TRUE
  /\ Goto("bt", IF airplay_started THEN "stop_server" ELSE "take")
  /\ UNCHANGED << network, services, airplay, source, phone, writer, writer_running,
                  ringbuf, phones >>

OnConfigured ==
  /\ Take("configured")
  /\ UNCHANGED << pc, network, services, airplay, source, phone, s_connected, writer,
                  writer_running, ringbuf, phones >>

OnDisconnected ==
  /\ Take("disconnected") /\ s_connected' = FALSE
  /\ writer_running' = FALSE /\ Goto("bt", "drain")
  /\ UNCHANGED << network, services, airplay, source, phone, writer, ringbuf, phones >>

(* stop_airplay_services.  The wait for the server may give up. *)
StopServer ==
  /\ pc.bt = "stop_server" /\ server_running' = FALSE /\ Goto("bt", "wait_server")
  /\ UNCHANGED << network, services, playback, playback_running, server, source, bluetooth >>

WaitServer ==
  /\ pc.bt = "wait_server" /\ (server = "none" \/ server = "run")
  /\ Goto("bt", "stop_output")
  /\ UNCHANGED << network, services, airplay, source, bluetooth >>

StopOutput ==
  /\ pc.bt = "stop_output"
  /\ IF playback = "none"
       THEN Goto("bt", "stopped") /\ UNCHANGED playback_running
       ELSE Goto("bt", "wait_output") /\ playback_running' = FALSE
  /\ UNCHANGED << network, services, playback, server, server_running, source, bluetooth >>

WaitOutput ==
  /\ pc.bt = "wait_output" /\ (playback = "none" \/ playback_running)
  /\ Goto("bt", "stopped")
  /\ UNCHANGED << network, services, airplay, source, bluetooth >>

Stopped ==
  /\ pc.bt = "stopped" /\ Goto("bt", "take")
  /\ airplay_started' = FALSE /\ source' = "none"
  /\ UNCHANGED << network, infrastructure_ready, output_ready, airplay, bluetooth >>

(* Mutant: the source is set only by AirPlay. *)
TakeOverQuietly ==
  /\ pc.bt = "take" /\ Goto("bt", "idle") /\ UNCHANGED source
  /\ IF writer # "none"
       THEN UNCHANGED << writer, writer_running, ringbuf >>
       ELSE writer' = "waiting" /\ writer_running' = TRUE /\ ringbuf' = TRUE
  /\ UNCHANGED << network, services, airplay, phone, events, s_connected, phones >>

(* on_bt_state_changed goes on, then i2s_task_start. *)
TakeOver ==
  /\ pc.bt = "take" /\ Goto("bt", "idle") /\ source' = "bluetooth"
  /\ IF writer # "none"
       THEN UNCHANGED << writer, writer_running, ringbuf >>
       ELSE writer' = "waiting" /\ writer_running' = TRUE /\ ringbuf' = TRUE
  /\ UNCHANGED << network, services, airplay, phone, events, s_connected, phones >>

(* i2s_task_stop, once the writer has ended: buffer and sample rate. *)
Drain ==
  /\ pc.bt = "drain" /\ writer = "none" /\ ringbuf' = FALSE /\ Goto("bt", "leave")
  /\ UNCHANGED << network, services, airplay, source, phone, events, s_connected, writer,
                  writer_running, phones >>

(* Mutant: the services are left to the monitor. *)
LeaveQuietly ==
  /\ pc.bt = "leave" /\ source' = "none" /\ Goto("bt", "idle")
  /\ UNCHANGED << network, services, airplay, bluetooth >>

(* on_bt_state_changed, the phone gone. *)
Leave ==
  /\ pc.bt = "leave" /\ source' = "none"
  /\ Goto("bt", IF HasNetwork THEN "start" ELSE "idle")
  /\ UNCHANGED << network, services, airplay, bluetooth >>

-----------------------------------------------------------------------------
StartAirplay(t) == Start(t) \/ Infrastructure(t) \/ StartOutput(t) \/ StartServer(t) \/ Mark(t)
Main == Boot \/ BootOutput \/ BootBluetooth \/ StartAirplay("main")
Monitor == Poll \/ StartAirplay("monitor")
BtApp == OnConnecting \/ OnConnected \/ OnConfigured \/ OnDisconnected \/ StopServer
         \/ WaitServer \/ StopOutput \/ WaitOutput \/ Stopped \/ TakeOver \/ Drain \/ Leave
         \/ StartAirplay("bt")
Workers == ServerBegins \/ ServerEnds \/ PlaybackEnds \/ WriterEnds
Phone == PhoneConnects \/ PhoneConnected \/ PhoneConfigures \/ PhoneLeaves \/ Prefetched
Network == WifiLost \/ \E i \in Interfaces : InterfaceUp(i) \/ InterfaceDown(i)

Next == Main \/ Monitor \/ BtApp \/ Workers \/ Phone \/ Network

Spec == Init /\ [][Next]_vars

(* Every task runs; the phone and the network do as they like. *)
Fairness ==
  /\ WF_vars(Main) /\ WF_vars(Monitor) /\ WF_vars(BtApp)
  /\ WF_vars(ServerBegins) /\ WF_vars(ServerEnds) /\ WF_vars(PlaybackEnds)
  /\ WF_vars(WriterEnds) /\ WF_vars(WifiLost)

FairSpec == Spec /\ Fairness

-----------------------------------------------------------------------------
Calls == {"idle", "start", "init", "output", "serve", "mark", "aborted"}
TypeOK ==
  /\ pc.main \in Calls \cup {"services", "output_init", "bluetooth"} /\ pc.monitor \in Calls
  /\ pc.bt \in Calls \cup {"off", "stop_server", "wait_server", "stop_output", "wait_output",
                           "stopped", "take", "drain", "leave"}
  /\ net \subseteq Interfaces
  /\ playback \in {"none", "run"} /\ server \in {"none", "new", "run"}
  /\ writer \in {"none", "waiting", "writing"} /\ writer # "none" => ringbuf
  /\ source \in {"none", "airplay", "bluetooth"}
  /\ phone \in {"away", "connecting", "connected", "playing"}
  /\ changes \in 0 .. MaxChanges /\ phones \in 0 .. MaxPhones

(* From the end of the hand-over until the phone leaves, AirPlay is off:   *)
(* no playback task writes beside the Bluetooth writer, no RTSP server     *)
(* accepts, and the buttons and the volume go to Bluetooth.                *)
BluetoothAlone ==
  s_connected /\ pc.bt = "idle" =>
    playback = "none" /\ ~server_running /\ source = "bluetooth"

(* "Init I2S audio output before BT so it is ready when A2DP connects": the *)
(* start-up gets past the initialisation of the output, and of what uses it. *)
NeverAborted == ~aborted

(* A task that comes to start the RTSP server finds none that runs or is    *)
(* about to, whichever of the three tasks start and stop the services: the  *)
(* second start would fail under ESP_ERROR_CHECK.                           *)
ServerStartedOnce ==
  \A t \in Tasks : pc[t] = "serve" => server # "new" /\ ~server_running

(* The sample rate of the channel is changed only while no task writes.    *)
RateSafe ==
  [][(OnConfigured \/ Drain) => Writers = {}]_vars

(* Services that are marked as started are all there. *)
StartedIsComplete ==
  airplay_started /\ (\A t \in Tasks : pc[t] \in {"idle", "off", "output_init", "bluetooth"}) =>
    playback = "run" /\ playback_running /\ server # "none"

(* Starting and stopping the services, by whichever task, starts no server  *)
(* beside another one, and leaves all of the services or none.              *)
SwitchInv == TypeOK /\ ServerStartedOnce /\ StartedIsComplete

(* While AirPlay is on and no phone is there, the buttons go to AirPlay.    *)
ButtonsGoToAirPlay ==
  airplay_started /\ ~s_connected /\ (\A t \in Tasks : pc[t] = "idle") => source = "airplay"

(* Once the phone has left for good and a network is there to stay,        *)
(* AirPlay is started and stays so, unless the program has been aborted.   *)
AirPlayComesBack ==
  <>[](phone = "away" /\ HasNetwork /\ ~aborted) => <>[]airplay_started

(* An access point that stays where it is: AirPlay that was on before the  *)
(* visit of a phone is on after it.                                        *)
AirPlayResumes ==
  <>airplay_started /\ <>[](phone = "away" /\ ~aborted) => <>[]airplay_started
=============================================================================
