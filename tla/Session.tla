------------------------------ MODULE Session ------------------------------
(***************************************************************************)
(* main/rtsp/rtsp_handlers.c and the parts of audio_receiver.c,            *)
(* audio_stream_realtime.c and audio_stream_buffered.c that start and stop *)
(* the stream tasks: the requests of one connection after the other, step  *)
(* by step, beside the tasks that read the sockets, and beside the task of *)
(* the event port.                                                         *)
(*                                                                         *)
(* A request puts the steps of its handler into `todo'; each is one action,*)
(* so that the stream tasks run between any two.  Times are left out: the  *)
(* waits of one second for a task end when it is gone, or give up while it *)
(* is blocked in a network call (the decoding of one packet is far shorter *)
(* than that).                                                             *)
(***************************************************************************)
EXTENDS Integers, Sequences, FiniteSets

CONSTANTS
  Ports,          \* port numbers the network stack hands out
  Scenarios       \* what the sender and the faults may do (see Scenario)

(* protocol: AirPlay 1 or 2; orderly: the sender sets streams up only when *)
(* they are not, as iOS and iTunes do; requests, connections, faults:      *)
(* bounds on what happens.                                                 *)
Scenario == [protocol : {1, 2}, orderly : BOOLEAN, requests : Nat,
             connections : Nat \ {0}, faults : Nat]

ASSUME PortAssumption == Ports \subseteq Nat \ {0} /\ IsFiniteSet(Ports)
ASSUME ScenarioAssumption == Scenarios \subseteq Scenario

Streams == {"realtime", "buffered"}
TasksOf(s) == IF s = "realtime" THEN {"recv", "ctrl"} ELSE {"buff"}
Tasks == {"recv", "ctrl", "buff"}
StreamOf(t) == IF t = "buff" THEN "buffered" ELSE "realtime"
StreamOfType(type) == IF type = 103 THEN "buffered" ELSE "realtime"

VARIABLES
  plan,       \* the scenario, chosen once
  conn,       \* rtsp_conn_t: stream_type, paused, its ports (0: none)
  todo,       \* the steps left of the handler that runs
  stream,     \* receiver.stream
  running,    \* stream->running
  port,       \* the port of the open data or listening socket, 0 when closed
  task,       \* where each stream task is
  decoder,    \* receiver.decoder # NULL
  key,        \* stream->encrypt: none, that of the sender's last message, or another
  playing,    \* timing.playing
  event,      \* the event port task: handle, should_stop, and who listens
  promise,    \* what the sender was told by the last answers
  sender,     \* where an orderly sender is
  left        \* for the bounds

receiver == << stream, running, port, task, decoder, key, playing >>
vars == << plan, conn, todo, receiver, event, promise, sender, left >>

Nothing == [port |-> 0, stream |-> "none"]
NewConn(n) == [id |-> n, stream_type |-> 0, paused |-> FALSE, control_port |-> FALSE,
               data_port |-> 0, buffered_port |-> 0, event_port |-> FALSE]

Init ==
  /\ plan \in Scenarios
  /\ conn = NewConn(1) /\ todo = << >>
  /\ stream = "realtime" /\ running = [s \in Streams |-> FALSE]
  /\ port = [s \in Streams |-> 0] /\ task = [t \in Tasks |-> "none"]
  /\ decoder = FALSE /\ key = [s \in Streams |-> "none"] /\ playing = FALSE
  /\ event = [handle |-> FALSE, should_stop |-> FALSE, listeners |-> {}]
  /\ promise = Nothing /\ sender = "new"
  /\ left = [requests |-> plan.requests, faults |-> plan.faults]

-----------------------------------------------------------------------------
(* Steps of a handler: << operation, argument >>. *)
Stop(s) == << << "halt", s >>, << "close", s >>, << "join", s >> >>

(* Mutant: the decoder goes before the tasks that use it. *)
ReceiverStopDecoderFirst == << << "clear", "" >> >> \o Stop("realtime") \o Stop("buffered")

(* audio_receiver_stop: both streams, then the decoder and the keys. *)
ReceiverStop == Stop("realtime") \o Stop("buffered") \o << << "clear", "" >> >>

(* start_audio_receiver_or_fail. *)
StartRealtime == << << "type", "realtime" >>, << "restart", "realtime" >>,
                    << "begin", "realtime" >> >>
StartBuffered == << << "type", "buffered" >>, << "begin", "buffered" >> >>
Start(type) == << << "type", StreamOfType(type) >> >> \o
               IF type = 103 THEN StartBuffered ELSE StartRealtime

Op == Head(todo)[1]
Arg == Head(todo)[2]
Doing(op) == todo # << >> /\ Op = op
Then(steps) == todo' = steps \o Tail(todo)
Done == todo' = Tail(todo)
Fail == todo' = << << "answer", "error" >> >>
Fault == left.faults > 0 /\ left' = [left EXCEPT !.faults = @ - 1]

-----------------------------------------------------------------------------
(* The requests. *)
Receive(steps) ==
  /\ todo = << >> /\ left.requests > 0
  /\ left' = [left EXCEPT !.requests = @ - 1]
  /\ todo' = steps
  /\ UNCHANGED << plan, receiver, event, promise >>

(* What an orderly sender sends next; any other sends anything. *)
At(places) == plan.orderly => sender \in places

(* ANNOUNCE carries the codec and the key. *)
ANNOUNCE ==
  /\ plan.protocol = 1 /\ At({"new", "ended"}) /\ sender' = "announced"
  /\ Receive(<< << "format", "" >>, << "key", "current" >>, << "answer", "ok" >> >>)
  /\ UNCHANGED conn

(* SETUP of AirPlay 1, with a Transport header: the answer goes out before *)
(* the codec is set; the stream is started by RECORD.                      *)
SETUP1 ==
  /\ plan.protocol = 1 /\ At({"announced"}) /\ sender' = "setup"
  /\ conn' = [conn EXCEPT !.stream_type = 96]
  /\ Receive(<< << "ntp", "" >>, << "ports", "realtime" >>, << "format", "" >>,
                << "type", "realtime" >>, << "answer", "ok" >> >>)

(* The parts of handle_setup before it divides. *)
StreamInfo(type) == << << "type", StreamOfType(type) >>, << "format", "" >> >>
StreamKey(kind) == << << "key", kind >> >>
NeedEventPort == << << "event", "" >> >>

(* The initial SETUP of AirPlay 2: a key derived from the pairing, and the *)
(* event port.                                                             *)
SETUP2 ==
  /\ plan.protocol = 2 /\ At({"new", "ended"}) /\ sender' = "setup"
  /\ Receive(StreamKey("session") \o NeedEventPort \o << << "answer", "ok" >> >>)
  /\ UNCHANGED conn

(* SETUP with a stream.  A buffered one is started twice, once to have its *)
(* port for the answer.                                                    *)
SETUPStreams(type) ==
  /\ plan.protocol = 2 /\ At({"setup", "torn"}) /\ sender' = "streaming"
  /\ conn' = [conn EXCEPT !.stream_type = type]
  /\ Receive(StreamInfo(type) \o StreamKey("current") \o NeedEventPort
             \o (IF type = 103 THEN StartBuffered \o << << "bufferedport", "" >> >> ELSE << >>)
             \o << << "ports", StreamOfType(type) >> >> \o Start(type)
             \o << << "answer", "stream" >>, << "play", "" >>, << "unpause", "" >> >>)

(* RECORD: after a pause it only lets the playback go on. *)
RECORD ==
  /\ At(IF plan.protocol = 1 THEN {"setup", "paused"} ELSE {"setup"})
  /\ sender' = IF plan.protocol = 1 THEN "streaming" ELSE sender
  /\ Receive((IF conn.paused THEN << >> ELSE Start(conn.stream_type))
             \o << << "play", "" >>, << "unpause", "" >>,
                   << "answer", IF plan.protocol = 1 THEN "stream" ELSE "ok" >> >>)
  /\ UNCHANGED conn

PAUSE ==
  /\ plan.protocol = 1 /\ At({"streaming"}) /\ sender' = "paused"
  /\ Receive(<< << "hold", "" >>, << "pause", "" >>, << "answer", "ok" >> >>)
  /\ UNCHANGED conn

(* SETRATEANCHORTIME; the anchor is the business of Playback. *)
SETRATEANCHORTIME(rate) ==
  /\ plan.protocol = 2 /\ At({"streaming", "paused"})
  /\ sender' = IF rate = 0 THEN "paused" ELSE "streaming"
  /\ Receive(IF rate = 0
             THEN << << "pause", "" >>, << "hold", "" >>, << "answer", "ok" >> >>
             ELSE << << "unpause", "" >>, << "play", "" >>, << "answer", "ok" >> >>)
  /\ UNCHANGED conn

(* Mutant: every TEARDOWN leaves the session paused. *)
TEARDOWNPauses(has_streams) ==
  /\ has_streams => plan.protocol = 2
  /\ At(IF has_streams THEN {"streaming", "paused"}
        ELSE {"setup", "streaming", "paused", "torn"})
  /\ sender' = IF has_streams THEN "torn" ELSE "ended"
  /\ Receive(ReceiverStop \o << << "pause", "" >>, << "answer", "ok" >> >>)
  /\ UNCHANGED conn

(* TEARDOWN of the streams, after which the session counts as paused, or   *)
(* of the session.                                                         *)
TEARDOWN(has_streams) ==
  /\ has_streams => plan.protocol = 2
  /\ At(IF has_streams THEN {"streaming", "paused"}
        ELSE {"setup", "streaming", "paused", "torn"})
  /\ sender' = IF has_streams THEN "torn" ELSE "ended"
  /\ Receive(ReceiverStop \o << << IF has_streams THEN "pause" ELSE "unpause", "" >>,
                                << "answer", "ok" >> >>)
  /\ UNCHANGED conn

(* The connection is lost: of the cleanup of the client task what it does to *)
(* the receiver, the event port and the connection; then the next one.      *)
EndOfConnection == << << "eventstop", "" >>, << "free", "" >> >>
DISCONNECT ==
  /\ conn.id < plan.connections /\ sender' = "new"
  /\ Receive(ReceiverStop \o EndOfConnection)
  /\ UNCHANGED conn

Request == ANNOUNCE \/ SETUP1 \/ SETUP2 \/ SETUPStreams(96) \/ SETUPStreams(103) \/ RECORD
           \/ PAUSE \/ SETRATEANCHORTIME(0) \/ SETRATEANCHORTIME(1) \/ TEARDOWN(TRUE)
           \/ TEARDOWN(FALSE) \/ DISCONNECT

-----------------------------------------------------------------------------
(* Steps that work on the streams. *)
outside == << plan, sender, conn, event, promise >>

(* Mutant: the old stream goes on. *)
SwitchOnly ==
  /\ Doing("type")
  /\ key' = [key EXCEPT ![Arg] = key[stream]]
  /\ Then(<< << "select", Arg >> >>)
  /\ UNCHANGED << outside, left, stream, running, port, task, decoder, playing >>

(* audio_receiver_set_stream_type: the other stream takes over the codec   *)
(* and the key; one that runs is stopped first.                            *)
SwitchType ==
  /\ Doing("type")
  /\ key' = [key EXCEPT ![Arg] = key[stream]]
  /\ Then((IF Arg # stream /\ running[stream] THEN Stop(stream) ELSE << >>)
          \o << << "select", Arg >> >>)
  /\ UNCHANGED << outside, left, stream, running, port, task, decoder, playing >>

Select ==
  /\ Doing("select") /\ stream' = Arg /\ Done
  /\ UNCHANGED << outside, left, running, port, task, decoder, key, playing >>

(* audio_receiver_start: "always stop and restart fresh". *)
Restart ==
  /\ Doing("restart")
  /\ Then(IF running[Arg] THEN Stop(Arg) ELSE << >>)
  /\ UNCHANGED << outside, left, receiver >>

Alive(s) == \E t \in TasksOf(s) : task[t] # "none"

(* The wait for the tasks of s: they are gone, or those that are not have  *)
(* been in the network for a second.                                       *)
Waited(s) == \A t \in TasksOf(s) : task[t] \in {"none", "blocked"}

(* realtime_start, buffered_start: nothing when it runs; else wait for the *)
(* tasks of the last run to be gone, and fail if they are not.             *)
Begin ==
  /\ Doing("begin")
  /\ \/ /\ running[Arg] /\ Done
     \/ /\ ~running[Arg] /\ ~Alive(Arg)
        /\ Then(<< << "bind", Arg >> >>)
     \/ /\ ~running[Arg] /\ Alive(Arg) /\ Waited(Arg)
        /\ Fail
  /\ UNCHANGED << outside, left, receiver >>

(* The port asked for, or any when that is 0; the stack may have none.  The *)
(* first start of a SETUP asks for 0, and takes the port it gets.           *)
Asked(s) == IF s = "realtime" THEN conn.data_port ELSE conn.buffered_port
Wanted(s) == IF s = "buffered" /\ Len(todo) > 1 /\ todo[2][1] = "bufferedport"
             THEN 0 ELSE Asked(s)
Bind ==
  /\ Doing("bind")
  /\ \/ /\ \E p \in IF Wanted(Arg) = 0 THEN Ports ELSE {Wanted(Arg)} :
             port' = [port EXCEPT ![Arg] = p]
        /\ running' = [running EXCEPT ![Arg] = TRUE]
        /\ Then(IF Arg = "buffered" THEN << << "create", "buff" >> >>
                ELSE << << "create", "recv" >> >>
                     \o IF conn.control_port THEN << << "create", "ctrl" >> >> ELSE << >>)
        /\ UNCHANGED left
     \/ Fault /\ Fail /\ UNCHANGED << port, running >>
  /\ UNCHANGED << outside, stream, task, decoder, key, playing >>

(* xTaskCreate; when it fails what was opened is closed again, and the     *)
(* receiver task, if it was there already, waited for.                     *)
Create ==
  /\ Doing("create")
  /\ \/ /\ task' = [task EXCEPT ![Arg] = "check"] /\ Done
        /\ UNCHANGED << left, running, port >>
     \/ /\ Fault /\ running' = [running EXCEPT ![StreamOf(Arg)] = FALSE]
        /\ port' = [port EXCEPT ![StreamOf(Arg)] = 0]
        /\ todo' = << << "join", StreamOf(Arg) >>, << "answer", "error" >> >>
        /\ UNCHANGED task
  /\ UNCHANGED << outside, stream, decoder, key, playing >>

(* realtime_stop, buffered_stop: the flag, the sockets, the wait. *)
Halt ==
  /\ Doing("halt")
  /\ IF running[Arg] \/ Alive(Arg)
       THEN running' = [running EXCEPT ![Arg] = FALSE] /\ Done
       ELSE todo' = Tail(Tail(Tail(todo))) /\ UNCHANGED running
  /\ UNCHANGED << outside, left, stream, port, task, decoder, key, playing >>

Close ==
  /\ Doing("close") /\ port' = [port EXCEPT ![Arg] = 0] /\ Done
  /\ UNCHANGED << outside, left, stream, running, task, decoder, key, playing >>

(* Mutant: without a limit. *)
JoinForever ==
  /\ Doing("join") /\ ~Alive(Arg) /\ Done
  /\ UNCHANGED << outside, left, receiver >>

Join ==
  /\ Doing("join") /\ Waited(Arg) /\ Done
  /\ UNCHANGED << outside, left, receiver >>

(* audio_receiver_set_format: the old decoder is freed, a new one made.    *)
Format ==
  /\ Doing("format") /\ decoder' = TRUE /\ Done
  /\ UNCHANGED << outside, left, stream, running, port, task, key, playing >>

(* audio_receiver_set_encryption: both streams. *)
SetKey ==
  /\ Doing("key") /\ key' = [s \in Streams |-> Arg] /\ Done
  /\ UNCHANGED << outside, left, stream, running, port, task, decoder, playing >>

(* The end of audio_receiver_stop. *)
ClearReceiver ==
  /\ Doing("clear") /\ decoder' = FALSE /\ key' = [s \in Streams |-> "none"] /\ Done
  /\ UNCHANGED << outside, left, stream, running, port, task, playing >>

SetPlaying ==
  /\ Doing("play") \/ Doing("hold")
  /\ playing' = (Op = "play") /\ Done
  /\ UNCHANGED << outside, left, stream, running, port, task, decoder, key >>

-----------------------------------------------------------------------------
(* Steps that work on the connection. *)
SetPaused ==
  /\ Doing("pause") \/ Doing("unpause")
  /\ conn' = [conn EXCEPT !.paused = (Op = "pause")] /\ Done
  /\ UNCHANGED << plan, sender, event, promise, left, receiver >>

(* ensure_stream_ports, with a port that is free at the moment. *)
EnsurePorts ==
  /\ Doing("ports") /\ Done
  /\ \E p \in Ports \ {port["realtime"]} :
       conn' = [conn EXCEPT !.control_port = TRUE,
                            !.data_port = IF Arg = "realtime" /\ @ = 0 THEN p ELSE @]
  /\ UNCHANGED << plan, sender, event, promise, left, receiver >>

TakeBufferedPort ==
  /\ Doing("bufferedport") /\ Done
  /\ conn' = [conn EXCEPT !.buffered_port = port["buffered"]]
  /\ UNCHANGED << plan, sender, event, promise, left, receiver >>

(* start_ntp_timing_or_fail. *)
StartNtp ==
  /\ Doing("ntp")
  /\ \/ Done /\ UNCHANGED left
     \/ Fault /\ Fail
  /\ UNCHANGED << outside, receiver >>

(* Mutant: a task of the last connection is not waited for. *)
EventPortAtOnce ==
  /\ Doing("event") /\ Done
  /\ IF conn.event_port
       THEN UNCHANGED << event, conn >>
       ELSE /\ event' = [handle |-> TRUE, should_stop |-> FALSE,
                         listeners |-> event.listeners \cup {conn.id}]
            /\ conn' = [conn EXCEPT !.event_port = TRUE]
  /\ UNCHANGED << left, plan, sender, promise, receiver >>

(* The event port of the connection, once: a task of the last connection   *)
(* is told to stop and waited for.                                         *)
EventPort ==
  /\ Doing("event")
  /\ \/ conn.event_port /\ Done /\ UNCHANGED << event, conn, left >>
     \/ /\ ~conn.event_port /\ event.handle /\ ~event.should_stop
        /\ event' = [event EXCEPT !.should_stop = TRUE]
        /\ UNCHANGED << todo, conn, left >>
     \/ /\ ~conn.event_port /\ ~event.handle
        /\ event' = [handle |-> TRUE, should_stop |-> FALSE,
                     listeners |-> event.listeners \cup {conn.id}]
        /\ conn' = [conn EXCEPT !.event_port = TRUE] /\ Done /\ UNCHANGED left
     \/ /\ ~conn.event_port /\ Fault /\ UNCHANGED << event, conn >>
        /\ \/ Done                        \* no socket: it goes on without
           \/ /\ event.should_stop \/ ~event.handle
              /\ Fail                     \* the wait gives up, or no task
  /\ UNCHANGED << plan, sender, promise, receiver >>

(* rtsp_stop_event_port_task, which may give up too. *)
StopEvent ==
  /\ Doing("eventstop")
  /\ event' = [event EXCEPT !.should_stop = @ \/ event.handle] /\ Done
  /\ UNCHANGED << plan, sender, conn, promise, left, receiver >>

(* rtsp_conn_free; the next connection. *)
Free ==
  /\ Doing("free") /\ Done
  /\ conn' = NewConn(conn.id + 1) /\ promise' = Nothing
  /\ UNCHANGED << plan, sender, event, left, receiver >>

Answer ==
  /\ Doing("answer") /\ Done
  /\ promise' = IF Arg = "stream"
                THEN [stream |-> StreamOfType(conn.stream_type),
                      port |-> Asked(StreamOfType(conn.stream_type))]
                ELSE IF Arg = "error" \/ sender \in {"torn", "ended"} THEN Nothing ELSE promise
  /\ sender' = IF Arg # "error" THEN sender
               ELSE IF plan.protocol = 1 THEN "ended"
               ELSE IF sender = "setup" THEN "new" ELSE "torn"
  /\ UNCHANGED << plan, conn, event, left, receiver >>

-----------------------------------------------------------------------------
(* The stream tasks. *)
Move(t, from, to) == task[t] = from /\ task' = [task EXCEPT ![t] = to]
inside == << plan, sender, conn, event, promise, left, todo, stream, running, port, decoder,
             key, playing >>

(* while (stream->running); a receive on a closed socket is an error, on   *)
(* which the realtime tasks end and the buffered one looks again.          *)
Check(t) ==
  /\ Move(t, "check", IF running[StreamOf(t)] THEN "blocked" ELSE "none")
  /\ UNCHANGED inside

Wake(t) ==
  /\ Move(t, "blocked", IF port[StreamOf(t)] = 0 /\ t # "buff" THEN "none" ELSE "check")
  /\ UNCHANGED inside

(* A packet of the sender, on the port it was told, and a decoder for it;  *)
(* the control task only hands its packets on.                             *)
Packet(t) ==
  /\ t # "ctrl" /\ decoder /\ promise.port # 0
  /\ promise.stream = StreamOf(t) /\ promise.port = port[StreamOf(t)]
  /\ Move(t, "blocked", "decode")
  /\ UNCHANGED inside

(* audio_stream_process_frame to its end. *)
Decoded(t) ==
  /\ Move(t, "decode", "check")
  /\ UNCHANGED inside

(* event_port_task ends when it is told to, or its socket was closed. *)
EventTaskEnds(n) ==
  /\ n \in event.listeners /\ (event.should_stop \/ n # conn.id)
  /\ event' = [event EXCEPT !.handle = FALSE, !.listeners = @ \ {n}]
  /\ UNCHANGED << plan, sender, conn, promise, left, todo, receiver >>

-----------------------------------------------------------------------------
OnStreams == SwitchType \/ Select \/ Restart \/ Begin \/ Bind \/ Create \/ Halt \/ Close
             \/ Join \/ Format \/ SetKey \/ ClearReceiver \/ SetPlaying
OnConnection == SetPaused \/ EnsurePorts \/ TakeBufferedPort \/ StartNtp \/ EventPort
                \/ StopEvent \/ Free \/ Answer
Handler == OnStreams \/ OnConnection
StreamTask(t) == Check(t) \/ Wake(t) \/ Packet(t) \/ Decoded(t)

Next == Request \/ Handler \/ (\E t \in Tasks : StreamTask(t))
        \/ \E n \in event.listeners : EventTaskEnds(n)

Spec == Init /\ [][Next]_vars

(* The handler, and a task that is not in a network call, go on; an event  *)
(* port task looks at its flag once a second.                              *)
FairSpec ==
  /\ Spec /\ WF_vars(Handler)
  /\ \A t \in Tasks : WF_vars(Check(t)) /\ WF_vars(Decoded(t))
  /\ \A n \in 1 .. 3 : WF_vars(EventTaskEnds(n))

-----------------------------------------------------------------------------
TypeOK ==
  /\ conn.stream_type \in {0, 96, 103} /\ conn.paused \in BOOLEAN
  /\ conn.data_port \in Ports \cup {0} /\ conn.buffered_port \in Ports \cup {0}
  /\ stream \in Streams /\ running \in [Streams -> BOOLEAN]
  /\ port \in [Streams -> Ports \cup {0}]
  /\ task \in [Tasks -> {"none", "check", "blocked", "decode"}]
  /\ decoder \in BOOLEAN /\ playing \in BOOLEAN
  /\ key \in [Streams -> {"none", "current", "session"}]
  /\ event.listeners \subseteq 1 .. plan.connections

(* Whatever the sender asks for and in whatever order, and though a stop   *)
(* may give up on a task: the two streams implement Feeder, which lets     *)
(* them share a decoder and its buffers without a lock.                    *)
F == INSTANCE Feeder WITH
       open <- {s \in Streams : port[s] # 0},
       feeding <- {t \in Tasks : task[t] = "decode"}

OneFeeder == F!Spec

(* The decoder is freed, and replaced, only while no task decodes with it, *)
(* if the sender sets up a stream only after it has torn down the last.    *)
DecoderKept ==
  [][plan.orderly /\ (ClearReceiver \/ Format) => \A t \in Tasks : task[t] # "decode"]_vars

(* A sender that was told where to send its audio, and has no request      *)
(* open, is heard: the stream it asked for runs, on the port it was told,  *)
(* with a decoder and its key, and plays unless it was paused.             *)
SenderHeard ==
  plan.orderly /\ todo = << >> /\ promise # Nothing =>
    LET s == promise.stream
    IN  /\ stream = s /\ running[s] /\ port[s] = promise.port
        /\ decoder /\ key[s] = "current"
        /\ \A t \in TasksOf(s) : task[t] # "none"
        /\ playing = (sender = "streaming")

(* The event port a connection was given is served, by one task, until the *)
(* connection ends: that of an earlier connection neither stays beside it  *)
(* nor takes it away when it ends.                                         *)
EventPortServed ==
  /\ Cardinality(event.listeners) <= 1
  /\ conn.event_port /\ ~Doing("free")
       => event.handle /\ event.listeners = {conn.id} /\ ~event.should_stop

(* The types, and the event port, through every order of requests.         *)
SessionInv == TypeOK /\ EventPortServed

(* Every request is answered, though a stream task may be blocked in the   *)
(* network for good.                                                       *)
Answered == todo # << >> ~> todo = << >>
=============================================================================
