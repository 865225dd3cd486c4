------------------------------ MODULE NtpClock ------------------------------
(***************************************************************************)
(* main/network/ntp_clock.c: the client that asks the timing port of an    *)
(* AirPlay 1 sender for its clock and takes, of the last measurements, the *)
(* one with the shortest round trip.  A measured offset is wrong by at     *)
(* most half of its round trip, its dispersion.                            *)
(***************************************************************************)
EXTENDS Integers, Sequences, FiniteSetsExt

CONSTANTS
  Senders,                 \* remote addresses
  Clock,                   \* [Senders -> Int], sender's time = local time + Clock
  Dispersions,             \* half round trips in use
  TIMING_HISTORY_SIZE, MIN_MEASUREMENTS,
  NoSender

ASSUME SenderAssumption ==
  NoSender \notin Senders /\ Clock \in [Senders -> Int] /\ Dispersions \subseteq Nat
ASSUME HistoryAssumption ==
  /\ MIN_MEASUREMENTS \in Nat \ {0} /\ TIMING_HISTORY_SIZE \in Nat
  /\ TIMING_HISTORY_SIZE >= MIN_MEASUREMENTS

VARIABLES
  ntp_running, remote,     \* ntp.running, ntp.remote_addr
  ntp_task,                \* none, receive, or store: it has received a response
  response,                \* that response
  history,                 \* the last measurements, oldest first
  ntp_offset, ntp_locked,
  call                     \* the call of start or stop in progress

ntp == << ntp_running, remote, ntp_task, response, history, ntp_offset, ntp_locked, call >>

Idle == [do |-> "nothing", to |-> NoSender]
NoResponse == [offset |-> 0, dispersion |-> 0]

NtpInit ==
  /\ ntp_running = FALSE /\ remote = NoSender /\ ntp_task = "none" /\ response = NoResponse
  /\ history = << >> /\ ntp_offset = 0 /\ ntp_locked = FALSE /\ call = Idle

-----------------------------------------------------------------------------
(* ntp_task.  A request is sent every 3 s; what of it arrives, how late    *)
(* and how often is the network's choice.  Each client has its own socket, *)
(* so a response is from the sender it was started for.                    *)
Respond ==
  /\ ntp_task = "receive" /\ ntp_running /\ ntp_task' = "store"
  /\ \E d \in Dispersions : \E e \in {-d, d} :
       response' = [offset |-> Clock[remote] + e, dispersion |-> d]
  /\ UNCHANGED << ntp_running, remote, history, ntp_offset, ntp_locked, call >>

(* What the ring holds of a history. *)
Newest(n, h) == SubSeq(h, Len(h) - Min({n, Len(h)}) + 1, Len(h))

(* Mutant: the last is the best. *)
LastOf(h) == {Len(h)}

(* The best of a history: least dispersion, the last received on a tie     *)
(* with it (on another, the lower slot of the ring, any of them here).     *)
Best(h) ==
  LET best == {i \in DOMAIN h : \A j \in DOMAIN h : h[i].dispersion <= h[j].dispersion}
  IN  IF Len(h) \in best THEN {Len(h)} ELSE best

process_timing_response ==
  /\ ntp_task = "store" /\ ntp_task' = "receive"
  /\ history' = Newest(TIMING_HISTORY_SIZE, Append(history, response))
  /\ \E i \in Best(history') : ntp_offset' = history'[i].offset
  /\ ntp_locked' = (ntp_locked \/ Len(history') >= MIN_MEASUREMENTS)
  /\ response' = NoResponse
  /\ UNCHANGED << ntp_running, remote, call >>

(* The loop ends when the client is stopped. *)
NtpTaskEnds ==
  /\ ntp_task = "receive" /\ ~ntp_running /\ ntp_task' = "none"
  /\ UNCHANGED << ntp_running, remote, response, history, ntp_offset, ntp_locked, call >>

-----------------------------------------------------------------------------
(* ntp_clock_stop: the flag and the socket, the wait, the reset. *)
StopNtp(then) ==
  /\ call = Idle
  /\ IF ntp_running
       THEN ntp_running' = FALSE /\ call' = then
       ELSE UNCHANGED << ntp_running, call >>
  /\ UNCHANGED << remote, ntp_task, response, history, ntp_offset, ntp_locked >>

ntp_stop == StopNtp([do |-> "stop", to |-> NoSender])

Stopped ==
  /\ call.do \in {"stop", "switch"} /\ ntp_task = "none"
  /\ ntp_locked' = FALSE /\ history' = << >>
  /\ call' = IF call.do = "stop" THEN Idle ELSE [call EXCEPT !.do = "start"]
  /\ UNCHANGED << ntp_running, remote, ntp_task, response, ntp_offset >>

(* ntp_clock_start_client: the same sender keeps its client, for another   *)
(* one it is stopped first.                                                *)
ntp_start(s) ==
  IF ntp_running
    THEN IF remote = s THEN call = Idle /\ UNCHANGED ntp
         ELSE StopNtp([do |-> "switch", to |-> s])
    ELSE /\ call = Idle /\ call' = [do |-> "start", to |-> s]
         /\ UNCHANGED << ntp_running, remote, ntp_task, response, history, ntp_offset,
                         ntp_locked >>

Started ==
  /\ call.do = "start" /\ ntp_task = "none"
  /\ remote' = call.to /\ ntp_running' = TRUE /\ ntp_task' = "receive" /\ call' = Idle
  /\ ntp_locked' = FALSE /\ ntp_offset' = 0 /\ history' = << >>
  /\ UNCHANGED response

NtpNext == Respond \/ process_timing_response \/ NtpTaskEnds \/ Stopped \/ Started

-----------------------------------------------------------------------------
NtpTypeOK ==
  /\ ntp_running \in BOOLEAN /\ remote \in Senders \cup {NoSender}
  /\ ntp_task \in {"none", "receive", "store"} /\ ntp_locked \in BOOLEAN /\ ntp_offset \in Int
  /\ Len(history) <= TIMING_HISTORY_SIZE
  /\ call.do \in {"nothing", "stop", "switch", "start"}
=============================================================================
