----------------------------- MODULE DacpClient -----------------------------
(***************************************************************************)
(* DACP, the remote control of an AirPlay 1 sender (dacp_client.c).  The   *)
(* session is set by the RTSP task with every request and cleared when the *)
(* connection ends; a worker takes commands from a bounded queue, the      *)
(* discovery of the sender's port among them.  The mutex guards the        *)
(* session, and is given back before any network call.                     *)
(***************************************************************************)
EXTENDS Integers, Sequences, FiniteSets

CONSTANTS DacpSenders,       \* AirPlay 1 senders: one DACP-ID, token and address each
          NoId,              \* the empty DACP-ID
          CMD_QUEUE_LEN,
          MaxSessions        \* bound: sessions set and cleared

ASSUME DacpAssumption ==
  NoId \notin DacpSenders /\ CMD_QUEUE_LEN \in Nat \ {0} /\ MaxSessions \in Nat

VARIABLES
  dacp,                      \* s_dacp_id, s_active_remote (its sender), s_dacp_port, flags
  cmds,                      \* s_cmd_queue
  worker,                    \* dacp_worker_task: what it does without the mutex
  reached,                   \* the last request: whose token, at whose address and port
  sessions

dacpVars == << dacp, cmds, worker, reached, sessions >>

Discover == "discover"
NoPort == NoId               \* a port is named by the sender that listens on it
WorkerIdle == [do |-> "idle"]
Cleared == [id |-> NoId, remote |-> NoId, ip |-> NoId, port |-> NoPort,
            valid |-> FALSE, failed |-> FALSE]

(* dacp_init. *)
DacpInit ==
  /\ dacp = Cleared /\ cmds = << >> /\ worker = WorkerIdle
  /\ reached = << >> /\ sessions = 0

-----------------------------------------------------------------------------
(* dacp_set_session: under the mutex, nothing to do for the sender it has,  *)
(* else all anew; then, without it, the discovery goes in front of the      *)
(* commands, and a full queue swallows it.                                  *)
SameSession(s) == dacp.id = s /\ dacp.valid
dacp_set_session(s) ==
  /\ sessions < MaxSessions /\ sessions' = sessions + 1
  /\ dacp' = IF SameSession(s) THEN [dacp EXCEPT !.remote = s, !.ip = s]
             ELSE [Cleared EXCEPT !.id = s, !.remote = s, !.ip = s, !.valid = TRUE]
  /\ UNCHANGED << cmds, worker, reached >>
ToFront(c) == IF Len(cmds) < CMD_QUEUE_LEN THEN << c >> \o cmds ELSE cmds
PostDiscovery ==
  /\ cmds' = ToFront(Discover)
  /\ UNCHANGED << dacp, worker, reached, sessions >>

(* dacp_clear_session: the address is the one thing it keeps. *)
dacp_clear_session ==
  /\ sessions < MaxSessions /\ sessions' = sessions + 1
  /\ dacp' = [Cleared EXCEPT !.ip = dacp.ip]
  /\ UNCHANGED << cmds, worker, reached >>

(* send_dacp_request, dacp_send_*: dropped when the queue is full. *)
Enqueued(c) == IF Len(cmds) < CMD_QUEUE_LEN THEN Append(cmds, c) ELSE cmds

(* dacp_is_active: false too if the mutex is not free within 50 ms, which  *)
(* no holder ever keeps that long.                                         *)
dacp_is_active == dacp.valid

-----------------------------------------------------------------------------
(* dacp_worker_task: a command from the queue, up to the end of the first  *)
(* critical section of discover_dacp_port or execute_dacp_request.         *)
StartDiscovery ==
  IF dacp.port # NoPort \/ dacp.failed \/ dacp.id = NoId
  THEN WorkerIdle
  ELSE [do |-> "query", id |-> dacp.id]
(* A mutant: the worker remembers the token and reads the address later. *)
StartRequestPart ==
  IF ~dacp.valid \/ dacp.port = NoPort
  THEN WorkerIdle
  ELSE [do |-> "get", remote |-> dacp.remote, ip |-> NoId, port |-> dacp.port]
StartRequest ==
  IF ~dacp.valid \/ dacp.port = NoPort
  THEN WorkerIdle
  ELSE [do |-> "get", remote |-> dacp.remote, ip |-> dacp.ip, port |-> dacp.port]
Work ==
  /\ worker = WorkerIdle /\ cmds # << >>
  /\ cmds' = Tail(cmds)
  /\ worker' = IF Head(cmds) = Discover THEN StartDiscovery ELSE StartRequest
  /\ UNCHANGED << dacp, reached, sessions >>

(* discover_dacp_port: the answer of the network, stored under the mutex   *)
(* for whichever session is current by then.                               *)
Found(there) ==
  /\ worker.do = "query" /\ worker' = WorkerIdle
  /\ dacp' = IF there THEN [dacp EXCEPT !.port = worker.id]
             ELSE [dacp EXCEPT !.port = NoPort, !.failed = TRUE]
  /\ UNCHANGED << cmds, reached, sessions >>

(* execute_dacp_request: the HTTP GET, and the port forgotten when it fails. *)
Request(ok) ==
  /\ worker.do = "get" /\ worker' = WorkerIdle
  /\ reached' = << worker.remote, IF worker.ip = NoId THEN dacp.ip ELSE worker.ip >>
  /\ dacp' = IF ok THEN dacp ELSE [dacp EXCEPT !.port = NoPort]
  /\ UNCHANGED << cmds, sessions >>

DacpNext == Work \/ \E b \in BOOLEAN : Found(b) \/ Request(b)

-----------------------------------------------------------------------------
DacpTypeOK ==
  /\ {dacp.id, dacp.remote, dacp.ip, dacp.port} \subseteq DacpSenders \cup {NoId}
  /\ dacp.valid \in BOOLEAN /\ dacp.failed \in BOOLEAN
  /\ Len(cmds) <= CMD_QUEUE_LEN /\ worker.do \in {"idle", "query", "get"}
  /\ sessions \in 0 .. MaxSessions

(* A sender is never shown the token of another: the two are copied under  *)
(* one lock, however the session changes while the request waits.          *)
TokenToItsSender == reached # << >> => reached[1] = reached[2]
=============================================================================
