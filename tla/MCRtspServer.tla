---------------------------- MODULE MCRtspServer ----------------------------
(* Instances of RtspServer with three connections. *)
EXTENDS RtspServer

CONSTANTS a, b, c

ThreeClients == {a, b, c}

(* Connections at any time, the first one AirPlay 1 with a remote. *)
Anytime ==
  [v1 |-> {a}, remote |-> {a}, arrive |-> {"backlog", "begin", "serve"} \cup Cleanup,
   fickle |-> TRUE, presses |-> 0, restarts |-> 0]

(* Senders that reconnect in the grace period of their predecessor. *)
Reconnects ==
  [v1 |-> {a, b, c}, remote |-> {a, b}, arrive |-> {"phase1", "phase2"}, fickle |-> FALSE,
   presses |-> 1, restarts |-> 0]

(* One connection after the other, and the server restarted. *)
Sequential ==
  [v1 |-> {a}, remote |-> {a}, arrive |-> {}, fickle |-> TRUE, presses |-> 1, restarts |-> 1]

Served == {Anytime, Reconnects, Sequential}

(* AirPlay 2 only. *)
Takeover == {[Anytime EXCEPT !.v1 = {}, !.remote = {}]}
=============================================================================
