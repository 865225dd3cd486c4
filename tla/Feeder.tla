------------------------------- MODULE Feeder -------------------------------
(***************************************************************************)
(* What the rest of the device may take for granted about the two audio    *)
(* streams: they share one decoder, one decryption buffer and one decode   *)
(* buffer without a lock, so at most one of them has a socket open, and a  *)
(* task takes audio only from an open one, alone.                          *)
(***************************************************************************)
EXTENDS FiniteSets

CONSTANTS Streams, Tasks

VARIABLES
  open,       \* the streams whose socket is open
  feeding     \* the tasks that are between a packet and the frame pool

Init == open = {} /\ feeding = {}

Open(s) == open = {} /\ feeding = {} /\ open' = {s} /\ UNCHANGED feeding
Close(s) == s \in open /\ open' = open \ {s} /\ UNCHANGED feeding
Take(t) == open # {} /\ feeding = {} /\ feeding' = {t} /\ UNCHANGED open
Deliver(t) == t \in feeding /\ feeding' = feeding \ {t} /\ UNCHANGED open

Next == \/ \E s \in Streams : Open(s) \/ Close(s)
        \/ \E t \in Tasks : Take(t) \/ Deliver(t)

Spec == Init /\ [][Next]_<< open, feeding >>
=============================================================================
