------------------------------ MODULE MCSession ------------------------------
(* Instances of Session. *)
EXTENDS Session

Sender1 == [protocol |-> 1, orderly |-> TRUE, requests |-> 7, connections |-> 2, faults |-> 1]
Sender2 == [protocol |-> 2, orderly |-> TRUE, requests |-> 6, connections |-> 2, faults |-> 1]

(* Any request at any time. *)
Any1 == [Sender1 EXCEPT !.orderly = FALSE, !.requests = 4]
Any2 == [Sender2 EXCEPT !.orderly = FALSE, !.requests = 4]

Senders == {Sender1, Sender2, Any1, Any2}
=============================================================================
