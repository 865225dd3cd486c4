--------------------------- MODULE MCResendWindow ---------------------------
(* Instances of ResendWindow: a window of three in a space of 18 numbers   *)
(* that wraps after the third of the six packets.                          *)
EXTENDS ResendWindow
=============================================================================
