------------------------------ MODULE MCClocks ------------------------------
(* Instances of Clocks. *)
EXTENDS Clocks

CONSTANTS a, b
MCOffset == [m \in {a, b} |-> IF m = a THEN 30 ELSE 130]
MCClock == [s \in {a, b} |-> IF s = a THEN 10 ELSE -10]
=============================================================================
