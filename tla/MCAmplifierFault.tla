-------------------------- MODULE MCAmplifierFault --------------------------
(* The amplifier of the Esparagus board by itself. *)
EXTENDS Tas58xx

Spec == AmplifierInit /\ [][AmplifierNext]_amplifierVars
=============================================================================
