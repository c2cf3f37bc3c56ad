---------------------------- MODULE MCAmplifier ----------------------------
(* Constants of the amplifier for TLC. *)
EXTENDS Amplifier
CONSTANT r1
Few == {0, 3}
Usual == {50}
=============================================================================
