---------------------------- MODULE MCAudioRouter ----------------------------
(* The router for TLC: its players are fixed, its delays are bounded. *)
EXTENDS AudioRouter
=============================================================================
