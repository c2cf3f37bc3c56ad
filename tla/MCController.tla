---------------------------- MODULE MCController ----------------------------
(* The controller has no constants: the module names it for TLC. *)
EXTENDS Controller
=============================================================================
