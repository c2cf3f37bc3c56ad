--------------------------- MODULE MCPlayRequests ---------------------------
(* Model values for PlayRequests. *)
EXTENDS PlayRequests, TLC

CONSTANTS c1, c2, s1

TwoCallers == {c1, c2}
OneStopper == {s1}
=============================================================================
