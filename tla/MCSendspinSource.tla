-------------------------- MODULE MCSendspinSource --------------------------
(* Model values for SendspinSource. *)
EXTENDS SendspinSource, TLC

CONSTANTS c1, c2, c3, c4

TwoCaptures == {c1, c2}
ThreeCaptures == {c1, c2, c3}
FourCaptures == {c1, c2, c3, c4}
AnyCapture == Permutations(Captures)

NoSelector == {}
OneSelector == {"controller"}
TwoSelectors == {"controller", "output"}
=============================================================================
