--------------------------- MODULE MCOutputIntent ---------------------------
(* Model values for OutputIntent. *)
EXTENDS OutputIntent, TLC

CONSTANTS r1, r2

TwoRequests == {r1, r2}
Swap == Permutations(TwoRequests)

WithoutExceptions == {"started", "missing", "cancelled"}
EveryOutcome == Outcomes
=============================================================================
