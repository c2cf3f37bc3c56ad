--------------------------- MODULE ExclusiveOutput ---------------------------
(***************************************************************************)
(* What the router promises: one exclusive output device that changes      *)
(* hands only through silence, and is only taken by the player that is     *)
(* wanted at that moment.                                                  *)
(***************************************************************************)
CONSTANTS Players, NoPlayer

VARIABLES
    want,   \* the player asked for
    owner   \* the player that has the device

vars == <<want, owner>>

Init == want = NoPlayer /\ owner = NoPlayer

Ask == want' \in Players \cup {NoPlayer} /\ UNCHANGED owner

Take ==
    /\ owner = NoPlayer /\ want # NoPlayer
    /\ owner' = want
    /\ UNCHANGED want

(* Given up, or the player died.                                           *)
Leave == owner # NoPlayer /\ owner' = NoPlayer /\ UNCHANGED want

Next == Ask \/ Take \/ Leave

Spec == Init /\ [][Next]_vars
=============================================================================
