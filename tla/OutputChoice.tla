----------------------------- MODULE OutputChoice -----------------------------
(***************************************************************************)
(* What the output choice promises, whoever makes it and however: one      *)
(* choice, a file that only ever takes the value chosen at that moment,    *)
(* and a publisher that only ever moves toward what the file says.         *)
(***************************************************************************)
CONSTANTS Publishers

VARIABLES choice, file, published

vars == <<choice, file, published>>

Targets == {"console", "downstairs"}

Full(t) == IF t = "downstairs" THEN Publishers ELSE {}

Toward(t, from, to) ==
    IF t = "downstairs" THEN from \subseteq to ELSE to \subseteq from

Init == choice \in Targets /\ file = choice /\ published = Full(choice)

(* The user, or the rollback of a failed request, picks an output.         *)
Choose == choice' \in Targets /\ UNCHANGED <<file, published>>

(* A handler records the current choice, or moves the publisher, or both.  *)
Apply ==
    /\ file' \in {file, choice}
    /\ published' \in SUBSET Publishers
    /\ Toward(file', published, published')
    /\ UNCHANGED choice

Restart == choice' = file /\ published' = Full(file) /\ UNCHANGED file

Next == Choose \/ Apply \/ Restart

Spec == Init /\ [][Next]_vars
=============================================================================
