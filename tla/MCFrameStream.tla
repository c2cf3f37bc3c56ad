--------------------------- MODULE MCFrameStream ---------------------------
(* Two readers for TLC. *)
EXTENDS FrameStream, TLC
CONSTANTS r1, r2
AnyReader == Permutations({r1, r2})
=============================================================================
