--------------------------- MODULE MCPublication ----------------------------
(* Small instances of Publication for TLC. *)
EXTENDS Publication, TLC

CONSTANTS r1, r2

TwoRunners == Permutations({r1, r2})
=============================================================================
