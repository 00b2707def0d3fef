-------------------------- MODULE MCSessionFamily ---------------------------
(* Small instances of SessionFamily for TLC. *)
EXTENDS SessionFamily, TLC

CONSTANTS r1, r2

Symmetry == Permutations(Request)
=============================================================================
