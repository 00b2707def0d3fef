-------------------------- MODULE MCRecoveryLedger ---------------------------
(* Small instances of RecoveryLedger for TLC. *)
EXTENDS RecoveryLedger, TLC

CONSTANTS r1, r2, c1, c2

OneDelay == <<1>>

Symmetry == Permutations(Call) \cup Permutations(Request)
=============================================================================
