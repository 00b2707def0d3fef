------------------------ MODULE MCChallengeExchange -------------------------
(* Small instances of ChallengeExchange for TLC. *)
EXTENDS ChallengeExchange, TLC

CONSTANTS a1, a2, a3

Symmetry == Permutations(Attempt)
=============================================================================
