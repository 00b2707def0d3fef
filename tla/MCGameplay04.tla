---------------------------- MODULE MCGameplay04 ----------------------------
(* Small instances of Gameplay04 for TLC: one resource and one building that  *)
(* is its economy building, the barracks and the cathedral at once, so that   *)
(* completing it changes every term a later command captures.                 *)
EXTENDS Gameplay04

CONSTANTS food, hall, n1, n2, mine, field

MCBaseCost       == [b \in Building |-> [r \in Resource |-> 1]]
MCCostMultiplier == [l \in TargetLevel |-> 2 * l - 1]
MCBuildDuration  == [l \in TargetLevel |-> 1 + l]
MCMatching       == [r \in Resource |-> hall]
MCTwoNodes       == [l \in Location |-> <<n1, n2>>]
MCResourceAt     == [l \in Location |-> food]
MCEdgesTo        == [l \in Location |-> IF l = field THEN 0 ELSE 1]
=============================================================================
