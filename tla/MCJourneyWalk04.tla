--------------------------- MODULE MCJourneyWalk04 --------------------------
EXTENDS JourneyWalk04

CONSTANTS food, hall

MCZeroCost == [b \in Building |-> [r \in Resource |-> 0]]
MCByLevel  == [l \in TargetLevel |-> l]
MCMatching == [r \in Resource |-> hall]

(* Every term of a journey varies: no route, a short and a longer one; slow   *)
(* and fast workers; gathering shorter and longer than the way.               *)
MCTerms == [resource : {food}, dispatchedAt : 0..1, routeEdges : 0..MaxEdges,
            travelPerEdge : 1..2, duration : GatherDuration, yield : {1, 3},
            recalledAt : {NotRecalled}]
=============================================================================
