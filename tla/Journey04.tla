------------------------------ MODULE Journey04 -----------------------------
(* A worker's journey (gameplay04/workerJourney.ts): out to a node, gather,   *)
(* and back.  A journey is the captured terms of its dispatch; everything     *)
(* else about it is derived from those terms and the clock.                   *)
EXTENDS Policy04

CONSTANT MaxEdges    \* MAX_ROUTE_EDGES

ASSUME JourneyAssumption == MaxEdges \in Nat

NotRecalled == -1    \* recalledAt: null

Journey == [resource      : Resource,
            dispatchedAt  : Nat,
            routeEdges    : 0..MaxEdges,
            travelPerEdge : Nat \ {0},
            duration      : GatherDuration,
            yield         : Nat \ {0},
            recalledAt    : Nat \cup {NotRecalled}]

-----------------------------------------------------------------------------
Travel(j) == j.routeEdges * j.travelPerEdge

ArrivesAt(j) == j.dispatchedAt + Travel(j)

AutomaticStop(j) == ArrivesAt(j) + j.duration

Stop(j) == IF j.recalledAt = NotRecalled THEN AutomaticStop(j) ELSE j.recalledAt

(* A worker turned back on its way out walks back only what it has walked. *)
ReturnsAt(j) ==
    Stop(j) + (IF Stop(j) < ArrivesAt(j) THEN Stop(j) - j.dispatchedAt ELSE Travel(j))

(* What validateAndDeriveJourney accepts of a journey: the captured travel and *)
(* yield are those of some level.                                             *)
JourneyValid(j) ==
    /\ j \in Journey
    /\ \E level \in Level : j.travelPerEdge = TravelAt(level)
    /\ \E level \in Level : j.yield = YieldAt(level)
    /\ j.recalledAt # NotRecalled =>
          j.recalledAt >= j.dispatchedAt /\ j.recalledAt < AutomaticStop(j)

(* requireNow: the clock may not be behind the journey's own events. *)
Observable(j, now) ==
    /\ now >= j.dispatchedAt
    /\ j.recalledAt # NotRecalled => now >= j.recalledAt

DispatchJourney(resource, now, edges, duration, completed) ==
    [resource      |-> resource,
     dispatchedAt  |-> now,
     routeEdges    |-> edges,
     travelPerEdge |-> TravelPerEdge(completed),
     duration      |-> duration,
     yield         |-> GatheringYield(resource, completed),
     recalledAt    |-> NotRecalled]

-----------------------------------------------------------------------------
(* observeJourney04: phase, cargo and the next moment something happens. *)
GatherTime(j, now) ==
    LET until == IF now < Stop(j) THEN now ELSE Stop(j)
    IN  IF until > ArrivesAt(j) THEN until - ArrivesAt(j) ELSE 0

Earned(j, now) == (GatherTime(j, now) \div GatherQuantum) * j.yield

Complete(j, now) == now >= ReturnsAt(j)

Phase(j, now) ==
    IF now >= ReturnsAt(j) THEN "complete"
    ELSE IF now >= Stop(j) THEN "returning"
    ELSE IF now >= ArrivesAt(j) THEN "gathering"
    ELSE "outbound"

(* Mutant: a worker that has just arrived is still due on arrival. *)
NextDueAtArrival(j, now) ==
    IF now >= Stop(j) THEN ReturnsAt(j)
    ELSE IF now > ArrivesAt(j) THEN Stop(j) ELSE ArrivesAt(j)

NextDueAt(j, now) ==    \* of a journey that is not complete
    IF now >= Stop(j) THEN ReturnsAt(j)
    ELSE IF now >= ArrivesAt(j) THEN Stop(j)
    ELSE IF ArrivesAt(j) < Stop(j) THEN ArrivesAt(j) ELSE Stop(j)

(* Recalling twice, or once gathering is over, changes nothing. *)
RecallJourney(j, now) ==
    IF j.recalledAt # NotRecalled \/ now >= Stop(j)
    THEN j
    ELSE [j EXCEPT !.recalledAt = now]
=============================================================================
