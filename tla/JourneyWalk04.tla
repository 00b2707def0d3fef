---------------------------- MODULE JourneyWalk04 ---------------------------
(* A reference for the closed formulas of Journey04: a worker that walks one  *)
(* step and gathers one unit per unit of time, and turns back when it is      *)
(* recalled.  workerJourney.ts never moves a worker: it derives phase, cargo  *)
(* and the next due time from the dispatch terms and the clock.               *)
EXTENDS Journey04

CONSTANTS Terms,       \* the journeys to walk, not recalled
          MaxTime      \* BOUND on the clock

ASSUME WalkAssumption ==
    /\ \A j \in Terms : JourneyValid(j) /\ j.recalledAt = NotRecalled
    /\ MaxTime \in Nat

VARIABLES journey, now,
          place,       \* what the worker is doing
          walked,      \* its distance from the keep
          gathered     \* the time it has gathered

vars == <<journey, now, place, walked, gathered>>

Init ==
    /\ journey \in Terms
    /\ now = journey.dispatchedAt
    /\ walked = 0
    /\ gathered = 0
    /\ place = IF Travel(journey) = 0 THEN "gathering" ELSE "outbound"

Homeward(distance) == IF distance = 0 THEN "complete" ELSE "returning"

WalkOut ==
    /\ place = "outbound"
    /\ walked' = walked + 1
    /\ place' = IF walked' = Travel(journey) THEN "gathering" ELSE place
    /\ UNCHANGED gathered

Gather ==
    /\ place = "gathering"
    /\ gathered' = gathered + 1
    /\ place' = IF gathered' = journey.duration THEN Homeward(walked) ELSE place
    /\ UNCHANGED walked

WalkBack ==
    /\ place = "returning"
    /\ walked' = walked - 1
    /\ place' = Homeward(walked')
    /\ UNCHANGED gathered

Rest ==
    /\ place = "complete"
    /\ UNCHANGED <<place, walked, gathered>>

Tick ==
    /\ now < MaxTime
    /\ now' = now + 1
    /\ WalkOut \/ Gather \/ WalkBack \/ Rest
    /\ UNCHANGED journey

Recall ==
    /\ journey' = RecallJourney(journey, now)
    /\ place' = IF place \in {"outbound", "gathering"} THEN Homeward(walked) ELSE place
    /\ UNCHANGED <<now, walked, gathered>>

Next == Tick \/ Recall

Spec == Init /\ [][Next]_vars

-----------------------------------------------------------------------------
(* The derived phase and cargo are those of the worker that really walked,    *)
(* no recall makes the journey one that the code would refuse, and the next   *)
(* due time is exactly when the walking worker next changes what it is doing: *)
(* a wakeup set there is neither early nor late (validateAndDeriveJourney,    *)
(* observeJourney04, recallJourney04).                                        *)
Follows ==
    /\ JourneyValid(journey)
    /\ Observable(journey, now)
    /\ Phase(journey, now) = place
    /\ Earned(journey, now) = (gathered \div GatherQuantum) * journey.yield

FormulasFollowWalk ==
    [][/\ Follows /\ Follows'
       /\ now' # now /\ place # "complete" =>
             (place' # place <=> now' = NextDueAt(journey, now))]_vars
=============================================================================
