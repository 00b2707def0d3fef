------------------------- MODULE JourneyWalk04Proofs -------------------------
(* The closed formulas of a journey are those of the worker that walks it,    *)
(* for every table, every length of route and of gathering, and whenever the  *)
(* worker is recalled.                                                        *)
EXTENDS JourneyWalk04, TLAPS

-----------------------------------------------------------------------------
LEMMA JourneyTimes ==
    ASSUME NEW j, JourneyValid(j)
    PROVE  /\ j.dispatchedAt \in Nat /\ Travel(j) \in Nat /\ j.duration \in Nat \ {0}
           /\ j.recalledAt \in Nat \cup {NotRecalled} /\ j.yield \in Nat \ {0}
           /\ ArrivesAt(j) = j.dispatchedAt + Travel(j)
           /\ AutomaticStop(j) = ArrivesAt(j) + j.duration
<1>1. /\ j.dispatchedAt \in Nat /\ j.yield \in Nat \ {0}
      /\ j.travelPerEdge \in Nat /\ j.recalledAt \in Nat \cup {NotRecalled}
      /\ j.routeEdges \in 0..MaxEdges /\ j.duration \in GatherDuration
      BY DEF JourneyValid, Journey
<1>2. j.routeEdges \in Nat /\ j.duration \in Nat \ {0}
  <2>1. MaxEdges \in Nat /\ GatherDuration \subseteq Nat \ {0}
        BY PolicyAssumption, JourneyAssumption
  <2>2. j.routeEdges \in Nat
        BY <1>1, <2>1
  <2> QED BY <1>1, <2>1, <2>2
<1>3. Travel(j) \in Nat
      BY <1>1, <1>2 DEF Travel
<1> QED BY <1>1, <1>2, <1>3 DEF ArrivesAt, AutomaticStop

-----------------------------------------------------------------------------
(* How far a worker is from the keep: it goes out until it arrives or stops,  *)
(* stays while it gathers, and has its way back still before it.              *)
Distance(j, t) ==
    IF t < Stop(j) THEN IF t < ArrivesAt(j) THEN t - j.dispatchedAt ELSE Travel(j)
    ELSE IF t < ReturnsAt(j) THEN ReturnsAt(j) - t ELSE 0

(* The worker that walks is at every moment where the formulas say: what it   *)
(* does, how far it is and what it has gathered are functions of the terms    *)
(* and the clock.                                                             *)
WalkInv ==
    /\ now \in Nat
    /\ JourneyValid(journey)
    /\ Observable(journey, now)
    /\ place = Phase(journey, now)
    /\ walked = Distance(journey, now)
    /\ gathered = GatherTime(journey, now)

(* A journey seen from its own clock: nothing in it happens after its recall. *)
LEMMA Schedule ==
    ASSUME NEW j, JourneyValid(j), NEW t \in Nat, Observable(j, t), t < Stop(j)
    PROVE  /\ j.recalledAt = NotRecalled
           /\ Stop(j) = ArrivesAt(j) + j.duration
           /\ ReturnsAt(j) = Stop(j) + Travel(j)
<1>1. j.recalledAt = NotRecalled
      BY JourneyTimes DEF Stop, Observable, NotRecalled
<1>2. Stop(j) = AutomaticStop(j)
      BY <1>1 DEF Stop
<1> QED BY <1>1, <1>2, JourneyTimes DEF ReturnsAt

LEMMA StopTimes ==
    ASSUME NEW j, JourneyValid(j)
    PROVE  /\ Stop(j) \in Nat /\ Stop(j) >= j.dispatchedAt
           /\ ReturnsAt(j) \in Nat /\ ReturnsAt(j) >= Stop(j)
<1>1. Stop(j) \in Nat /\ Stop(j) >= j.dispatchedAt
      BY JourneyTimes DEF Stop, JourneyValid, NotRecalled
<1> QED BY <1>1, JourneyTimes DEF ReturnsAt

LEMMA WalkInit == Init => WalkInv
<1> SUFFICES ASSUME Init PROVE WalkInv
    OBVIOUS
<1>1. JourneyValid(journey) /\ journey.recalledAt = NotRecalled /\ now = journey.dispatchedAt
      BY WalkAssumption DEF Init
<1>2. now \in Nat /\ Observable(journey, now)
      BY <1>1, JourneyTimes DEF Observable
<1>3. /\ Stop(journey) = ArrivesAt(journey) + journey.duration
      /\ ArrivesAt(journey) = now + Travel(journey) /\ Travel(journey) \in Nat
      /\ journey.duration \in Nat \ {0} /\ journey.dispatchedAt = now
      BY <1>1, JourneyTimes DEF Stop
<1>4. ReturnsAt(journey) >= Stop(journey) /\ ReturnsAt(journey) \in Nat
      BY <1>1, StopTimes
<1>5. place = Phase(journey, now)
      BY <1>2, <1>3, <1>4 DEF Init, Phase
<1>6. walked = Distance(journey, now)
      BY <1>2, <1>3 DEF Init, Distance
<1>7. gathered = GatherTime(journey, now)
      BY <1>2, <1>3 DEF Init, GatherTime
<1> QED BY <1>1, <1>2, <1>5, <1>6, <1>7 DEF WalkInv

-----------------------------------------------------------------------------
(* One unit of time: the worker takes its step, and changes what it does      *)
(* exactly at the next due time the formulas gave before the step.            *)
LEMMA TickStep ==
    ASSUME WalkInv, Tick
    PROVE  /\ WalkInv'
           /\ place # "complete" => (place' # place <=> now' = NextDueAt(journey, now))
<1> DEFINE j == journey
           d == j.dispatchedAt
           a == ArrivesAt(j)
           s == Stop(j)
           r == ReturnsAt(j)
<1>1. /\ now \in Nat /\ now' = now + 1 /\ journey' = j /\ now' \in Nat
      /\ JourneyValid(j) /\ Observable(j, now)
      /\ place = Phase(j, now) /\ walked = Distance(j, now) /\ gathered = GatherTime(j, now)
      BY DEF WalkInv, Tick
<1>2. /\ d \in Nat /\ Travel(j) \in Nat /\ j.duration \in Nat \ {0}
      /\ a = d + Travel(j) /\ s \in Nat /\ s >= d /\ r \in Nat /\ r >= s
      /\ now >= d
      BY <1>1, JourneyTimes, StopTimes DEF Observable
<1>3. now < s => s = a + j.duration /\ r = s + Travel(j)
      BY <1>1, Schedule
<1>4. JourneyValid(journey') /\ Observable(journey', now')
      BY <1>1, JourneyTimes DEF Observable
<1>5. SUFFICES /\ place' = Phase(j, now') /\ walked' = Distance(j, now')
               /\ gathered' = GatherTime(j, now')
               /\ place # "complete" => (place' # place <=> now' = NextDueAt(j, now))
      BY <1>1, <1>4 DEF WalkInv
<1>6. CASE now < s /\ now < a
  <2>1. place = "outbound" /\ walked = now - d /\ gathered = 0
        BY <1>1, <1>2, <1>6 DEF Phase, Distance, GatherTime
  <2>2. walked' = now' - d /\ gathered' = 0
        /\ place' = IF now' = a THEN "gathering" ELSE "outbound"
        BY <1>1, <1>2, <2>1 DEF Tick, WalkOut, Gather, WalkBack, Rest
  <2>3. now' <= a /\ now' < s /\ s = a + j.duration
        BY <1>1, <1>2, <1>3, <1>6
  <2>4. place' = Phase(j, now') /\ walked' = Distance(j, now') /\ gathered' = GatherTime(j, now')
        BY <1>1, <1>2, <2>2, <2>3 DEF Phase, Distance, GatherTime
  <2>5. NextDueAt(j, now) = a
        BY <1>1, <1>2, <1>6, <2>3 DEF NextDueAt
  <2> QED BY <2>1, <2>2, <2>4, <2>5
<1>7. CASE now < s /\ now >= a
  <2>1. place = "gathering" /\ walked = Travel(j) /\ gathered = now - a
        BY <1>1, <1>2, <1>7 DEF Phase, Distance, GatherTime
  <2>2. walked' = Travel(j) /\ gathered' = now' - a
        /\ place' = IF now' = s THEN Homeward(Travel(j)) ELSE "gathering"
        BY <1>1, <1>2, <1>3, <1>7, <2>1 DEF Tick, WalkOut, Gather, WalkBack, Rest
  <2>3. now' <= s /\ s = a + j.duration /\ r = s + Travel(j)
        BY <1>1, <1>2, <1>3, <1>7
  <2>4. place' = Phase(j, now')
        BY <1>1, <1>2, <1>7, <2>2, <2>3 DEF Phase, Homeward
  <2>5. walked' = Distance(j, now') /\ gathered' = GatherTime(j, now')
    <3>1. gathered' = GatherTime(j, now')
          BY <1>1, <1>2, <1>7, <2>2, <2>3 DEF GatherTime
    <3>2. CASE now' < s
          BY <1>1, <1>2, <1>7, <2>2, <3>1, <3>2 DEF Distance
    <3>3. CASE now' = s
      <4>1. Distance(j, now') = IF now' < r THEN r - now' ELSE 0
            BY <1>2, <3>3 DEF Distance
      <4> QED BY <1>1, <1>2, <2>2, <2>3, <3>1, <3>3, <4>1
    <3> QED BY <1>1, <1>2, <2>3, <3>2, <3>3
  <2>6. NextDueAt(j, now) = s
        BY <1>1, <1>2, <1>7 DEF NextDueAt
  <2> QED BY <2>1, <2>2, <2>4, <2>5, <2>6 DEF Homeward
<1>8. CASE now >= s /\ now < r
  <2>1. place = "returning" /\ walked = r - now
        BY <1>1, <1>2, <1>8 DEF Phase, Distance
  <2>2. walked' = r - now' /\ gathered' = gathered /\ place' = Homeward(r - now')
        BY <1>1, <1>2, <2>1 DEF Tick, WalkOut, Gather, WalkBack, Rest
  <2>3. place' = Phase(j, now') /\ walked' = Distance(j, now')
        BY <1>1, <1>2, <1>8, <2>2 DEF Phase, Distance, Homeward
  <2>4. GatherTime(j, now') = GatherTime(j, now)
        BY <1>1, <1>2, <1>8 DEF GatherTime
  <2>5. NextDueAt(j, now) = r
        BY <1>1, <1>2, <1>8 DEF NextDueAt
  <2> QED BY <1>1, <1>2, <1>8, <2>1, <2>2, <2>3, <2>4, <2>5 DEF Homeward
<1>9. CASE now >= r
  <2>1. place = "complete" /\ walked = 0
        BY <1>1, <1>2, <1>9 DEF Phase, Distance
  <2>2. walked' = 0 /\ gathered' = gathered /\ place' = "complete"
        BY <2>1 DEF Tick, WalkOut, Gather, WalkBack, Rest
  <2>3. place' = Phase(j, now') /\ walked' = Distance(j, now')
        BY <1>1, <1>2, <1>9, <2>2 DEF Phase, Distance
  <2>4. GatherTime(j, now') = GatherTime(j, now)
        BY <1>1, <1>2, <1>9 DEF GatherTime
  <2> QED BY <1>1, <2>1, <2>2, <2>3, <2>4
<1> QED BY <1>1, <1>2, <1>6, <1>7, <1>8, <1>9

(* A recall: the worker turns back where it is, or goes on if it is on its    *)
(* way home already.                                                          *)
LEMMA RecallStep ==
    ASSUME WalkInv, Recall
    PROVE  WalkInv' /\ now' = now
<1> DEFINE j == journey
           n == [j EXCEPT !.recalledAt = now]
<1>1. /\ now \in Nat /\ now' = now /\ journey' = RecallJourney(j, now)
      /\ walked' = walked /\ gathered' = gathered
      /\ place' = IF place \in {"outbound", "gathering"} THEN Homeward(walked) ELSE place
      /\ JourneyValid(j) /\ Observable(j, now)
      /\ place = Phase(j, now) /\ walked = Distance(j, now) /\ gathered = GatherTime(j, now)
      BY DEF WalkInv, Recall
<1>2. /\ j.dispatchedAt \in Nat /\ Travel(j) \in Nat /\ j.duration \in Nat \ {0}
      /\ ArrivesAt(j) = j.dispatchedAt + Travel(j) /\ AutomaticStop(j) = ArrivesAt(j) + j.duration
      /\ Stop(j) \in Nat /\ ReturnsAt(j) \in Nat /\ ReturnsAt(j) >= Stop(j)
      /\ now >= j.dispatchedAt
      BY <1>1, JourneyTimes, StopTimes DEF Observable
<1>3. CASE now < Stop(j)
  <2>1. /\ j.recalledAt = NotRecalled /\ Stop(j) = ArrivesAt(j) + j.duration
        BY <1>1, <1>3, Schedule
  <2>2. journey' = n
        BY <1>1, <1>2, <1>3, <2>1 DEF RecallJourney
  <2>3. /\ n \in Journey /\ n.recalledAt = now /\ n.dispatchedAt = j.dispatchedAt
        /\ n.duration = j.duration /\ n.routeEdges = j.routeEdges
        /\ n.travelPerEdge = j.travelPerEdge /\ n.yield = j.yield
        BY <1>1 DEF JourneyValid, Journey
  <2> HIDE DEF n
  <2>4. /\ Travel(n) = Travel(j) /\ ArrivesAt(n) = ArrivesAt(j)
        /\ AutomaticStop(n) = AutomaticStop(j)
        BY <2>3 DEF Travel, ArrivesAt, AutomaticStop
  <2>5. Stop(n) = now
        BY <1>1, <2>3 DEF Stop, NotRecalled
  <2>6. JourneyValid(n) /\ Observable(n, now)
        BY <1>1, <1>2, <1>3, <2>1, <2>3, <2>4 DEF JourneyValid, Observable
  <2>7. walked = IF now < ArrivesAt(j) THEN now - j.dispatchedAt ELSE Travel(j)
        BY <1>1, <1>3 DEF Distance
  <2>8. ReturnsAt(n) = now + walked /\ walked \in Nat
        BY <1>1, <1>2, <2>3, <2>4, <2>5, <2>7 DEF ReturnsAt
  <2>9. place \in {"outbound", "gathering"}
        BY <1>1, <1>2, <1>3 DEF Phase
  <2>10. place' = Phase(n, now)
        BY <1>1, <2>5, <2>8, <2>9 DEF Phase, Homeward
  <2>11. walked = Distance(n, now)
        BY <1>1, <2>5, <2>8 DEF Distance
  <2>12. gathered = GatherTime(n, now)
        BY <1>1, <1>2, <1>3, <2>4, <2>5 DEF GatherTime
  <2> QED BY <1>1, <2>2, <2>6, <2>10, <2>11, <2>12 DEF WalkInv
<1>4. CASE now >= Stop(j)
  <2>1. journey' = j
        BY <1>1, <1>2, <1>4 DEF RecallJourney
  <2>2. place' = place
        BY <1>1, <1>2, <1>4 DEF Phase
  <2> QED BY <1>1, <2>1, <2>2 DEF WalkInv
<1> QED BY <1>1, <1>2, <1>3, <1>4

-----------------------------------------------------------------------------
LEMMA InvFollows == WalkInv => Follows
BY DEF WalkInv, Follows, Earned

(* However long the way, however slow the worker and whenever it is recalled: *)
(* phase and cargo derived from the terms and the clock are those of a worker *)
(* that walked, and the next due time is when it next changes what it does    *)
(* (observeJourney04, recallJourney04).                                       *)
THEOREM FormulasFollowWalkAlways == Spec => FormulasFollowWalk
<1> DEFINE Step == /\ Follows /\ Follows'
                   /\ now' # now /\ place # "complete" =>
                         (place' # place <=> now' = NextDueAt(journey, now))
<1>1. WalkInv /\ [Next]_vars => WalkInv' /\ [Step]_vars
  <2> SUFFICES ASSUME WalkInv, [Next]_vars PROVE WalkInv' /\ [Step]_vars
      OBVIOUS
  <2>1. CASE Tick
    <3>1. WalkInv' /\ Follows /\ Follows'
      <4>1. WalkInv'
            BY <2>1, TickStep
      <4> QED BY <4>1, InvFollows DEF WalkInv, Follows, Earned
    <3> QED BY <2>1, <3>1, TickStep
  <2>2. CASE Recall
    <3>1. WalkInv' /\ now' = now
          BY <2>2, RecallStep
    <3>2. Follows /\ Follows'
          BY <3>1, InvFollows DEF WalkInv, Follows, Earned
    <3> QED BY <3>1, <3>2
  <2>3. CASE UNCHANGED vars
        BY <2>3 DEF vars, WalkInv
  <2> QED BY <2>1, <2>2, <2>3 DEF Next
<1> QED BY <1>1, WalkInit, PTL DEF Spec, FormulasFollowWalk
=============================================================================
