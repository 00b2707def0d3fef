-------------------------- MODULE Gameplay04Proofs --------------------------
(* The keep of gameplay 0.4, for every set of nodes, locations, buildings,    *)
(* costs, durations and bounds, and for every history of commands, reads and  *)
(* timers, late, lost or repeated.  The facts about policy and journeys come  *)
(* first.  Then: the keep stays well typed and implements the command log;    *)
(* every dispatch of a worker comes home exactly once and on the terms it was *)
(* sent with; the keep never gets into a state that its own validation        *)
(* refuses; its balance is the sum of what its workers brought home, less     *)
(* what its projects cost.                                                    *)
EXTENDS Gameplay04, FiniteSetTheorems, TLAPS

-----------------------------------------------------------------------------
(* Policy. *)
LEMMA CeilBpsPositive ==
    ASSUME NEW base \in Nat \ {0}, NEW bps \in Nat \ {0}
    PROVE  CeilBps(base, bps) \in Nat \ {0}
<1>1. base * bps \in Nat /\ base * bps >= 1
      BY Z3
<1> DEFINE x == base * bps
<1>2. x \in Nat /\ x >= 1
      BY <1>1
<1> HIDE DEF x
<1>3. (x + 9999) \div 10000 \in Nat /\ (x + 9999) \div 10000 >= 1
      BY <1>2, SMT
<1> QED BY <1>3 DEF CeilBps, x

LEMMA ReductionBounded ==
    ASSUME NEW level \in Level
    PROVE  10000 - level * BpsPerLevel \in Nat \ {0}
<1>1. MaxLevel \in Nat /\ BpsPerLevel \in Nat /\ MaxLevel * BpsPerLevel < 10000
      BY PolicyAssumption
<1>2. level \in Nat /\ level <= MaxLevel
      BY <1>1 DEF Level
<1>3. level * BpsPerLevel \in Nat /\ level * BpsPerLevel <= MaxLevel * BpsPerLevel
      BY <1>1, <1>2, Z3
<1> QED BY <1>1, <1>3

LEMMA PolicyTypes ==
    ASSUME NEW completed \in CompletedLevels
    PROVE  /\ TravelPerEdge(completed) \in Nat \ {0}
           /\ \A r \in Resource : GatheringYield(r, completed) \in Nat \ {0}
           /\ \A target \in TargetLevel : BuildingDuration(target, completed) \in Nat \ {0}
<1>1. /\ Barracks \in Building /\ Cathedral \in Building
      /\ Matching \in [Resource -> Building]
      /\ BaseTravel \in Nat \ {0} /\ BaseYield \in Nat \ {0} /\ YieldPerLevel \in Nat
      /\ BuildDuration \in [TargetLevel -> Nat \ {0}]
      BY PolicyAssumption
<1>2. TravelPerEdge(completed) \in Nat \ {0}
      BY <1>1, CeilBpsPositive, ReductionBounded DEF TravelPerEdge, TravelAt, CompletedLevels
<1>3. ASSUME NEW r \in Resource PROVE GatheringYield(r, completed) \in Nat \ {0}
  <2>1. completed[Matching[r]] \in Nat
        BY <1>1, PolicyAssumption DEF CompletedLevels, Level
  <2>2. completed[Matching[r]] * YieldPerLevel \in Nat
        BY <1>1, <2>1
  <2> QED BY <1>1, <2>2 DEF GatheringYield, YieldAt
<1>4. ASSUME NEW target \in TargetLevel PROVE BuildingDuration(target, completed) \in Nat \ {0}
      BY <1>1, CeilBpsPositive, ReductionBounded DEF BuildingDuration, CompletedLevels
<1> QED BY <1>2, <1>3, <1>4

LEMMA BuildingCostType ==
    ASSUME NEW b \in Building, NEW target \in TargetLevel
    PROVE  BuildingCost(b, target) \in Amounts
<1>1. BaseCost \in [Building -> [Resource -> Nat]] /\ CostMultiplier \in [TargetLevel -> Nat \ {0}]
      BY PolicyAssumption DEF Amounts
<1> QED BY <1>1 DEF BuildingCost, Amounts

(* Crediting conserves the cargo, never exceeds the cap and never lowers the  *)
(* balance (creditResource04).                                                *)
THEOREM CreditSound ==
    ASSUME NEW balance \in 0..BalanceCap, NEW earned \in Nat
    PROVE  LET c == Credit(balance, earned)
           IN  /\ c.balance \in 0..BalanceCap
               /\ c.credited \in Nat /\ c.overflow \in Nat
               /\ c.credited + c.overflow = earned
               /\ c.balance = balance + c.credited
               /\ c.overflow > 0 => c.balance = BalanceCap
BY PolicyAssumption DEF Credit

-----------------------------------------------------------------------------
(* Journeys. *)
LEMMA JourneyTimes ==
    ASSUME NEW j, JourneyValid(j)
    PROVE  /\ j.dispatchedAt \in Nat /\ Travel(j) \in Nat /\ j.duration \in Nat \ {0}
           /\ j.recalledAt \in Nat \cup {NotRecalled} /\ j.yield \in Nat \ {0}
           /\ ArrivesAt(j) \in Nat /\ ArrivesAt(j) = j.dispatchedAt + Travel(j)
           /\ AutomaticStop(j) = ArrivesAt(j) + j.duration
           /\ Stop(j) \in Nat /\ Stop(j) >= j.dispatchedAt /\ Stop(j) <= AutomaticStop(j)
           /\ ReturnsAt(j) \in Nat /\ ReturnsAt(j) >= Stop(j)
<1>1. /\ j.dispatchedAt \in Nat /\ j.duration \in Nat \ {0} /\ j.yield \in Nat \ {0}
      /\ j.routeEdges \in Nat /\ j.travelPerEdge \in Nat
      /\ j.recalledAt \in Nat \cup {-1}
  <2>1. j \in Journey
        BY DEF JourneyValid
  <2>2. MaxEdges \in Nat /\ GatherDuration \subseteq Nat \ {0}
        BY PolicyAssumption, JourneyAssumption
  <2>3. j.routeEdges \in 0..MaxEdges /\ j.duration \in GatherDuration
        BY <2>1 DEF Journey
  <2>4. /\ j.dispatchedAt \in Nat /\ j.yield \in Nat \ {0}
        /\ j.travelPerEdge \in Nat \ {0} /\ j.recalledAt \in Nat \cup {-1}
        BY <2>1 DEF Journey, NotRecalled
  <2>5. j.routeEdges \in Nat
        BY <2>2, <2>3
  <2>6. j.duration \in Nat \ {0}
        BY <2>2, <2>3
  <2> QED BY <2>4, <2>5, <2>6
<1>2. Travel(j) \in Nat
      BY <1>1 DEF Travel
<1>3. ArrivesAt(j) \in Nat /\ ArrivesAt(j) = j.dispatchedAt + Travel(j)
      BY <1>1, <1>2 DEF ArrivesAt
<1>4. AutomaticStop(j) \in Nat /\ AutomaticStop(j) = ArrivesAt(j) + j.duration
      BY <1>1, <1>3 DEF AutomaticStop
<1>5. Stop(j) \in Nat /\ Stop(j) >= j.dispatchedAt /\ Stop(j) <= AutomaticStop(j)
      BY <1>1, <1>2, <1>3, <1>4 DEF Stop, JourneyValid, NotRecalled
<1>6. ReturnsAt(j) \in Nat /\ ReturnsAt(j) >= Stop(j)
      BY <1>1, <1>2, <1>5 DEF ReturnsAt
<1> QED BY <1>1, <1>2, <1>3, <1>4, <1>5, <1>6 DEF NotRecalled

(* While a journey is not complete its next due time lies in the future and   *)
(* is one of the three instants a stored wakeup may carry (observeJourney04,  *)
(* and the checks of reconcileWorkersWithoutRevision04 on wakeups).           *)
THEOREM NextDueInFuture ==
    ASSUME NEW j, JourneyValid(j), NEW t \in Nat, ~Complete(j, t)
    PROVE  /\ NextDueAt(j, t) \in Nat
           /\ NextDueAt(j, t) > t
           /\ NextDueAt(j, t) \in {ArrivesAt(j), Stop(j), ReturnsAt(j)}
BY JourneyTimes DEF NextDueAt, Complete

(* A wakeup set for the next due time stays right until it is due: no other   *)
(* instant of the journey comes before it.                                    *)
THEOREM WakeupStaysRight ==
    ASSUME NEW j, JourneyValid(j), NEW t \in Nat, NEW u \in Nat, t <= u,
           ~Complete(j, t), u < NextDueAt(j, t)
    PROVE  ~Complete(j, u) /\ NextDueAt(j, u) = NextDueAt(j, t)
BY JourneyTimes DEF NextDueAt, Complete

(* A recall leaves a journey the code accepts, that is home no later than it  *)
(* would have been (recallJourney04).                                         *)
THEOREM RecallSound ==
    ASSUME NEW j, JourneyValid(j), NEW t \in Nat, Observable(j, t)
    PROVE  LET r == RecallJourney(j, t)
           IN  /\ JourneyValid(r) /\ Observable(r, t)
               /\ r # j => r.recalledAt = t /\ Stop(r) = t /\ ~Complete(j, t)
               /\ ReturnsAt(r) <= ReturnsAt(j)
<1> DEFINE r == [j EXCEPT !.recalledAt = t]
<1>1. /\ j.dispatchedAt \in Nat /\ Travel(j) \in Nat /\ Stop(j) \in Nat
      /\ ReturnsAt(j) \in Nat /\ ReturnsAt(j) >= Stop(j)
      /\ ArrivesAt(j) \in Nat /\ ArrivesAt(j) = j.dispatchedAt + Travel(j)
      /\ t >= j.dispatchedAt
      BY JourneyTimes DEF Observable
<1>2. CASE j.recalledAt = NotRecalled /\ t < Stop(j)
  <2>1. RecallJourney(j, t) = r
        BY <1>2, <1>1 DEF RecallJourney
  <2>2. /\ r \in Journey
        /\ r.recalledAt = t /\ r.dispatchedAt = j.dispatchedAt /\ r.duration = j.duration
        /\ r.routeEdges = j.routeEdges /\ r.travelPerEdge = j.travelPerEdge
        /\ r.yield = j.yield
        BY DEF JourneyValid, Journey
  <2>3. /\ ArrivesAt(r) = ArrivesAt(j) /\ Travel(r) = Travel(j)
        /\ AutomaticStop(r) = AutomaticStop(j)
        BY <2>2 DEF ArrivesAt, Travel, AutomaticStop
  <2>4. Stop(j) = AutomaticStop(j) /\ Stop(r) = t
        BY <1>2, <2>2 DEF Stop, NotRecalled
  <2>5. JourneyValid(r) /\ Observable(r, t)
        BY <1>1, <1>2, <2>2, <2>3, <2>4 DEF JourneyValid, Observable
  <2>6. ReturnsAt(r) <= ReturnsAt(j)
    <3>1. ReturnsAt(j) = Stop(j) + Travel(j)
          BY <2>4, JourneyTimes DEF ReturnsAt
    <3> QED BY <1>1, <1>2, <2>2, <2>3, <2>4, <3>1 DEF ReturnsAt
  <2>7. ~Complete(j, t)
        BY <1>1, <1>2 DEF Complete
  <2> QED BY <2>1, <2>2, <2>4, <2>5, <2>6, <2>7
<1>3. CASE ~(j.recalledAt = NotRecalled /\ t < Stop(j))
  <2>1. RecallJourney(j, t) = j
        BY <1>1, <1>3 DEF RecallJourney
  <2> QED BY <1>1, <2>1
<1> QED BY <1>2, <1>3
-----------------------------------------------------------------------------
(* What the operators need to know of the workers that are away; the guard    *)
(* StoredStateValid gives it, and reconciling keeps it.                       *)
AwaySound(d, t) ==
    \A w \in Worker : d.workers[w].assignment # None =>
        /\ JourneyValid(d.workers[w].assignment.journey)
        /\ Observable(d.workers[w].assignment.journey, t)
        /\ d.workers[w].assignmentRevision > 0

Balances == [Resource -> 0..BalanceCap]

LEMMA ValidIsSound ==
    ASSUME NEW d \in Keep, NEW t \in Nat, StoredStateValid(d, t)
    PROVE  /\ AwaySound(d, t)
           /\ d.project # None => d.buildings[d.project.building] # None
<1>1. WorkersValid(d, t) /\ ConstructionValid(d)
      BY DEF StoredStateValid
<1>2. ASSUME NEW w \in Worker, d.workers[w].assignment # None
      PROVE  /\ JourneyValid(d.workers[w].assignment.journey)
             /\ Observable(d.workers[w].assignment.journey, t)
             /\ d.workers[w].assignmentRevision > 0
  <2>1. WorkerRowValid(d.workers[w]) /\ WakeupsValid(d, w, t)
        BY <1>1 DEF WorkersValid
  <2>2. w \in Away(d)
        BY <1>2 DEF Away
  <2> QED BY <1>2, <2>1, <2>2 DEF WorkerRowValid, WakeupsValid, JourneyOf
<1>3. d.project # None => d.buildings[d.project.building] # None
      BY <1>1 DEF ConstructionValid, ProjectValid, Built
<1> QED BY <1>2, <1>3 DEF AwaySound

LEMMA LevelsType ==
    ASSUME NEW d \in Keep
    PROVE  CompletedLevelsOf(d) \in CompletedLevels
<1>1. MaxLevel \in Nat
      BY PolicyAssumption
<1>2. 0 \in Level
      BY <1>1 DEF Level
<1>3. ASSUME NEW b \in Building, d.buildings[b] # None
      PROVE  d.buildings[b].completedLevel \in Level
  <2>1. d.buildings \in [Building -> BuildingRow \cup {None}]
        BY DEF Keep
  <2>2. d.buildings[b] \in BuildingRow
        BY <1>3, <2>1
  <2> QED BY <2>2 DEF BuildingRow
<1> QED BY <1>2, <1>3 DEF CompletedLevelsOf, CompletedLevels

LEMMA JourneyOfAway ==
    ASSUME NEW d \in Keep, NEW t \in Nat, AwaySound(d, t), NEW w \in Away(d)
    PROVE  /\ w \in Worker
           /\ JourneyValid(JourneyOf(d, w)) /\ Observable(JourneyOf(d, w), t)
           /\ JourneyOf(d, w) \in Journey /\ JourneyOf(d, w).resource \in Resource
           /\ d.workers[w].assignmentRevision \in Positive
<1>1. w \in Worker /\ d.workers[w].assignment # None
      BY DEF Away
<1>2. JourneyValid(JourneyOf(d, w)) /\ Observable(JourneyOf(d, w), t)
      BY <1>1 DEF AwaySound, JourneyOf
<1>3. JourneyOf(d, w) \in Journey /\ JourneyOf(d, w).resource \in Resource
      BY <1>2 DEF JourneyValid, Journey
<1>4. d.workers[w].assignmentRevision \in Nat /\ d.workers[w].assignmentRevision > 0
  <2>1. d.workers \in [Worker -> WorkerRow]
        BY DEF Keep
  <2>2. d.workers[w] \in WorkerRow
        BY <1>1, <2>1
  <2>3. d.workers[w].assignmentRevision \in Nat
        BY <2>2 DEF WorkerRow
  <2> QED BY <1>1, <2>3 DEF AwaySound
<1> QED BY <1>1, <1>2, <1>3, <1>4 DEF Positive

LEMMA EarnedType ==
    ASSUME NEW j, JourneyValid(j), NEW t \in Nat
    PROVE  Earned(j, t) \in Nat
<1>1. /\ Stop(j) \in Nat /\ ArrivesAt(j) \in Nat /\ j.yield \in Nat
      BY JourneyTimes
<1>2. GatherTime(j, t) \in Nat
      BY <1>1 DEF GatherTime
<1>3. GatherQuantum \in Nat \ {0}
      BY PolicyAssumption
<1>4. GatherTime(j, t) \div GatherQuantum \in Nat
  <2> DEFINE g == GatherTime(j, t)
  <2>1. g \in Nat
        BY <1>2
  <2> HIDE DEF g
  <2>2. g \div GatherQuantum \in Nat
        BY <1>3, <2>1
  <2> QED BY <2>2 DEF g
<1> DEFINE q == GatherTime(j, t) \div GatherQuantum
<1> HIDE DEF q
<1>5. q \in Nat
      BY <1>4 DEF q
<1>6. q * j.yield \in Nat
      BY <1>1, <1>5
<1> QED BY <1>6 DEF Earned, q

-----------------------------------------------------------------------------
(* Reconciliation keeps the types and touches neither the revision, nor the   *)
(* sequence, nor the receipts.                                                *)
LEMMA ConstructionReconciled ==
    ASSUME NEW d \in Keep, NEW t \in Nat, AwaySound(d, t),
           d.project # None => d.buildings[d.project.building] # None
    PROVE  LET r == ReconcileConstruction(d, t)
           IN  /\ r \in Keep /\ AwaySound(r, t)
               /\ r.revision = d.revision /\ r.lastAccepted = d.lastAccepted
               /\ r.receipts = d.receipts
<1> DEFINE p == d.project
<1>1. CASE d.project = None
      BY <1>1 DEF ReconcileConstruction
<1>2. ASSUME d.project # None
      PROVE  /\ p \in Project /\ p.building \in Building /\ p.targetLevel \in Level
             /\ d.buildings[p.building] \in BuildingRow
             /\ WakeupOfProject(p) \in ProjectWakeup
  <2>1. p \in Project
        BY <1>2 DEF Keep
  <2>2. p.building \in Building /\ p.targetLevel \in TargetLevel
        /\ p.revision \in Positive /\ p.completesAt \in Nat
        BY <2>1 DEF Project
  <2>3. p.targetLevel \in Level
        BY <2>2, PolicyAssumption DEF TargetLevel, Level
  <2>4. d.buildings[p.building] \in BuildingRow
        BY <1>2, <2>2 DEF Keep
  <2>5. WakeupOfProject(p) \in ProjectWakeup
        BY <2>2 DEF WakeupOfProject, ProjectWakeup
  <2> QED BY <2>1, <2>2, <2>3, <2>4, <2>5
<1>3. CASE d.project # None /\ Due(d.project, t)
  <2> DEFINE row == [d.buildings[p.building] EXCEPT !.completedLevel = p.targetLevel]
             bs == [d.buildings EXCEPT ![p.building] = row]
             ws == d.projectWakeups \ {WakeupOfProject(p)}
             r == [d EXCEPT !.buildings = bs, !.project = None, !.projectWakeups = ws]
  <2>1. ReconcileConstruction(d, t) = r
        BY <1>3 DEF ReconcileConstruction, Keep
  <2>2. row \in BuildingRow
        BY <1>2, <1>3 DEF BuildingRow
  <2>3. bs \in [Building -> BuildingRow \cup {None}]
    <3>1. d.buildings \in [Building -> BuildingRow \cup {None}]
          BY DEF Keep
    <3> HIDE DEF row
    <3> QED BY <2>2, <3>1
  <2>4. ws \in SUBSET ProjectWakeup
        BY DEF Keep
  <2> HIDE DEF bs, ws
  <2>5. r \in Keep
        BY <2>3, <2>4 DEF Keep
  <2>6. r.workers = d.workers /\ r.revision = d.revision /\ r.lastAccepted = d.lastAccepted
        /\ r.receipts = d.receipts
        BY DEF Keep
  <2> QED BY <2>1, <2>5, <2>6 DEF AwaySound
<1>4. CASE d.project # None /\ ~Due(d.project, t)
  <2> DEFINE ws == d.projectWakeups \cup {WakeupOfProject(p)}
             r == [d EXCEPT !.projectWakeups = ws]
  <2>1. ReconcileConstruction(d, t) = r
        BY <1>4 DEF ReconcileConstruction, WithProjectWakeup, Keep
  <2>2. ws \in SUBSET ProjectWakeup
        BY <1>2, <1>4 DEF Keep
  <2> HIDE DEF ws
  <2>3. r \in Keep
        BY <2>2 DEF Keep
  <2>4. r.workers = d.workers /\ r.revision = d.revision /\ r.lastAccepted = d.lastAccepted
        /\ r.receipts = d.receipts
        BY DEF Keep
  <2> QED BY <2>1, <2>3, <2>4 DEF AwaySound
<1> QED BY <1>1, <1>3, <1>4

LEMMA VisitType ==
    ASSUME NEW d \in Keep, NEW t \in Nat, AwaySound(d, t),
           NEW balance \in Balances, NEW w
    PROVE  AfterVisit(balance, d, w, t) \in Balances
<1>1. CASE w \in Worker /\ w \in Home(d, t)
  <2>1. w \in Away(d)
        BY <1>1 DEF Home
  <2>2. JourneyValid(JourneyOf(d, w)) /\ JourneyOf(d, w).resource \in Resource
        BY <2>1, JourneyOfAway
  <2>3. Earned(JourneyOf(d, w), t) \in Nat
        BY <2>2, EarnedType
  <2>4. balance[JourneyOf(d, w).resource] \in 0..BalanceCap
        BY <2>2 DEF Balances
  <2>5. CreditOf(balance, d, w, t).balance \in 0..BalanceCap
        BY <2>3, <2>4, CreditSound DEF CreditOf
  <2> QED BY <1>1, <2>5 DEF AfterVisit, Balances
<1>2. CASE ~(w \in Worker /\ w \in Home(d, t))
      BY <1>2 DEF AfterVisit
<1> QED BY <1>1, <1>2

LEMMA AccumulatedType ==
    ASSUME NEW d \in Keep, NEW t \in Nat, AwaySound(d, t), NEW w
    PROVE  Accumulated(d, w, t) \in Balances
<1> DEFINE b1 == AfterVisit(d.balance, d, 0, t)
           b2 == AfterVisit(b1, d, 1, t)
           b3 == AfterVisit(b2, d, 2, t)
           b4 == AfterVisit(b3, d, 3, t)
<1>1. d.balance \in Balances
      BY DEF Keep, Balances
<1>2. b1 \in Balances
      BY <1>1, VisitType
<1>3. b2 \in Balances
  <2> HIDE DEF b1
  <2> QED BY <1>2, VisitType
<1>4. b3 \in Balances
  <2> HIDE DEF b2
  <2> QED BY <1>3, VisitType
<1>5. b4 \in Balances
  <2> HIDE DEF b3
  <2> QED BY <1>4, VisitType
<1>6. Accumulated(d, w, t) \in {d.balance, b1, b2, b3, b4}
  <2> HIDE DEF b1, b2, b3, b4
  <2>1. Accumulated(d, w, t) =
           CASE w = 0 -> d.balance [] w = 1 -> b1 [] w = 2 -> b2 [] w = 3 -> b3 [] OTHER -> b4
        BY DEF Accumulated, b1, b2, b3, b4
  <2> QED BY <2>1
<1> QED BY <1>1, <1>2, <1>3, <1>4, <1>5, <1>6

LEMMA OutcomeType ==
    ASSUME NEW d \in Keep, NEW t \in Nat, AwaySound(d, t), NEW w \in Away(d)
    PROVE  OutcomeOf(d, w, t) \in Outcome
<1> DEFINE j == JourneyOf(d, w)
           balance == Accumulated(d, w, t)
           c == Credit(balance[j.resource], Earned(j, t))
<1>1. /\ JourneyValid(j) /\ j.resource \in Resource
      /\ d.workers[w].assignmentRevision \in Positive
      BY JourneyOfAway
<1>2. Earned(j, t) \in Nat /\ ReturnsAt(j) \in Nat
      BY <1>1, EarnedType, JourneyTimes
<1>3. balance[j.resource] \in 0..BalanceCap
      BY <1>1, AccumulatedType DEF Balances
<1>4. c.credited \in Nat /\ c.overflow \in Nat
      BY <1>2, <1>3, CreditSound
<1>5. OutcomeOf(d, w, t) = [assignmentRevision |-> d.workers[w].assignmentRevision,
                            resource |-> j.resource, returnedAt |-> ReturnsAt(j),
                            earned |-> Earned(j, t), credited |-> c.credited,
                            overflow |-> c.overflow]
      BY DEF OutcomeOf, CreditOf
<1> HIDE DEF c, j
<1> QED BY <1>1, <1>2, <1>4, <1>5 DEF Outcome

LEMMA WakeupType ==
    ASSUME NEW d, NEW w \in Worker, NEW due \in Nat,
           d.workers[w].assignmentRevision \in Positive
    PROVE  WakeupOf(d, w, due) \in Wakeup
BY DEF WakeupOf, Wakeup

LEMMA WorkersReconciled ==
    ASSUME NEW d \in Keep, NEW t \in Nat, AwaySound(d, t)
    PROVE  LET r == ReconcileWorkers(d, t)
           IN  /\ r \in Keep /\ AwaySound(r, t)
               /\ r.revision = d.revision /\ r.lastAccepted = d.lastAccepted
               /\ r.receipts = d.receipts
<1> DEFINE balance == Accumulated(d, 4, t)
           workers == [w \in Worker |-> IF w \in Home(d, t)
                                        THEN BackHome(d.workers[w], OutcomeOf(d, w, t))
                                        ELSE d.workers[w]]
           claims == [n \in Node |->
                         IF \E w \in Home(d, t) : d.workers[w].assignment.node = n
                         THEN None ELSE d.reservations[n]]
           wakeups == CurrentWakeups(d, t)
           r == [d EXCEPT !.balance = balance, !.workers = workers,
                          !.reservations = claims, !.wakeups = wakeups]
<1>1. ReconcileWorkers(d, t) = r
      BY DEF ReconcileWorkers
<1>2. balance \in [Resource -> 0..BalanceCap]
      BY AccumulatedType DEF Balances
<1>3. d.workers \in [Worker -> WorkerRow]
      BY DEF Keep
<1>4. \A w \in Worker : \/ workers[w] = d.workers[w]
                        \/ workers[w].assignment = None /\ workers[w] \in WorkerRow
  <2> SUFFICES ASSUME NEW w \in Worker
               PROVE  \/ workers[w] = d.workers[w]
                      \/ workers[w].assignment = None /\ workers[w] \in WorkerRow
      OBVIOUS
  <2>1. CASE w \notin Home(d, t)
        BY <2>1
  <2>2. CASE w \in Home(d, t)
    <3>1. OutcomeOf(d, w, t) \in Outcome
          BY <2>2, OutcomeType DEF Home
    <3>2. workers[w] = [d.workers[w] EXCEPT !.assignment = None,
                                            !.lastReturn = OutcomeOf(d, w, t)]
          BY <2>2 DEF BackHome
    <3>3. d.workers[w] \in WorkerRow
          BY <1>3
    <3> HIDE DEF workers
    <3> QED BY <3>1, <3>2, <3>3 DEF WorkerRow
  <2> QED BY <2>1, <2>2
<1>5. workers \in [Worker -> WorkerRow]
      BY <1>3, <1>4
<1>6. claims \in [Node -> Claim \cup {None}]
      BY DEF Keep
<1>7. wakeups \in SUBSET Wakeup
  <2> SUFFICES ASSUME NEW w \in Away(d) \ Home(d, t)
               PROVE  WakeupOf(d, w, NextDueAt(JourneyOf(d, w), t)) \in Wakeup
      BY DEF CurrentWakeups
  <2>1. /\ w \in Worker /\ JourneyValid(JourneyOf(d, w))
        /\ d.workers[w].assignmentRevision \in Positive
        BY JourneyOfAway
  <2>2. ~Complete(JourneyOf(d, w), t)
        BY DEF Home
  <2>3. NextDueAt(JourneyOf(d, w), t) \in Nat
        BY <2>1, <2>2, NextDueInFuture
  <2> QED BY <2>1, <2>3, WakeupType
<1>8. AwaySound([d EXCEPT !.workers = workers], t)
  <2> SUFFICES ASSUME NEW w \in Worker, workers[w].assignment # None
               PROVE  workers[w] = d.workers[w]
      BY DEF AwaySound, Keep
  <2> QED BY <1>4
<1> HIDE DEF balance, workers, claims, wakeups
<1>9. r \in Keep
      BY <1>2, <1>5, <1>6, <1>7 DEF Keep
<1>10. r.workers = workers /\ r.revision = d.revision /\ r.lastAccepted = d.lastAccepted
       /\ r.receipts = d.receipts
      BY DEF Keep
<1>11. AwaySound(r, t)
  <2>1. [d EXCEPT !.workers = workers].workers = workers
        BY DEF Keep
  <2> QED BY <1>8, <1>10, <2>1 DEF AwaySound
<1> QED BY <1>1, <1>9, <1>10, <1>11

LEMMA Reconciled ==
    ASSUME NEW d \in Keep, NEW t \in Nat, StoredStateValid(d, t)
    PROVE  LET r == Reconcile(d, t)
           IN  /\ r \in Keep /\ AwaySound(r, t)
               /\ r.revision = d.revision /\ r.lastAccepted = d.lastAccepted
               /\ r.receipts = d.receipts
<1> DEFINE c == ReconcileConstruction(d, t)
<1>1. /\ c \in Keep /\ AwaySound(c, t)
      /\ c.revision = d.revision /\ c.lastAccepted = d.lastAccepted
      /\ c.receipts = d.receipts
      BY ValidIsSound, ConstructionReconciled
<1>2. Reconcile(d, t) = ReconcileWorkers(c, t)
      BY DEF Reconcile
<1> HIDE DEF c
<1> QED BY <1>1, <1>2, WorkersReconciled

LEMMA SettledType ==
    ASSUME NEW d \in Keep, NEW t \in Nat, StoredStateValid(d, t)
    PROVE  LET r == Settled(d, t)
           IN  /\ r \in Keep
               /\ r = d \/ r.revision = d.revision + 1
               /\ r.lastAccepted = d.lastAccepted /\ r.receipts = d.receipts
<1> DEFINE c == Reconcile(d, t)
<1>1. /\ c \in Keep /\ c.revision = d.revision /\ c.lastAccepted = d.lastAccepted
      /\ c.receipts = d.receipts
      BY Reconciled
<1>2. Settled(d, t) = IF c = d THEN d ELSE [c EXCEPT !.revision = @ + 1]
      BY DEF Settled
<1> HIDE DEF c
<1>3. [c EXCEPT !.revision = @ + 1] \in Keep
      BY <1>1 DEF Keep
<1>4. LET r == [c EXCEPT !.revision = @ + 1]
      IN  r.revision = c.revision + 1 /\ r.lastAccepted = c.lastAccepted
          /\ r.receipts = c.receipts
      BY <1>1 DEF Keep
<1> QED BY <1>1, <1>2, <1>3, <1>4

-----------------------------------------------------------------------------
(* Commands keep the types, and leave the revision and the sequence to        *)
(* Committed.                                                                 *)
LEMMA JourneyForType ==
    ASSUME NEW d \in Keep, NEW t \in Nat, NEW command \in DispatchCommand
    PROVE  LET j == JourneyFor(d, t, command)
           IN  /\ j \in Journey /\ j.recalledAt = NotRecalled /\ j.dispatchedAt = t
               /\ JourneyValid(j)
<1>1. command.location \in Location /\ command.duration \in GatherDuration
      BY DEF DispatchCommand
<1>2. /\ ResourceAt[command.location] \in Resource
      /\ EdgesTo[command.location] \in 0..MaxEdges
      BY <1>1, GameplayAssumption
<1>3. /\ TravelPerEdge(CompletedLevelsOf(d)) \in Nat \ {0}
      /\ GatheringYield(ResourceAt[command.location], CompletedLevelsOf(d)) \in Nat \ {0}
      BY <1>2, LevelsType, PolicyTypes
<1> DEFINE j == JourneyFor(d, t, command)
<1>4. j \in Journey /\ j.recalledAt = NotRecalled /\ j.dispatchedAt = t
      BY <1>1, <1>2, <1>3 DEF JourneyFor, DispatchJourney, Journey, NotRecalled
<1>5. /\ \E level \in Level : j.travelPerEdge = TravelAt(level)
      /\ \E level \in Level : j.yield = YieldAt(level)
  <2>1. \A b \in Building : CompletedLevelsOf(d)[b] \in Level
        BY LevelsType DEF CompletedLevels
  <2>2. /\ CompletedLevelsOf(d)[Barracks] \in Level
        /\ CompletedLevelsOf(d)[Matching[ResourceAt[command.location]]] \in Level
        BY <1>2, <2>1, PolicyAssumption
  <2> QED BY <2>2 DEF JourneyFor, DispatchJourney, TravelPerEdge, GatheringYield
<1> QED BY <1>4, <1>5 DEF JourneyValid

LEMMA DispatchedType ==
    ASSUME NEW d \in Keep, NEW t \in Nat, NEW command \in DispatchCommand,
           NEW node \in Node, DispatchAccepted(d, t, command, node)
    PROVE  LET r == Dispatched(d, t, command, node)
           IN  /\ r \in Keep
               /\ r.revision = d.revision /\ r.lastAccepted = d.lastAccepted
               /\ r.receipts = d.receipts
<1> DEFINE w == command.worker
           j == JourneyFor(d, t, command)
           revision == d.workers[w].assignmentRevision + 1
           row == [d.workers[w] EXCEPT !.assignmentRevision = revision,
                                       !.assignment = [node |-> node, journey |-> j]]
           workers == [d.workers EXCEPT ![w] = row]
           claims == [d.reservations EXCEPT ![node] = [worker |-> w, revision |-> revision]]
           wakeups == d.wakeups \cup {[worker |-> w, revision |-> revision,
                                       due |-> NextDueAt(j, t)]}
           r == [d EXCEPT !.workers = workers, !.reservations = claims, !.wakeups = wakeups]
<1>1. w \in Worker /\ command.location \in Location /\ command.duration \in GatherDuration
      BY DEF DispatchCommand
<1>2. d.workers \in [Worker -> WorkerRow] /\ d.workers[w] \in WorkerRow
      BY <1>1 DEF Keep
<1>3. revision \in Positive
      BY <1>2 DEF WorkerRow, Positive
<1>4. /\ j \in Journey /\ j.recalledAt = NotRecalled /\ j.dispatchedAt = t
      /\ JourneyValid(j)
      BY JourneyForType
<1>5. NextDueAt(j, t) \in Nat
  <2> HIDE DEF j
  <2> QED BY <1>4, JourneyTimes DEF NextDueAt
<1>6. row \in WorkerRow
  <2>1. [node |-> node, journey |-> j] \in Assignment
        BY <1>4 DEF Assignment
  <2>2. revision \in Nat
        BY <1>3 DEF Positive
  <2> HIDE DEF j, revision
  <2> QED BY <1>2, <2>1, <2>2 DEF WorkerRow
<1>7. workers \in [Worker -> WorkerRow]
  <2> HIDE DEF row
  <2> QED BY <1>2, <1>6
<1>8. claims \in [Node -> Claim \cup {None}]
  <2>1. d.reservations \in [Node -> Claim \cup {None}]
        BY DEF Keep
  <2>2. [worker |-> w, revision |-> revision] \in Claim
        BY <1>1, <1>3 DEF Claim
  <2> HIDE DEF revision
  <2> QED BY <2>1, <2>2
<1>9. wakeups \in SUBSET Wakeup
  <2>1. d.wakeups \in SUBSET Wakeup
        BY DEF Keep
  <2>2. [worker |-> w, revision |-> revision, due |-> NextDueAt(j, t)] \in Wakeup
        BY <1>1, <1>3, <1>5 DEF Wakeup
  <2> QED BY <2>1, <2>2
<1>10. Dispatched(d, t, command, node) = r
  <2> DEFINE q == [d EXCEPT !.workers[w] = row,
                            !.reservations[node] = [worker |-> w, revision |-> revision]]
  <2>1. Dispatched(d, t, command, node) = WithWakeup(q, w, NextDueAt(j, t))
        BY DEF Dispatched
  <2>2. /\ q = [d EXCEPT !.workers = workers, !.reservations = claims]
        /\ q.workers = workers /\ q.wakeups = d.wakeups
        BY DEF Keep
  <2>3. workers[w].assignmentRevision = revision
    <3>1. workers[w] = row
          BY <1>1, <1>2
    <3>2. row.assignmentRevision = revision
          BY <1>2 DEF WorkerRow
    <3> QED BY <3>1, <3>2
  <2>4. WithWakeup(q, w, NextDueAt(j, t)) = [q EXCEPT !.wakeups = wakeups]
        BY <2>2, <2>3 DEF WithWakeup, WakeupOf
  <2> HIDE DEF workers, claims, wakeups, q
  <2>5. [[d EXCEPT !.workers = workers, !.reservations = claims] EXCEPT !.wakeups = wakeups] = r
        BY DEF Keep
  <2> QED BY <2>1, <2>2, <2>4, <2>5
<1> HIDE DEF workers, claims, wakeups
<1>11. r \in Keep
      BY <1>7, <1>8, <1>9 DEF Keep
<1>12. r.revision = d.revision /\ r.lastAccepted = d.lastAccepted /\ r.receipts = d.receipts
      BY DEF Keep
<1> QED BY <1>10, <1>11, <1>12

(* What a recall leaves of a worker's journey, of its assignment and of the keep, *)
(* before it completes the journey or asks for the next wakeup.                   *)
CutJourney(d, t, w) == RecallJourney(JourneyOf(d, w), t)

CutAssignment(d, t, w) == [d.workers[w].assignment EXCEPT !.journey = CutJourney(d, t, w)]

CutKeep(d, t, w) ==
    WithoutWakeups([d EXCEPT !.workers[w].assignment.journey = CutJourney(d, t, w)], w)

LEMMA RecalledCases ==
    ASSUME NEW d, NEW t, NEW w
    PROVE  LET j == CutJourney(d, t, w)
               r == CutKeep(d, t, w)
           IN  Recalled(d, t, w) =
                   IF Idle(d, w) \/ j = JourneyOf(d, w) THEN d
                   ELSE IF Complete(j, t) THEN ReconcileWorkers(r, t)
                   ELSE WithWakeup(r, w, NextDueAt(j, t))
BY DEF Recalled, CutJourney, CutKeep

(* The rows of a worker whose journey is replaced by its recalled one. *)
LEMMA JourneyReplaced ==
    ASSUME NEW d \in Keep, NEW t \in Nat, AwaySound(d, t), NEW w \in Away(d)
    PROVE  LET j == CutJourney(d, t, w)
               a == CutAssignment(d, t, w)
               r == CutKeep(d, t, w)
           IN  /\ JourneyValid(j) /\ Observable(j, t)
               /\ r \in Keep /\ AwaySound(r, t)
               /\ r.workers = [d.workers EXCEPT ![w] = [d.workers[w] EXCEPT !.assignment = a]]
               /\ a \in Assignment /\ a.journey = j /\ a.node = d.workers[w].assignment.node
               /\ r.wakeups = d.wakeups \ WakeupsOf(d, w)
               /\ r.revision = d.revision /\ r.lastAccepted = d.lastAccepted
               /\ r.receipts = d.receipts /\ r.reservations = d.reservations
               /\ r.buildings = d.buildings /\ r.project = d.project
               /\ r.projectWakeups = d.projectWakeups
<1> DEFINE old == JourneyOf(d, w)
           j == RecallJourney(old, t)
           a == [d.workers[w].assignment EXCEPT !.journey = j]
           row == [d.workers[w] EXCEPT !.assignment = a]
           workers == [d.workers EXCEPT ![w] = row]
           wakeups == d.wakeups \ WakeupsOf(d, w)
           r == [d EXCEPT !.workers = workers, !.wakeups = wakeups]
<1>1. w \in Worker /\ d.workers[w].assignment # None
      BY DEF Away
<1>2. /\ JourneyValid(old) /\ Observable(old, t)
      /\ d.workers[w].assignmentRevision \in Positive
      BY JourneyOfAway
<1>3. JourneyValid(j) /\ Observable(j, t)
  <2> HIDE DEF old
  <2> QED BY <1>2, RecallSound
<1>4. d.workers \in [Worker -> WorkerRow] /\ d.workers[w] \in WorkerRow
      BY <1>1 DEF Keep
<1>5. d.workers[w].assignment \in Assignment
      BY <1>1, <1>4 DEF WorkerRow
<1>6. a \in Assignment /\ a.journey = j /\ a.node = d.workers[w].assignment.node
  <2>1. j \in Journey
        BY <1>3 DEF JourneyValid
  <2> HIDE DEF j
  <2> QED BY <1>5, <2>1 DEF Assignment
<1>7. WithoutWakeups([d EXCEPT !.workers[w].assignment.journey = j], w) = r
  <2> DEFINE q == [d EXCEPT !.workers = workers]
  <2>1. [d EXCEPT !.workers[w].assignment.journey = j] = q
        OBVIOUS
  <2> HIDE DEF workers
  <2>2. WakeupsOf(q, w) = WakeupsOf(d, w) /\ q.wakeups = d.wakeups
        BY DEF WakeupsOf, Keep
  <2>3. WithoutWakeups(q, w) = [q EXCEPT !.wakeups = wakeups]
        BY <2>2 DEF WithoutWakeups
  <2> HIDE DEF wakeups
  <2>4. [q EXCEPT !.wakeups = wakeups] = r
        BY DEF Keep
  <2> HIDE DEF q, r
  <2> QED BY <2>1, <2>3, <2>4
<1> HIDE DEF a, j, old
<1>8. row \in WorkerRow /\ row.assignment = a
      /\ row.assignmentRevision = d.workers[w].assignmentRevision
      BY <1>4, <1>6 DEF WorkerRow
<1> HIDE DEF row
<1>9. /\ workers \in [Worker -> WorkerRow] /\ workers[w] = row
      /\ \A v \in Worker \ {w} : workers[v] = d.workers[v]
      BY <1>1, <1>4, <1>8
<1>10. wakeups \in SUBSET Wakeup
      BY DEF Keep
<1> HIDE DEF workers, wakeups
<1>11. /\ r \in Keep /\ r.workers = workers /\ r.wakeups = wakeups
       /\ r.revision = d.revision /\ r.lastAccepted = d.lastAccepted
       /\ r.receipts = d.receipts /\ r.reservations = d.reservations
       /\ r.buildings = d.buildings /\ r.project = d.project
       /\ r.projectWakeups = d.projectWakeups
       BY <1>9, <1>10 DEF Keep
<1>12. AwaySound(r, t)
  <2> SUFFICES ASSUME NEW v \in Worker, workers[v].assignment # None
               PROVE  /\ JourneyValid(workers[v].assignment.journey)
                      /\ Observable(workers[v].assignment.journey, t)
                      /\ workers[v].assignmentRevision > 0
      BY <1>11 DEF AwaySound
  <2>1. CASE v = w
        BY <1>2, <1>3, <1>6, <1>8, <1>9, <2>1 DEF Positive
  <2>2. CASE v # w
        BY <1>9, <2>2 DEF AwaySound
  <2> QED BY <2>1, <2>2
<1> HIDE DEF r
<1>13. j = CutJourney(d, t, w) /\ a = CutAssignment(d, t, w) /\ r = CutKeep(d, t, w)
      BY <1>7 DEF CutJourney, CutAssignment, CutKeep, old, j, a
<1> QED BY <1>3, <1>6, <1>11, <1>12, <1>13 DEF workers, wakeups, row

LEMMA RecalledType ==
    ASSUME NEW d \in Keep, NEW t \in Nat, AwaySound(d, t), NEW w \in Worker
    PROVE  LET r == Recalled(d, t, w)
           IN  /\ r \in Keep
               /\ r.revision = d.revision /\ r.lastAccepted = d.lastAccepted
               /\ r.receipts = d.receipts
<1> DEFINE j == CutJourney(d, t, w)
           a == CutAssignment(d, t, w)
           r == CutKeep(d, t, w)
           row == [d.workers[w] EXCEPT !.assignment = a]
<1>1. CASE Idle(d, w) \/ j = JourneyOf(d, w)
      BY <1>1, RecalledCases
<1>2. CASE ~(Idle(d, w) \/ j = JourneyOf(d, w))
  <2>1. w \in Away(d)
        BY <1>2 DEF Idle
  <2>2. /\ JourneyValid(j) /\ r \in Keep /\ AwaySound(r, t)
        /\ r.workers = [d.workers EXCEPT ![w] = row]
        /\ r.revision = d.revision /\ r.lastAccepted = d.lastAccepted
        /\ r.receipts = d.receipts
        BY <2>1, JourneyReplaced
  <2>3. d.workers[w] \in WorkerRow /\ d.workers[w].assignmentRevision \in Positive
        BY <2>1, JourneyOfAway DEF Keep
  <2>4. row.assignmentRevision = d.workers[w].assignmentRevision
    <3> HIDE DEF a
    <3> QED BY <2>3 DEF WorkerRow
  <2>5. Recalled(d, t, w) = IF Complete(j, t) THEN ReconcileWorkers(r, t)
                            ELSE WithWakeup(r, w, NextDueAt(j, t))
        BY <1>2, RecalledCases
  <2> HIDE DEF r, j, a
  <2>6. r.workers[w].assignmentRevision \in Positive
    <3>1. d.workers \in [Worker -> WorkerRow]
          BY DEF Keep
    <3> HIDE DEF row
    <3>2. r.workers[w] = row
          BY <2>2, <3>1
    <3> QED BY <2>3, <2>4, <3>2
  <2>7. CASE Complete(j, t)
        BY <2>2, <2>5, <2>7, WorkersReconciled
  <2>8. CASE ~Complete(j, t)
    <3>1. NextDueAt(j, t) \in Nat
          BY <2>2, <2>8, NextDueInFuture
    <3> DEFINE s == WakeupOf(r, w, NextDueAt(j, t))
    <3>2. s \in Wakeup
          BY <2>6, <3>1, WakeupType
    <3>3. Recalled(d, t, w) = [r EXCEPT !.wakeups = @ \cup {s}]
          BY <2>5, <2>8 DEF WithWakeup
    <3> HIDE DEF s
    <3>4. [r EXCEPT !.wakeups = @ \cup {s}] \in Keep
          BY <2>2, <3>2 DEF Keep
    <3>5. LET x == [r EXCEPT !.wakeups = @ \cup {s}]
          IN  x.revision = r.revision /\ x.lastAccepted = r.lastAccepted
              /\ x.receipts = r.receipts
          BY <2>2 DEF Keep
    <3> QED BY <2>2, <3>3, <3>4, <3>5
  <2> QED BY <2>7, <2>8
<1> QED BY <1>1, <1>2

LEMMA BuildStartedType ==
    ASSUME NEW d \in Keep, NEW t \in Nat, NEW command \in BuildCommand,
           BuildAccepted(d, t, command)
    PROVE  LET r == BuildStarted(d, t, command)
           IN  /\ r \in Keep
               /\ r.revision = d.revision /\ r.lastAccepted = d.lastAccepted
               /\ r.receipts = d.receipts
<1> DEFINE b == command.building
           row == d.buildings[b]
           rev == IF row = None THEN 1 ELSE row.revision + 1
           cost == BuildingCost(b, command.target)
           p == [building |-> b, targetLevel |-> command.target, revision |-> rev,
                 startedAt |-> t, completesAt |-> t + command.duration,
                 cost |-> cost, duration |-> command.duration]
           new == [site |-> command.site, revision |-> rev,
                   completedLevel |-> IF row = None THEN 0 ELSE row.completedLevel]
           buildings == [d.buildings EXCEPT ![b] = new]
           balance == [q \in Resource |-> d.balance[q] - cost[q]]
           wakeups == d.projectWakeups \cup {WakeupOfProject(p)}
           r == [d EXCEPT !.buildings = buildings, !.project = p, !.balance = balance,
                          !.projectWakeups = wakeups]
<1>1. b \in Building /\ command.target \in TargetLevel /\ command.site \in Site
      BY DEF BuildCommand
<1>2. cost \in Amounts
      BY <1>1, BuildingCostType
<1>3. command.duration \in Nat \ {0}
  <2>1. command.duration = BuildingDuration(command.target, CompletedLevelsOf(d))
        BY DEF BuildAccepted
  <2> QED BY <1>1, <2>1, LevelsType, PolicyTypes
<1>4. d.buildings \in [Building -> BuildingRow \cup {None}]
      BY DEF Keep
<1>5. row \in BuildingRow \cup {None}
      BY <1>1, <1>4
<1>6. rev \in Positive
  <2> HIDE DEF row
  <2> QED BY <1>5 DEF BuildingRow, Positive
<1>7. new \in BuildingRow
  <2>1. 0 \in Level
        BY PolicyAssumption DEF Level
  <2>2. (IF row = None THEN 0 ELSE row.completedLevel) \in Level
        BY <1>5, <2>1 DEF BuildingRow
  <2> HIDE DEF rev, row
  <2> QED BY <1>1, <1>6, <2>2 DEF BuildingRow
<1>8. buildings \in [Building -> BuildingRow \cup {None}]
  <2> HIDE DEF new
  <2> QED BY <1>4, <1>7
<1>9. p \in Project
  <2>1. t + command.duration \in Nat /\ command.duration \in Positive
        BY <1>3 DEF Positive
  <2> HIDE DEF cost, rev
  <2> QED BY <1>1, <1>2, <1>6, <2>1 DEF Project
<1>10. balance \in [Resource -> 0..BalanceCap]
  <2> SUFFICES ASSUME NEW q \in Resource PROVE d.balance[q] - cost[q] \in 0..BalanceCap
      OBVIOUS
  <2>1. d.balance[q] \in 0..BalanceCap /\ cost[q] \in Nat
        BY <1>2 DEF Keep, Amounts
  <2>2. d.balance[q] >= cost[q]
        BY DEF BuildAccepted
  <2>3. BalanceCap \in Nat
        BY PolicyAssumption
  <2> HIDE DEF cost
  <2> QED BY <2>1, <2>2, <2>3
<1>11. wakeups \in SUBSET ProjectWakeup
  <2>1. WakeupOfProject(p) \in ProjectWakeup
    <3> HIDE DEF p
    <3> QED BY <1>9 DEF WakeupOfProject, ProjectWakeup, Project
  <2>2. d.projectWakeups \in SUBSET ProjectWakeup
        BY DEF Keep
  <2> HIDE DEF p
  <2> QED BY <2>1, <2>2
<1>12. BuildStarted(d, t, command) = r
  <2> DEFINE q == [d EXCEPT !.buildings[b] = new, !.project = p, !.balance = balance]
  <2>1. BuildStarted(d, t, command) = WithProjectWakeup(q, p)
        BY DEF BuildStarted
  <2>2. /\ q = [d EXCEPT !.buildings = buildings, !.project = p, !.balance = balance]
        /\ q.projectWakeups = d.projectWakeups
    <3> HIDE DEF new, p, balance
    <3> QED BY DEF Keep
  <2>3. WithProjectWakeup(q, p) = [q EXCEPT !.projectWakeups = wakeups]
        BY <2>2 DEF WithProjectWakeup
  <2> HIDE DEF buildings, p, balance, wakeups, q
  <2>4. [[d EXCEPT !.buildings = buildings, !.project = p, !.balance = balance]
            EXCEPT !.projectWakeups = wakeups] = r
        BY DEF Keep
  <2> QED BY <2>1, <2>2, <2>3, <2>4
<1> HIDE DEF buildings, p, balance, wakeups
<1>13. r \in Keep
      BY <1>8, <1>9, <1>10, <1>11 DEF Keep
<1>14. r.revision = d.revision /\ r.lastAccepted = d.lastAccepted /\ r.receipts = d.receipts
      BY DEF Keep
<1> QED BY <1>12, <1>13, <1>14

LEMMA CommittedType ==
    ASSUME NEW d \in Keep, NEW command \in Command
    PROVE  LET r == Committed(d, command)
           IN  /\ r \in Keep
               /\ r.revision = d.revision + 1
               /\ r.lastAccepted = command.sequence
               /\ r.workers = d.workers
<1> DEFINE entry == [command |-> command, revision |-> d.revision + 1]
           receipts == WithReceipt(d.receipts, command, d.revision + 1)
           revision == d.revision + 1
           sequence == command.sequence
           r == [d EXCEPT !.revision = revision, !.lastAccepted = sequence,
                          !.receipts = receipts]
<1>1. d.revision \in Nat /\ revision \in Nat
      BY DEF Keep
<1>2. sequence \in Nat
  <2>1. MaxSequence \in Nat
        BY GameplayAssumption
  <2>2. sequence \in 1..MaxSequence
        BY DEF Command, InitializeCommand, DispatchCommand, RecallCommand, BuildCommand, Envelope
  <2> QED BY <2>1, <2>2
<1>3. entry \in [command : Command, revision : Nat]
      BY <1>1
<1>4. receipts \subseteq d.receipts \cup {entry}
      BY DEF WithReceipt
<1>5. receipts \in SUBSET [command : Command, revision : Nat]
  <2>1. d.receipts \in SUBSET [command : Command, revision : Nat]
        BY DEF Keep
  <2> QED BY <1>3, <1>4, <2>1
<1>6. Committed(d, command) = r
      BY DEF Committed
<1> HIDE DEF receipts, revision, sequence
<1>7. r \in Keep
      BY <1>1, <1>2, <1>5 DEF Keep
<1>8. r.revision = revision /\ r.lastAccepted = sequence /\ r.workers = d.workers
      BY DEF Keep
<1> QED BY <1>6, <1>7, <1>8 DEF revision, sequence

LEMMA NoKeepType == NoKeep \in Keep
<1>1. IdleWorker \in WorkerRow
      BY DEF IdleWorker, WorkerRow
<1>2. [r \in Resource |-> 0] \in [Resource -> 0..BalanceCap]
      BY PolicyAssumption
<1>3. [w \in Worker |-> IdleWorker] \in [Worker -> WorkerRow]
      BY <1>1
<1>4. [n \in Node |-> None] \in [Node -> Claim \cup {None}]
      OBVIOUS
<1>5. [b \in Building |-> None] \in [Building -> BuildingRow \cup {None}]
      OBVIOUS
<1> QED BY <1>2, <1>3, <1>4, <1>5 DEF NoKeep, Keep

-----------------------------------------------------------------------------
(* Steps. *)
LEMMA StoreType ==
    ASSUME NEW d \in Keep, TypeOK, Store(d)
    PROVE  db' \in Keep /\ returned' \subseteq [worker : Worker, outcome : Outcome]
<1>1. Outcomes(d) \subseteq [worker : Worker, outcome : Outcome]
  <2> SUFFICES ASSUME NEW w \in Worker, d.workers[w].lastReturn # None
               PROVE  d.workers[w].lastReturn \in Outcome
      BY DEF Outcomes
  <2>1. d.workers \in [Worker -> WorkerRow]
        BY DEF Keep
  <2>2. d.workers[w] \in WorkerRow
        BY <2>1
  <2> QED BY <2>2 DEF WorkerRow
<1> QED BY <1>1 DEF Store, TypeOK

LEMMA AcceptType ==
    ASSUME NEW d \in Keep, NEW command \in Command, TypeOK, Accept(command, d)
    PROVE  TypeOK'
<1>1. Committed(d, command) \in Keep
      BY CommittedType
<1>2. Store(Committed(d, command)) /\ UNCHANGED <<now, anchor, lost>>
      BY DEF Accept
<1>3. db' \in Keep /\ returned' \subseteq [worker : Worker, outcome : Outcome]
      BY <1>1, <1>2, StoreType
<1>4. accepted' \subseteq [command : Command, revision : Nat]
  <2>1. d.revision + 1 \in Nat
        BY DEF Keep
  <2> QED BY <2>1 DEF Accept, TypeOK
<1> QED BY <1>2, <1>3, <1>4 DEF TypeOK

LEMMA NowType == TypeOK => now \in Nat /\ db \in Keep
BY GameplayAssumption DEF TypeOK, Time

LEMMA FreshIsValid ==
    ASSUME NEW t, NEW command, Fresh(db, t, command)
    PROVE  /\ StoredStateValid(db, t) /\ db.revision > 0
           /\ command.sequence = db.lastAccepted + 1
           /\ command.expectedRevision = db.revision
<1>1. Preflight(db, db.receipts, command) = "fresh"
      BY DEF Fresh
<1>2. InTurn(db, command) /\ Quoted(db, command)
      BY <1>1 DEF Preflight
<1> QED BY <1>2 DEF Fresh, InTurn, Quoted

(* Before there is a keep there is no command and nothing to wake up. *)
NothingYet ==
    db.revision = 0 =>
        db.lastAccepted = 0 /\ db.wakeups = {} /\ db.projectWakeups = {}

Inv == TypeOK /\ NothingYet

LEMMA AcceptStep ==
    ASSUME Inv, NEW command \in Command, NEW d \in Keep, d.revision = db.revision,
           command.sequence = db.lastAccepted + 1,
           command.expectedRevision = db.revision,
           Accept(command, d)
    PROVE  Inv' /\ Log!Accept(command)
<1>1. TypeOK'
      BY AcceptType DEF Inv
<1>2. db' = Committed(d, command)
      BY DEF Accept, Store
<1>3. db'.revision = db.revision + 1 /\ db'.lastAccepted = command.sequence
      BY <1>2, CommittedType
<1>4. db.revision \in Nat
      BY DEF Inv, TypeOK, Keep
<1>5. NothingYet'
      BY <1>3, <1>4 DEF NothingYet
<1>6. accepted' = accepted \cup {[command |-> command, revision |-> db'.revision]}
      BY <1>3 DEF Accept
<1> QED BY <1>1, <1>3, <1>5, <1>6 DEF Inv, Log!Accept

LEMMA StoreStep ==
    ASSUME Inv, NEW d \in Keep, d.revision \in {db.revision, db.revision + 1},
           d.lastAccepted = db.lastAccepted,
           d.wakeups # {} \/ d.projectWakeups # {} \/ d.revision # db.revision
              => db.revision > 0,
           Store(d), UNCHANGED <<now, anchor, accepted>>, lost' \in 0..MaxLost
    PROVE  Inv' /\ [Log!Next]_(Log!logVars)
<1>1. TypeOK'
      BY StoreType DEF Inv, TypeOK
<1>2. db' = d /\ db.revision \in Nat /\ d.revision \in Nat
      BY DEF Store, Inv, TypeOK, Keep
<1>3. NothingYet'
      BY <1>2 DEF Inv, NothingYet
<1>4. CASE d.revision = db.revision
      BY <1>1, <1>2, <1>3, <1>4 DEF Inv, Log!logVars
<1>5. CASE d.revision # db.revision
      BY <1>1, <1>2, <1>3, <1>5 DEF Inv, Log!Next, Log!Settle
<1> QED BY <1>4, <1>5

LEMMA TimerStep ==
    ASSUME Inv, NEW d \in Keep, NEW current,
           d = (IF Runs(current) THEN Settled(db, now) ELSE db), db.revision > 0
    PROVE  /\ d.revision \in {db.revision, db.revision + 1}
           /\ d.lastAccepted = db.lastAccepted
<1>1. CASE Runs(current)
  <2>1. StoredStateValid(db, now)
        BY <1>1 DEF Runs
  <2>2. d = Settled(db, now)
        BY <1>1
  <2> QED BY <2>1, <2>2, NowType, SettledType DEF Inv
<1>2. CASE ~Runs(current)
      BY <1>2
<1> QED BY <1>1, <1>2

LEMMA TimerType ==
    ASSUME Inv, NEW current
    PROVE  (IF Runs(current) THEN Settled(db, now) ELSE db) \in Keep
<1>1. CASE Runs(current)
      BY <1>1, NowType, SettledType DEF Inv, Runs
<1>2. CASE ~Runs(current)
      BY <1>2, NowType DEF Inv
<1> QED BY <1>1, <1>2

LEMMA InvInit == Init => Inv
<1>1. Init => TypeOK
      BY NoKeepType, GameplayAssumption DEF Init, TypeOK, Time
<1>2. Init => NothingYet
      BY DEF Init, NothingYet, NoKeep
<1> QED BY <1>1, <1>2 DEF Inv

LEMMA InvNext ==
    ASSUME Inv, [Next]_vars
    PROVE  Inv' /\ [Log!Next]_(Log!logVars)
<1>0. now \in Nat /\ db \in Keep /\ MaxLost \in Nat /\ lost \in 0..MaxLost
      BY NowType, GameplayAssumption DEF Inv, TypeOK
<1> DEFINE r == Reconcile(db, now)
<1>1. ASSUME NEW c \in InitializeCommand, Initialize(c)
      PROVE  Inv' /\ [Log!Next]_(Log!logVars)
  <2>1. c \in Command
        BY DEF Command
  <2>2. NoKeep \in Keep /\ NoKeep.revision = 0
        BY NoKeepType DEF NoKeep
  <2>3. /\ db.revision = 0 /\ db.lastAccepted = 0
        /\ c.sequence = 1 /\ c.expectedRevision = 0 /\ Accept(c, NoKeep)
        BY <1>1 DEF Initialize, Inv, NothingYet
  <2>4. Inv' /\ Log!Accept(c)
        BY <2>1, <2>2, <2>3, AcceptStep
  <2> QED BY <2>1, <2>4 DEF Log!Next
<1>2. ASSUME NEW c \in DispatchCommand, DispatchWorker(c)
      PROVE  Inv' /\ [Log!Next]_(Log!logVars)
  <2>1. c \in Command
        BY DEF Command
  <2>2. Fresh(db, now, c)
        BY <1>2 DEF DispatchWorker
  <2>3. r \in Keep /\ r.revision = db.revision
        BY <1>0, <2>2, FreshIsValid, Reconciled
  <2>4. PICK node \in Node : /\ DispatchAccepted(r, now, c, node)
                             /\ Accept(c, Dispatched(r, now, c, node))
        BY <1>2 DEF DispatchWorker
  <2> DEFINE d == Dispatched(r, now, c, node)
  <2> HIDE DEF r
  <2>5. d \in Keep /\ d.revision = db.revision
        BY <1>0, <2>3, <2>4, DispatchedType
  <2> HIDE DEF d
  <2>6. Inv' /\ Log!Accept(c)
        BY <2>1, <2>2, <2>4, <2>5, AcceptStep, FreshIsValid DEF d
  <2> QED BY <2>1, <2>6 DEF Log!Next
<1>3. ASSUME NEW c \in RecallCommand, RecallWorker(c)
      PROVE  Inv' /\ [Log!Next]_(Log!logVars)
  <2>1. c \in Command /\ c.worker \in Worker
        BY DEF Command, RecallCommand
  <2>2. Fresh(db, now, c)
        BY <1>3 DEF RecallWorker
  <2>3. r \in Keep /\ r.revision = db.revision /\ AwaySound(r, now)
        BY <1>0, <2>2, FreshIsValid, Reconciled
  <2> DEFINE d == Recalled(r, now, c.worker)
  <2>4. Accept(c, d)
        BY <1>3 DEF RecallWorker
  <2> HIDE DEF r
  <2>5. d \in Keep /\ d.revision = db.revision
        BY <1>0, <2>1, <2>3, RecalledType
  <2> HIDE DEF d
  <2>6. Inv' /\ Log!Accept(c)
        BY <2>1, <2>2, <2>4, <2>5, AcceptStep, FreshIsValid
  <2> QED BY <2>1, <2>6 DEF Log!Next
<1>4. ASSUME NEW c \in BuildCommand, StartBuilding(c)
      PROVE  Inv' /\ [Log!Next]_(Log!logVars)
  <2>1. c \in Command
        BY DEF Command
  <2>2. Fresh(db, now, c)
        BY <1>4 DEF StartBuilding
  <2>3. r \in Keep /\ r.revision = db.revision
        BY <1>0, <2>2, FreshIsValid, Reconciled
  <2> DEFINE d == BuildStarted(r, now, c)
  <2>4. BuildAccepted(r, now, c) /\ Accept(c, d)
        BY <1>4 DEF StartBuilding
  <2> HIDE DEF r
  <2>5. d \in Keep /\ d.revision = db.revision
        BY <1>0, <2>3, <2>4, BuildStartedType
  <2> HIDE DEF d
  <2>6. Inv' /\ Log!Accept(c)
        BY <2>1, <2>2, <2>4, <2>5, AcceptStep, FreshIsValid
  <2> QED BY <2>1, <2>6 DEF Log!Next
<1>5. CASE GetKeep
  <2> DEFINE d == Settled(db, now)
  <2>1. db.revision > 0 /\ Store(d) /\ UNCHANGED <<now, anchor, accepted, lost>>
        BY <1>5 DEF GetKeep
  <2>2. /\ d \in Keep /\ d.revision \in {db.revision, db.revision + 1}
        /\ d.lastAccepted = db.lastAccepted
        BY <1>0, <1>5, SettledType DEF GetKeep
  <2> HIDE DEF d
  <2> QED BY <1>0, <2>1, <2>2, StoreStep
<1>6. ASSUME NEW s \in db.wakeups, RunWorkerWakeup(s)
      PROVE  Inv' /\ [Log!Next]_(Log!logVars)
  <2> DEFINE current == s.worker \in Away(db)
                           /\ db.workers[s.worker].assignmentRevision = s.revision
             d == IF Runs(current) THEN Settled(db, now) ELSE db
             e == [d EXCEPT !.wakeups = @ \ {s}]
  <2>1. Store(e) /\ UNCHANGED <<now, anchor, accepted, lost>>
        BY <1>6 DEF RunWorkerWakeup
  <2>2. db.revision > 0
        BY <1>0 DEF Inv, NothingYet, Keep
  <2>3. d \in Keep
        BY TimerType
  <2>4. d.revision \in {db.revision, db.revision + 1} /\ d.lastAccepted = db.lastAccepted
    <3> HIDE DEF current
    <3> QED BY <2>2, <2>3, TimerStep
  <2> HIDE DEF d
  <2>5. /\ e \in Keep /\ e.revision = d.revision /\ e.lastAccepted = d.lastAccepted
        BY <2>3 DEF Keep
  <2> HIDE DEF e
  <2> QED BY <1>0, <2>1, <2>2, <2>4, <2>5, StoreStep
<1>7. ASSUME NEW s \in db.projectWakeups, RunProjectWakeup(s)
      PROVE  Inv' /\ [Log!Next]_(Log!logVars)
  <2> DEFINE current == db.project # None /\ s = WakeupOfProject(db.project)
             d == IF Runs(current) THEN Settled(db, now) ELSE db
             e == [d EXCEPT !.projectWakeups = @ \ {s}]
  <2>1. Store(e) /\ UNCHANGED <<now, anchor, accepted, lost>>
        BY <1>7 DEF RunProjectWakeup
  <2>2. db.revision > 0
        BY <1>0 DEF Inv, NothingYet, Keep
  <2>3. d \in Keep
        BY TimerType
  <2>4. d.revision \in {db.revision, db.revision + 1} /\ d.lastAccepted = db.lastAccepted
    <3> HIDE DEF current
    <3> QED BY <2>2, <2>3, TimerStep
  <2> HIDE DEF d
  <2>5. /\ e \in Keep /\ e.revision = d.revision /\ e.lastAccepted = d.lastAccepted
        BY <2>3 DEF Keep
  <2> HIDE DEF e
  <2> QED BY <1>0, <2>1, <2>2, <2>4, <2>5, StoreStep
<1>8. CASE LoseWakeup
  <2>1. /\ UNCHANGED <<now, anchor, accepted, returned>> /\ lost' \in 0..MaxLost
        BY <1>0, <1>8 DEF LoseWakeup
  <2>2. \/ \E s \in db.wakeups : db' = [db EXCEPT !.wakeups = @ \ {s}]
        \/ \E s \in db.projectWakeups : db' = [db EXCEPT !.projectWakeups = @ \ {s}]
        BY <1>8 DEF LoseWakeup
  <2>3. /\ db' \in Keep /\ db'.revision = db.revision
        /\ db'.lastAccepted = db.lastAccepted
        /\ db'.wakeups \subseteq db.wakeups
        /\ db'.projectWakeups \subseteq db.projectWakeups
        BY <1>0, <2>2 DEF Keep
  <2>4. TypeOK'
        BY <2>1, <2>3 DEF Inv, TypeOK
  <2>5. NothingYet'
        BY <2>3 DEF Inv, NothingYet
  <2> QED BY <2>1, <2>3, <2>4, <2>5 DEF Inv, Log!logVars
<1>9. CASE ProvisionOwner \/ SuspendOwner
      BY <1>9 DEF ProvisionOwner, SuspendOwner, Inv, TypeOK, NothingYet, Log!logVars
<1>10. CASE Tick
  <2>1. now' \in Time
        BY <1>10, GameplayAssumption DEF Tick, Inv, TypeOK, Time
  <2> QED BY <1>10, <2>1 DEF Tick, Inv, TypeOK, NothingYet, Log!logVars
<1>11. CASE UNCHANGED vars
      BY <1>11 DEF vars, Inv, TypeOK, NothingYet, Log!logVars
<1> QED BY <1>1, <1>2, <1>3, <1>4, <1>5, <1>6, <1>7, <1>8, <1>9, <1>10, <1>11 DEF Next

-----------------------------------------------------------------------------
(* Every history of commands, reads, timers and faults keeps the rows well    *)
(* typed: balances stay between zero and the cap, levels within their range,  *)
(* and no record the code would refuse to decode is ever stored.              *)
THEOREM TypeCorrect == Spec => []TypeOK
<1>1. Inv /\ [Next]_vars => Inv'
      BY InvNext
<1> QED BY <1>1, InvInit, PTL DEF Spec, Inv

(* A keep is a command log, whatever its commands do and however timers run,  *)
(* are late or are lost (commitGameplay04Command, reconcileGameplay04).       *)
THEOREM CommandLogImplemented == Spec => ImplementsCommandLog
<1>1. Init => Log!Init
      BY DEF Init, NoKeep, Log!Init
<1>2. Inv /\ [Next]_vars => Inv' /\ [Log!Next]_(Log!logVars)
      BY InvNext
<1> QED BY <1>1, <1>2, InvInit, PTL DEF Spec, ImplementsCommandLog, Log!Spec

-----------------------------------------------------------------------------
(* What a command log looks like after any number of steps.  The parts of     *)
(* InOrder and AtMostOnce are inductive together: the new entry has a         *)
(* sequence and a revision above all older ones.                              *)
LogInv == Log!LogType /\ Log!AtMostOnce /\ Log!InOrder

LEMMA LogInvInit == Log!Init => LogInv
BY DEF Log!Init, LogInv, Log!LogType, Log!AtMostOnce, Log!InOrder

LEMMA LogInvAccept ==
    ASSUME LogInv, NEW c \in Command, Log!Accept(c)
    PROVE  LogInv'
<1> DEFINE new == [command |-> c, revision |-> db.revision + 1]
<1>1. /\ db.lastAccepted \in Nat /\ db.revision \in Nat
      /\ c.sequence = db.lastAccepted + 1 /\ c.expectedRevision = db.revision
      /\ db'.revision = db.revision + 1 /\ db'.lastAccepted = db.lastAccepted + 1
      /\ accepted' = accepted \cup {new}
      BY DEF Log!Accept, LogInv, Log!LogType
<1>2. Log!LogType'
      BY <1>1 DEF LogInv, Log!LogType
<1>3. \A e \in accepted : e.command.sequence \in 1..db.lastAccepted
      BY DEF LogInv, Log!InOrder
<1>4. \A e \in accepted : e.command.sequence # new.command.sequence
      BY <1>1, <1>3
<1>5. Log!AtMostOnce'
      BY <1>1, <1>4 DEF LogInv, Log!AtMostOnce
<1>6. {e.command.sequence : e \in accepted'} = 1..db'.lastAccepted
  <2>1. {e.command.sequence : e \in accepted'}
            = {e.command.sequence : e \in accepted} \cup {db.lastAccepted + 1}
    <3>1. new.command.sequence = db.lastAccepted + 1 /\ accepted' = accepted \cup {new}
          BY <1>1
    <3> HIDE DEF new
    <3> QED BY <3>1
  <2>2. 1..db'.lastAccepted = (1..db.lastAccepted) \cup {db.lastAccepted + 1}
        BY <1>1
  <2> QED BY <2>1, <2>2 DEF LogInv, Log!InOrder
<1>7. \A e \in accepted' : /\ e.revision \in 1..db'.revision
                            /\ e.revision = e.command.expectedRevision + 1
      BY <1>1 DEF LogInv, Log!InOrder
<1>8. \A e, f \in accepted' :
          e.command.sequence < f.command.sequence => e.revision < f.revision
  <2> SUFFICES ASSUME NEW e \in accepted', NEW f \in accepted',
                      e.command.sequence < f.command.sequence
               PROVE  e.revision < f.revision
      OBVIOUS
  <2>1. CASE e \in accepted /\ f \in accepted
        BY <2>1 DEF LogInv, Log!InOrder
  <2>2. CASE e \in accepted /\ f = new
        BY <1>1, <2>2 DEF LogInv, Log!InOrder
  <2>3. CASE e = new
    <3>1. f.command.sequence \in 1..(db.lastAccepted + 1)
          BY <1>1, <1>3
    <3> QED BY <1>1, <2>3, <3>1
  <2> QED BY <1>1, <2>1, <2>2, <2>3
<1> QED BY <1>2, <1>5, <1>6, <1>7, <1>8 DEF LogInv, Log!InOrder

LEMMA LogInvSettle == LogInv /\ Log!Settle => LogInv'
BY DEF LogInv, Log!LogType, Log!AtMostOnce, Log!InOrder, Log!Settle

(* Whatever behaves like a command log executes every sequence at most once,  *)
(* without gaps, in order, each at the revision its author quoted             *)
(* (preflightSequence04 and commitGameplay04Command).                         *)
THEOREM LogCorrect == ImplementsCommandLog => []CommandsInOrder
<1>1. LogInv /\ [Log!Next]_(Log!logVars) => LogInv'
  <2> SUFFICES ASSUME LogInv, [Log!Next]_(Log!logVars) PROVE LogInv'
      OBVIOUS
  <2>1. CASE Log!Settle
        BY <2>1, LogInvSettle
  <2>2. CASE \E c \in Command : Log!Accept(c)
        BY <2>2, LogInvAccept
  <2>3. CASE UNCHANGED Log!logVars
        BY <2>3 DEF LogInv, Log!LogType, Log!AtMostOnce, Log!InOrder, Log!logVars
  <2> QED BY <2>1, <2>2, <2>3 DEF Log!Next
<1> QED BY <1>1, LogInvInit, PTL DEF ImplementsCommandLog, Log!Spec, LogInv, CommandsInOrder

(* Nothing is executed twice, and commands take effect in the order of their  *)
(* sequences, each at the revision its author had seen.                       *)
THEOREM CommandsInOrderAlways == Spec => []CommandsInOrder
BY LogCorrect, CommandLogImplemented
-----------------------------------------------------------------------------
(* What a client sees. *)
LEMMA ViewOfWakeups ==
    ASSUME NEW d, NEW ws
    PROVE  View([d EXCEPT !.wakeups = ws]) = View(d)
           /\ View([d EXCEPT !.projectWakeups = ws]) = View(d)
BY DEF View

LEMMA RevisionOfWakeups ==
    ASSUME NEW d \in Keep, NEW ws
    PROVE  /\ [d EXCEPT !.wakeups = ws].revision = d.revision
           /\ [d EXCEPT !.projectWakeups = ws].revision = d.revision
<1>1. "revision" \in DOMAIN d
      BY DEF Keep
<1> QED BY <1>1

LEMMA AcceptedRevision ==
    ASSUME NEW command \in Command, NEW d \in Keep, d.revision = db.revision,
           Accept(command, d)
    PROVE  db'.revision = db.revision + 1
BY CommittedType DEF Accept, Store

LEMMA ViewStep ==
    ASSUME Inv, [Next]_vars, View(db') # View(db)
    PROVE  db'.revision = db.revision + 1
<1>0. now \in Nat /\ db \in Keep
      BY NowType DEF Inv
<1> DEFINE Goal == db'.revision = db.revision + 1
           r == Reconcile(db, now)
<1>1. ASSUME NEW c \in InitializeCommand, Initialize(c) PROVE Goal
  <2>1. c \in Command /\ NoKeep \in Keep /\ NoKeep.revision = 0
        BY NoKeepType DEF Command, NoKeep
  <2> QED BY <1>1, <2>1, AcceptedRevision DEF Initialize
<1>2. ASSUME NEW c \in DispatchCommand, DispatchWorker(c) PROVE Goal
  <2>1. c \in Command /\ r \in Keep /\ r.revision = db.revision
        BY <1>0, <1>2, FreshIsValid, Reconciled DEF Command, DispatchWorker
  <2>2. PICK node \in Node : /\ DispatchAccepted(r, now, c, node)
                             /\ Accept(c, Dispatched(r, now, c, node))
        BY <1>2 DEF DispatchWorker
  <2> HIDE DEF r
  <2> QED BY <1>0, <2>1, <2>2, DispatchedType, AcceptedRevision
<1>3. ASSUME NEW c \in RecallCommand, RecallWorker(c) PROVE Goal
  <2>1. c \in Command /\ c.worker \in Worker
        BY DEF Command, RecallCommand
  <2>2. r \in Keep /\ r.revision = db.revision /\ AwaySound(r, now)
        BY <1>0, <1>3, FreshIsValid, Reconciled DEF RecallWorker
  <2>3. Accept(c, Recalled(r, now, c.worker))
        BY <1>3 DEF RecallWorker
  <2> HIDE DEF r
  <2> QED BY <1>0, <2>1, <2>2, <2>3, RecalledType, AcceptedRevision
<1>4. ASSUME NEW c \in BuildCommand, StartBuilding(c) PROVE Goal
  <2>1. c \in Command /\ r \in Keep /\ r.revision = db.revision
        BY <1>0, <1>4, FreshIsValid, Reconciled DEF Command, StartBuilding
  <2>2. BuildAccepted(r, now, c) /\ Accept(c, BuildStarted(r, now, c))
        BY <1>4 DEF StartBuilding
  <2> HIDE DEF r
  <2> QED BY <1>0, <2>1, <2>2, BuildStartedType, AcceptedRevision
<1>5. ASSUME NEW d, d = db \/ (d = Settled(db, now) /\ StoredStateValid(db, now)),
             db'.revision = d.revision, View(db') = View(d)
      PROVE  Goal
  <2>1. d = db \/ d.revision = db.revision + 1
        BY <1>0, <1>5, SettledType
  <2> QED BY <1>5, <2>1
<1>6. ASSUME GetKeep PROVE Goal
  <2>1. db' = Settled(db, now) /\ StoredStateValid(db, now)
        BY <1>6 DEF GetKeep, Store
  <2> QED BY <1>5, <2>1
<1>7. ASSUME NEW s \in db.wakeups, RunWorkerWakeup(s) PROVE Goal
  <2> DEFINE current == s.worker \in Away(db)
                           /\ db.workers[s.worker].assignmentRevision = s.revision
             d == IF Runs(current) THEN Settled(db, now) ELSE db
  <2>1. db' = [d EXCEPT !.wakeups = @ \ {s}] /\ d \in Keep
        BY <1>7, TimerType DEF RunWorkerWakeup, Store
  <2>2. d = db \/ (d = Settled(db, now) /\ StoredStateValid(db, now))
        BY DEF Runs
  <2> HIDE DEF d
  <2>3. db'.revision = d.revision
        BY <2>1, RevisionOfWakeups
  <2>4. View(db') = View(d)
        BY <2>1, ViewOfWakeups
  <2> QED BY <1>5, <2>2, <2>3, <2>4
<1>8. ASSUME NEW s \in db.projectWakeups, RunProjectWakeup(s) PROVE Goal
  <2> DEFINE current == db.project # None /\ s = WakeupOfProject(db.project)
             d == IF Runs(current) THEN Settled(db, now) ELSE db
  <2>1. db' = [d EXCEPT !.projectWakeups = @ \ {s}] /\ d \in Keep
        BY <1>8, TimerType DEF RunProjectWakeup, Store
  <2>2. d = db \/ (d = Settled(db, now) /\ StoredStateValid(db, now))
        BY DEF Runs
  <2> HIDE DEF d
  <2>3. db'.revision = d.revision
        BY <2>1, RevisionOfWakeups
  <2>4. View(db') = View(d)
        BY <2>1, ViewOfWakeups
  <2> QED BY <1>5, <2>2, <2>3, <2>4
<1>9. ASSUME LoseWakeup PROVE FALSE
  <2>1. \/ \E s : db' = [db EXCEPT !.wakeups = @ \ {s}]
        \/ \E s : db' = [db EXCEPT !.projectWakeups = @ \ {s}]
        BY <1>9 DEF LoseWakeup
  <2>2. ASSUME NEW s, db' = [db EXCEPT !.wakeups = @ \ {s}] PROVE FALSE
    <3>1. View([db EXCEPT !.wakeups = @ \ {s}]) = View(db)
          BY ViewOfWakeups
    <3> QED BY <2>2, <3>1
  <2>3. ASSUME NEW s, db' = [db EXCEPT !.projectWakeups = @ \ {s}] PROVE FALSE
    <3>1. View([db EXCEPT !.projectWakeups = @ \ {s}]) = View(db)
          BY ViewOfWakeups
    <3> QED BY <2>3, <3>1
  <2> QED BY <2>1, <2>2, <2>3
<1>10. db' # db
       OBVIOUS
<1> QED BY <1>1, <1>2, <1>3, <1>4, <1>6, <1>7, <1>8, <1>9, <1>10
        DEF Next, ProvisionOwner, SuspendOwner, Tick, vars

(* Whatever a client can see of the keep changes only together with the       *)
(* revision, by one: two reads at one revision show the same keep             *)
(* (reconcileGameplay04, commitGameplay04Command).                            *)
THEOREM RevisionPinsViewAlways == Spec => RevisionPinsView
<1>1. Inv /\ [Next]_vars => [View(db') # View(db) => db'.revision = db.revision + 1]_vars
      BY ViewStep
<1>2. Inv /\ [Next]_vars => Inv'
      BY InvNext
<1> QED BY <1>1, <1>2, InvInit, PTL DEF Spec, RevisionPinsView

(* After the suspension no timer, read or command changes anything a player   *)
(* owns, and nothing lifts it (planPtrOwnerSuspension,                        *)
(* runGameplay04ScheduleV1).                                                  *)
THEOREM SuspensionFreezesAlways == Spec => SuspensionFreezes
<1>1. ASSUME Inv, [Next]_vars, anchor = "suspended"
      PROVE  anchor' = "suspended" /\ View(db') = View(db) /\ db'.revision = db.revision
  <2>0. db \in Keep
        BY <1>1, NowType DEF Inv
  <2>1. \/ \E s \in db.wakeups : RunWorkerWakeup(s)
        \/ \E s \in db.projectWakeups : RunProjectWakeup(s)
        \/ LoseWakeup \/ Tick \/ UNCHANGED vars
        BY <1>1 DEF Next, Initialize, DispatchWorker, RecallWorker, StartBuilding, GetKeep,
                    ProvisionOwner, SuspendOwner
  <2>2. anchor' = anchor
        BY <2>1 DEF RunWorkerWakeup, RunProjectWakeup, LoseWakeup, Tick, vars
  <2>3. \/ db' = db
        \/ \E s : db' = [db EXCEPT !.wakeups = @ \ {s}]
        \/ \E s : db' = [db EXCEPT !.projectWakeups = @ \ {s}]
    <3>1. \A current : ~Runs(current)
          BY <1>1 DEF Runs
    <3>2. ASSUME NEW s \in db.wakeups, RunWorkerWakeup(s)
          PROVE  db' = [db EXCEPT !.wakeups = @ \ {s}]
          BY <3>1, <3>2 DEF RunWorkerWakeup, Store
    <3>3. ASSUME NEW s \in db.projectWakeups, RunProjectWakeup(s)
          PROVE  db' = [db EXCEPT !.projectWakeups = @ \ {s}]
          BY <3>1, <3>3 DEF RunProjectWakeup, Store
    <3> QED BY <2>1, <3>2, <3>3 DEF LoseWakeup, Tick, vars
  <2>4. db'.revision = db.revision
    <3>1. CASE db' = db
          BY <3>1
    <3>2. ASSUME NEW s, db' = [db EXCEPT !.wakeups = @ \ {s}] PROVE db'.revision = db.revision
          BY <2>0, <3>2, RevisionOfWakeups
    <3>3. ASSUME NEW s, db' = [db EXCEPT !.projectWakeups = @ \ {s}] PROVE db'.revision = db.revision
          BY <2>0, <3>3, RevisionOfWakeups
    <3> QED BY ONLY <2>3, <3>1, <3>2, <3>3
  <2>5. View(db') = View(db)
    <3>1. CASE db' = db
          BY <3>1
    <3>2. ASSUME NEW s, db' = [db EXCEPT !.wakeups = @ \ {s}] PROVE View(db') = View(db)
          BY <3>2, ViewOfWakeups
    <3>3. ASSUME NEW s, db' = [db EXCEPT !.projectWakeups = @ \ {s}] PROVE View(db') = View(db)
          BY <3>3, ViewOfWakeups
    <3> QED BY ONLY <2>3, <3>1, <3>2, <3>3
  <2> QED BY <1>1, <2>2, <2>4, <2>5
<1>2. Inv /\ [Next]_vars => Inv'
      BY InvNext
<1>3. Inv /\ [Next]_vars =>
        [anchor = "suspended" => anchor' = "suspended" /\ View(db') = View(db)
                                 /\ db'.revision = db.revision]_vars
      BY <1>1
<1> QED BY <1>2, <1>3, InvInit, PTL DEF Spec, SuspensionFreezes

-----------------------------------------------------------------------------
(* One worker: the journeys it came home from are numbered up to its          *)
(* assignment revision, without the one it is still on.                       *)
HomeCount(row) == row.assignmentRevision - (IF row.assignment # None THEN 1 ELSE 0)

Accounted(row, outcomes) ==
    /\ row.assignmentRevision \in Nat
    /\ row.assignment # None => row.assignmentRevision > 0
    /\ {o.assignmentRevision : o \in outcomes} = 1..HomeCount(row)
    /\ \A o, p \in outcomes : o.assignmentRevision = p.assignmentRevision => o = p
    /\ row.lastReturn # None => row.lastReturn \in outcomes

Last(row) == IF row.lastReturn = None THEN {} ELSE {row.lastReturn}

(* What a transaction may do to the row of a worker. *)
Kept(row, new) ==
    /\ new.assignmentRevision = row.assignmentRevision
    /\ new.lastReturn = row.lastReturn
    /\ new.assignment = None <=> row.assignment = None

CameHome(row, new) ==
    /\ row.assignment # None /\ new.assignment = None
    /\ new.assignmentRevision = row.assignmentRevision
    /\ new.lastReturn # None
    /\ new.lastReturn.assignmentRevision = row.assignmentRevision

Settles(row, new) == Kept(row, new) \/ CameHome(row, new)

Sent(row, new) ==
    /\ row.assignment = None /\ new.assignment # None
    /\ new.assignmentRevision = row.assignmentRevision + 1
    /\ new.lastReturn = row.lastReturn

LEMMA SettlesTwice ==
    ASSUME NEW row, NEW between, NEW new, Settles(row, between), Settles(between, new)
    PROVE  Settles(row, new)
BY DEF Settles, Kept, CameHome

LEMMA SettlingAccounts ==
    ASSUME NEW row, NEW new, NEW outcomes, Accounted(row, outcomes), Settles(row, new)
    PROVE  Accounted(new, outcomes \cup Last(new))
<1>1. CASE Kept(row, new)
  <2>1. outcomes \cup Last(new) = outcomes
        BY <1>1 DEF Kept, Accounted, Last
  <2>2. HomeCount(new) = HomeCount(row)
        BY <1>1 DEF Kept, HomeCount
  <2> QED BY <1>1, <2>1, <2>2 DEF Kept, Accounted
<1>2. CASE CameHome(row, new)
  <2> DEFINE k == row.assignmentRevision
             o == new.lastReturn
  <2>1. /\ k \in Nat /\ k > 0 /\ Last(new) = {o} /\ o.assignmentRevision = k
        /\ new.assignmentRevision = k /\ new.assignment = None
        BY <1>2 DEF CameHome, Accounted, Last
  <2>2. HomeCount(row) = k - 1 /\ HomeCount(new) = k
        BY <1>2, <2>1 DEF CameHome, HomeCount
  <2>3. {p.assignmentRevision : p \in outcomes} = 1..(k - 1)
        BY <2>2 DEF Accounted
  <2>4. \A p \in outcomes : p.assignmentRevision \in 1..(k - 1)
        BY <2>3
  <2>5. \A p \in outcomes : p.assignmentRevision # k
        BY <2>1, <2>4
  <2>6. {p.assignmentRevision : p \in outcomes \cup {o}} = 1..(k - 1) \cup {k}
    <3>1. {p.assignmentRevision : p \in outcomes \cup {o}}
             = {p.assignmentRevision : p \in outcomes} \cup {o.assignmentRevision}
          OBVIOUS
    <3> QED BY <2>1, <2>3, <3>1
  <2>7. 1..(k - 1) \cup {k} = 1..k
        BY <2>1
  <2>8. \A p, q \in outcomes \cup {o} : p.assignmentRevision = q.assignmentRevision => p = q
        BY <2>1, <2>5 DEF Accounted
  <2> HIDE DEF k, o
  <2> QED BY <2>1, <2>2, <2>6, <2>7, <2>8 DEF Accounted, o
<1> QED BY <1>1, <1>2 DEF Settles

LEMMA SendingAccounts ==
    ASSUME NEW row, NEW new, NEW outcomes, Accounted(row, outcomes), Sent(row, new)
    PROVE  Accounted(new, outcomes)
<1>1. HomeCount(new) = HomeCount(row)
      BY DEF Sent, Accounted, HomeCount
<1> QED BY <1>1 DEF Sent, Accounted

-----------------------------------------------------------------------------
(* All workers. *)
KeepSettles(d, r) == \A w \in Worker : Settles(d.workers[w], r.workers[w])

LEMMA WorkersSettle ==
    ASSUME NEW d \in Keep, NEW t \in Nat, AwaySound(d, t)
    PROVE  KeepSettles(d, ReconcileWorkers(d, t))
<1> DEFINE r == ReconcileWorkers(d, t)
<1>1. \A w \in Worker : r.workers[w] = IF w \in Home(d, t)
                                       THEN BackHome(d.workers[w], OutcomeOf(d, w, t))
                                       ELSE d.workers[w]
      BY DEF ReconcileWorkers, Keep
<1> SUFFICES ASSUME NEW w \in Worker PROVE Settles(d.workers[w], r.workers[w])
    BY DEF KeepSettles
<1>2. CASE w \notin Home(d, t)
      BY <1>1, <1>2 DEF Settles, Kept
<1>3. CASE w \in Home(d, t)
  <2>1. w \in Away(d) /\ d.workers[w].assignment # None
        BY <1>3 DEF Home, Away
  <2>2. OutcomeOf(d, w, t) # None
        BY <2>1, OutcomeType, NoneAssumption
  <2>3. OutcomeOf(d, w, t).assignmentRevision = d.workers[w].assignmentRevision
        BY DEF OutcomeOf
  <2> DEFINE o == OutcomeOf(d, w, t)
             row == d.workers[w]
             new == [row EXCEPT !.assignment = None, !.lastReturn = o]
  <2>4. r.workers[w] = new
        BY <1>1, <1>3 DEF BackHome
  <2>5. row \in WorkerRow
        BY DEF Keep
  <2> HIDE DEF o, row
  <2>6. new.assignment = None /\ new.lastReturn = o
        /\ new.assignmentRevision = row.assignmentRevision
        BY <2>5 DEF WorkerRow
  <2> QED BY <2>1, <2>2, <2>3, <2>4, <2>6 DEF Settles, CameHome, o, row
<1> QED BY <1>2, <1>3

LEMMA ReconcileSettles ==
    ASSUME NEW d \in Keep, NEW t \in Nat, StoredStateValid(d, t)
    PROVE  KeepSettles(d, Reconcile(d, t))
<1> DEFINE c == ReconcileConstruction(d, t)
<1>1. c \in Keep /\ AwaySound(c, t)
      BY ValidIsSound, ConstructionReconciled
<1>2. c.workers = d.workers
      BY DEF ReconcileConstruction, WithProjectWakeup, Keep
<1>3. Reconcile(d, t) = ReconcileWorkers(c, t)
      BY DEF Reconcile
<1> HIDE DEF c
<1>4. KeepSettles(c, ReconcileWorkers(c, t))
      BY <1>1, WorkersSettle
<1> QED BY <1>2, <1>3, <1>4 DEF KeepSettles

LEMMA SettledSettles ==
    ASSUME NEW d \in Keep, NEW t \in Nat, StoredStateValid(d, t)
    PROVE  KeepSettles(d, Settled(d, t))
<1> DEFINE c == Reconcile(d, t)
<1>1. c \in Keep /\ KeepSettles(d, c)
      BY Reconciled, ReconcileSettles
<1>2. Settled(d, t) = IF c = d THEN d ELSE [c EXCEPT !.revision = @ + 1]
      BY DEF Settled
<1> HIDE DEF c
<1>3. [c EXCEPT !.revision = @ + 1].workers = c.workers
      BY <1>1 DEF Keep
<1>4. Settled(d, t).workers \in {d.workers, c.workers}
      BY <1>2, <1>3
<1>5. KeepSettles(d, d)
      BY DEF KeepSettles, Settles, Kept
<1> QED BY <1>1, <1>4, <1>5 DEF KeepSettles

LEMMA RecalledSettles ==
    ASSUME NEW d \in Keep, NEW t \in Nat, AwaySound(d, t), NEW w \in Worker
    PROVE  KeepSettles(d, Recalled(d, t, w))
<1> DEFINE j == CutJourney(d, t, w)
           a == CutAssignment(d, t, w)
           row == [d.workers[w] EXCEPT !.assignment = a]
           r == CutKeep(d, t, w)
<1>1. CASE Idle(d, w) \/ j = JourneyOf(d, w)
      BY <1>1, RecalledCases DEF KeepSettles, Settles, Kept
<1>2. CASE ~(Idle(d, w) \/ j = JourneyOf(d, w))
  <2>1. w \in Away(d) /\ d.workers[w].assignment # None
        BY <1>2 DEF Idle, Away
  <2>2. /\ r \in Keep /\ AwaySound(r, t) /\ a \in Assignment
        /\ r.workers = [d.workers EXCEPT ![w] = row]
        BY <2>1, JourneyReplaced
  <2>3. Recalled(d, t, w) = IF Complete(j, t) THEN ReconcileWorkers(r, t)
                            ELSE WithWakeup(r, w, NextDueAt(j, t))
        BY <1>2, RecalledCases
  <2>4. d.workers \in [Worker -> WorkerRow] /\ d.workers[w] \in WorkerRow
        BY DEF Keep
  <2> HIDE DEF r, j, a
  <2>5. Kept(d.workers[w], row)
        BY <2>1, <2>2, <2>4, NoneAssumption DEF WorkerRow, Kept
  <2>6. KeepSettles(d, r)
    <3> HIDE DEF row
    <3>1. r.workers[w] = row /\ \A v \in Worker \ {w} : r.workers[v] = d.workers[v]
          BY <2>2, <2>4
    <3> QED BY <2>5, <3>1 DEF KeepSettles, Settles, Kept
  <2>7. CASE Complete(j, t)
    <3>1. KeepSettles(r, ReconcileWorkers(r, t))
          BY <2>2, WorkersSettle
    <3> QED BY <2>3, <2>6, <2>7, <3>1, SettlesTwice DEF KeepSettles
  <2>8. CASE ~Complete(j, t)
    <3>1. WithWakeup(r, w, NextDueAt(j, t)).workers = r.workers
          BY <2>2 DEF WithWakeup, Keep
    <3> QED BY <2>3, <2>6, <2>8, <3>1 DEF KeepSettles
  <2> QED BY <2>7, <2>8
<1> QED BY <1>1, <1>2

LEMMA DispatchedSends ==
    ASSUME NEW d \in Keep, NEW t \in Nat, NEW command \in DispatchCommand,
           NEW node \in Node, DispatchAccepted(d, t, command, node)
    PROVE  LET r == Dispatched(d, t, command, node)
           IN  /\ Sent(d.workers[command.worker], r.workers[command.worker])
               /\ \A v \in Worker \ {command.worker} : r.workers[v] = d.workers[v]
<1> DEFINE w == command.worker
           j == JourneyFor(d, t, command)
           a == [node |-> node, journey |-> j]
           revision == d.workers[w].assignmentRevision + 1
           row == [d.workers[w] EXCEPT !.assignmentRevision = revision, !.assignment = a]
           r == Dispatched(d, t, command, node)
<1>1. w \in Worker /\ r \in Keep
      BY DispatchedType DEF DispatchCommand
<1>2. d.workers \in [Worker -> WorkerRow] /\ d.workers[w] \in WorkerRow
      BY <1>1 DEF Keep
<1>3. r.workers = [d.workers EXCEPT ![w] = row]
      BY DEF Dispatched, WithWakeup, Keep
<1>4. r.workers[w] = row /\ \A v \in Worker \ {w} : r.workers[v] = d.workers[v]
  <2> HIDE DEF row, r
  <2> QED BY <1>1, <1>2, <1>3
<1>5. row \in WorkerRow
      BY <1>1, <1>4 DEF Keep
<1>6. /\ row.assignment = a /\ row.assignmentRevision = revision
      /\ row.lastReturn = d.workers[w].lastReturn
  <2> HIDE DEF a, revision
  <2> QED BY <1>2 DEF WorkerRow
<1>7. a # None
  <2>1. a \in Assignment
        BY JourneyForType DEF Assignment
  <2> QED BY <2>1, NoneAssumption
<1>8. d.workers[w].assignment = None
      BY <1>1 DEF DispatchAccepted, Idle, Away
<1>9. Sent(d.workers[w], row)
  <2> HIDE DEF row, a
  <2> QED BY <1>6, <1>7, <1>8 DEF Sent
<1> HIDE DEF r, row
<1> QED BY <1>4, <1>9 DEF r

-----------------------------------------------------------------------------
(* Transactions. *)
HomeOf(outcomes, w) == {o.outcome : o \in {p \in outcomes : p.worker = w}}

AllAccounted(d, outcomes) == \A w \in Worker : Accounted(d.workers[w], HomeOf(outcomes, w))

LEMMA OutcomesAdd ==
    ASSUME NEW d, NEW outcomes, NEW w \in Worker
    PROVE  HomeOf(outcomes \cup Outcomes(d), w) = HomeOf(outcomes, w) \cup Last(d.workers[w])
<1> DEFINE last == d.workers[w].lastReturn
<1>1. HomeOf(Outcomes(d), w) = Last(d.workers[w])
  <2>1. ASSUME NEW o \in HomeOf(Outcomes(d), w) PROVE o \in Last(d.workers[w])
    <3>1. PICK p \in Outcomes(d) : p.worker = w /\ o = p.outcome
          BY DEF HomeOf
    <3>2. PICK v \in Worker : /\ d.workers[v].lastReturn # None
                              /\ p = [worker |-> v, outcome |-> d.workers[v].lastReturn]
          BY <3>1 DEF Outcomes
    <3> QED BY <3>1, <3>2 DEF Last
  <2>2. ASSUME NEW o \in Last(d.workers[w]) PROVE o \in HomeOf(Outcomes(d), w)
    <3>1. o = last /\ last # None
          BY DEF Last
    <3>2. [worker |-> w, outcome |-> last] \in Outcomes(d)
          BY <3>1 DEF Outcomes
    <3> QED BY <3>1, <3>2 DEF HomeOf
  <2> QED BY <2>1, <2>2
<1>2. HomeOf(outcomes \cup Outcomes(d), w) = HomeOf(outcomes, w) \cup HomeOf(Outcomes(d), w)
      BY DEF HomeOf
<1> QED BY <1>1, <1>2

LEMMA SettledAccounted ==
    ASSUME AllAccounted(db, returned), NEW d, KeepSettles(db, d)
    PROVE  AllAccounted(d, returned \cup Outcomes(d))
BY SettlingAccounts, OutcomesAdd DEF AllAccounted, KeepSettles

(* The invariant: all journeys are accounted for, and none before the keep.   *)
AccountInv ==
    /\ Inv
    /\ AllAccounted(db, returned)
    /\ db.revision = 0 => returned = {}

LEMMA StoreAccounts ==
    ASSUME AccountInv, NEW d, db.revision > 0, d.revision >= db.revision,
           AllAccounted(d, returned \cup Outcomes(d)),
           NEW stored, stored.workers = d.workers, stored.revision >= d.revision,
           {d.revision, stored.revision} \subseteq Nat,
           Store(stored)
    PROVE  AllAccounted(db', returned') /\ (db'.revision = 0 => returned' = {})
<1>1. db' = stored /\ returned' = returned \cup Outcomes(stored)
      BY DEF Store
<1>2. Outcomes(stored) = Outcomes(d)
      BY DEF Outcomes
<1>3. AllAccounted(stored, returned \cup Outcomes(d))
      BY DEF AllAccounted
<1>4. db.revision \in Nat
      BY DEF AccountInv, Inv, TypeOK, Keep
<1> QED BY <1>1, <1>2, <1>3, <1>4

LEMMA AccountInit == Init => AccountInv
<1> SUFFICES ASSUME Init PROVE AccountInv
    OBVIOUS
<1>1. Inv /\ returned = {} /\ db = NoKeep
      BY InvInit DEF Init
<1>2. ASSUME NEW w \in Worker PROVE Accounted(IdleWorker, HomeOf({}, w))
  <2>1. HomeOf({}, w) = {}
        BY DEF HomeOf
  <2>2. HomeCount(IdleWorker) = 0
        BY DEF HomeCount, IdleWorker
  <2> QED BY <2>1, <2>2 DEF Accounted, IdleWorker
<1>3. \A w \in Worker : NoKeep.workers[w] = IdleWorker
      BY DEF NoKeep
<1> QED BY <1>1, <1>2, <1>3 DEF AccountInv, AllAccounted

LEMMA AccountStep ==
    ASSUME AccountInv, [Next]_vars
    PROVE  AccountInv'
<1>0. /\ now \in Nat /\ db \in Keep /\ db.revision \in Nat
      /\ Inv /\ Inv' /\ AllAccounted(db, returned)
      BY NowType, InvNext DEF AccountInv, Inv, Keep
<1> DEFINE Goal == AllAccounted(db', returned') /\ (db'.revision = 0 => returned' = {})
           r == Reconcile(db, now)
<1>1. ASSUME NEW c \in InitializeCommand, Initialize(c) PROVE Goal
  <2>1. c \in Command /\ NoKeep \in Keep /\ NoKeep.revision = 0
        BY NoKeepType DEF Command, NoKeep
  <2>2. /\ Committed(NoKeep, c).workers = NoKeep.workers
        /\ Committed(NoKeep, c).revision = 1
        BY <2>1, CommittedType
  <2>3. db' = Committed(NoKeep, c) /\ returned' = returned \cup Outcomes(Committed(NoKeep, c))
        /\ db.revision = 0
        BY <1>1 DEF Initialize, Accept, Store
  <2>4. Outcomes(Committed(NoKeep, c)) = {} /\ returned = {}
        BY <2>2, <2>3 DEF AccountInv, Outcomes, NoKeep, IdleWorker
  <2>5. AllAccounted(NoKeep, {})
    <3> SUFFICES ASSUME NEW w \in Worker PROVE Accounted(IdleWorker, HomeOf({}, w))
        BY DEF AllAccounted, NoKeep
    <3>1. HomeOf({}, w) = {} /\ HomeCount(IdleWorker) = 0
          BY DEF HomeOf, HomeCount, IdleWorker
    <3> QED BY <3>1 DEF Accounted, IdleWorker
  <2> QED BY <2>2, <2>3, <2>4, <2>5 DEF AllAccounted
<1>2. ASSUME NEW c \in DispatchCommand, DispatchWorker(c) PROVE Goal
  <2>1. c \in Command /\ c.worker \in Worker
        BY DEF Command, DispatchCommand
  <2>2. Fresh(db, now, c) /\ StoredStateValid(db, now) /\ db.revision > 0
        BY <1>2, FreshIsValid DEF DispatchWorker
  <2>3. r \in Keep /\ r.revision = db.revision /\ KeepSettles(db, r)
        BY <1>0, <2>2, Reconciled, ReconcileSettles
  <2>4. PICK node \in Node : /\ DispatchAccepted(r, now, c, node)
                             /\ Accept(c, Dispatched(r, now, c, node))
        BY <1>2 DEF DispatchWorker
  <2> DEFINE d == Dispatched(r, now, c, node)
  <2> HIDE DEF r
  <2>5. /\ d \in Keep /\ d.revision = db.revision
        /\ Sent(r.workers[c.worker], d.workers[c.worker])
        /\ \A v \in Worker \ {c.worker} : d.workers[v] = r.workers[v]
        BY <1>0, <2>3, <2>4, DispatchedType, DispatchedSends
  <2>6. AllAccounted(r, returned \cup Outcomes(r))
        BY <1>0, <2>3, SettledAccounted
  <2> HIDE DEF d
  <2>7. Outcomes(d) = Outcomes(r)
    <3>1. \A w \in Worker : d.workers[w].lastReturn = r.workers[w].lastReturn
          BY <2>5 DEF Sent
    <3> QED BY <3>1 DEF Outcomes
  <2>8. AllAccounted(d, returned \cup Outcomes(d))
        BY <2>5, <2>6, <2>7, SendingAccounts DEF AllAccounted
  <2>9. /\ Committed(d, c).workers = d.workers /\ Committed(d, c).revision = d.revision + 1
        /\ Store(Committed(d, c))
        BY <2>1, <2>4, <2>5, CommittedType DEF Accept, d
  <2> QED BY <1>0, <2>2, <2>5, <2>8, <2>9, StoreAccounts
<1>3. ASSUME NEW c \in RecallCommand, RecallWorker(c) PROVE Goal
  <2>1. c \in Command /\ c.worker \in Worker
        BY DEF Command, RecallCommand
  <2>2. Fresh(db, now, c) /\ StoredStateValid(db, now) /\ db.revision > 0
        BY <1>3, FreshIsValid DEF RecallWorker
  <2>3. r \in Keep /\ r.revision = db.revision /\ KeepSettles(db, r) /\ AwaySound(r, now)
        BY <1>0, <2>2, Reconciled, ReconcileSettles
  <2> DEFINE d == Recalled(r, now, c.worker)
  <2>4. Accept(c, d)
        BY <1>3 DEF RecallWorker
  <2> HIDE DEF r
  <2>5. d \in Keep /\ d.revision = db.revision /\ KeepSettles(r, d)
        BY <1>0, <2>1, <2>3, RecalledType, RecalledSettles
  <2> HIDE DEF d
  <2>6. KeepSettles(db, d)
        BY <2>3, <2>5, SettlesTwice DEF KeepSettles
  <2>7. AllAccounted(d, returned \cup Outcomes(d))
        BY <1>0, <2>6, SettledAccounted
  <2>8. /\ Committed(d, c).workers = d.workers /\ Committed(d, c).revision = d.revision + 1
        /\ Store(Committed(d, c))
        BY <2>1, <2>4, <2>5, CommittedType DEF Accept
  <2> QED BY <1>0, <2>2, <2>5, <2>7, <2>8, StoreAccounts
<1>4. ASSUME NEW c \in BuildCommand, StartBuilding(c) PROVE Goal
  <2>1. c \in Command
        BY DEF Command
  <2>2. Fresh(db, now, c) /\ StoredStateValid(db, now) /\ db.revision > 0
        BY <1>4, FreshIsValid DEF StartBuilding
  <2>3. r \in Keep /\ r.revision = db.revision /\ KeepSettles(db, r)
        BY <1>0, <2>2, Reconciled, ReconcileSettles
  <2> DEFINE d == BuildStarted(r, now, c)
  <2>4. BuildAccepted(r, now, c) /\ Accept(c, d)
        BY <1>4 DEF StartBuilding
  <2> HIDE DEF r
  <2>5. d \in Keep /\ d.revision = db.revision /\ d.workers = r.workers
    <3>1. d.workers = r.workers
          BY <2>3 DEF BuildStarted, WithProjectWakeup, Keep
    <3> QED BY <1>0, <2>3, <2>4, <3>1, BuildStartedType
  <2> HIDE DEF d
  <2>6. AllAccounted(d, returned \cup Outcomes(d))
        BY <1>0, <2>3, <2>5, SettledAccounted DEF KeepSettles
  <2>7. /\ Committed(d, c).workers = d.workers /\ Committed(d, c).revision = d.revision + 1
        /\ Store(Committed(d, c))
        BY <2>1, <2>4, <2>5, CommittedType DEF Accept
  <2> QED BY <1>0, <2>2, <2>5, <2>6, <2>7, StoreAccounts
<1>5. ASSUME NEW d, d = db \/ (d = Settled(db, now) /\ StoredStateValid(db, now)),
             NEW stored \in Keep, stored.workers = d.workers, stored.revision = d.revision,
             db.revision > 0, Store(stored)
      PROVE  Goal
  <2>1. d \in Keep /\ d.revision \in {db.revision, db.revision + 1} /\ KeepSettles(db, d)
        BY <1>0, <1>5, SettledType, SettledSettles DEF KeepSettles, Settles, Kept
  <2>2. AllAccounted(d, returned \cup Outcomes(d))
        BY <1>0, <2>1, SettledAccounted
  <2> QED BY <1>0, <1>5, <2>1, <2>2, StoreAccounts
<1>6. ASSUME GetKeep PROVE Goal
  <2>1. db.revision > 0 /\ StoredStateValid(db, now) /\ Store(Settled(db, now))
        BY <1>6 DEF GetKeep
  <2>2. Settled(db, now) \in Keep
        BY <1>0, <2>1, SettledType
  <2> QED BY <1>5, <2>1, <2>2
<1>7. ASSUME NEW s \in db.wakeups, RunWorkerWakeup(s) PROVE Goal
  <2> DEFINE current == s.worker \in Away(db)
                           /\ db.workers[s.worker].assignmentRevision = s.revision
             d == IF Runs(current) THEN Settled(db, now) ELSE db
             e == [d EXCEPT !.wakeups = @ \ {s}]
  <2>1. Store(e) /\ d \in Keep
        BY <1>0, <1>7, TimerType DEF RunWorkerWakeup
  <2>2. d = db \/ (d = Settled(db, now) /\ StoredStateValid(db, now))
        BY DEF Runs
  <2>3. db.revision > 0
        BY <1>0 DEF Inv, NothingYet
  <2> HIDE DEF d
  <2>4. e \in Keep /\ e.workers = d.workers /\ e.revision = d.revision
        BY <2>1 DEF Keep
  <2> HIDE DEF e
  <2> QED BY <1>5, <2>1, <2>2, <2>3, <2>4
<1>8. ASSUME NEW s \in db.projectWakeups, RunProjectWakeup(s) PROVE Goal
  <2> DEFINE current == db.project # None /\ s = WakeupOfProject(db.project)
             d == IF Runs(current) THEN Settled(db, now) ELSE db
             e == [d EXCEPT !.projectWakeups = @ \ {s}]
  <2>1. Store(e) /\ d \in Keep
        BY <1>0, <1>8, TimerType DEF RunProjectWakeup
  <2>2. d = db \/ (d = Settled(db, now) /\ StoredStateValid(db, now))
        BY DEF Runs
  <2>3. db.revision > 0
        BY <1>0 DEF Inv, NothingYet
  <2> HIDE DEF d
  <2>4. e \in Keep /\ e.workers = d.workers /\ e.revision = d.revision
        BY <2>1 DEF Keep
  <2> HIDE DEF e
  <2> QED BY <1>5, <2>1, <2>2, <2>3, <2>4
<1>9. ASSUME LoseWakeup PROVE Goal
  <2>1. db'.workers = db.workers /\ db'.revision = db.revision /\ returned' = returned
        BY <1>0, <1>9 DEF LoseWakeup, Keep
  <2> QED BY <2>1 DEF AccountInv, AllAccounted
<1>10. ASSUME ProvisionOwner \/ SuspendOwner \/ Tick \/ UNCHANGED vars PROVE Goal
  <2>1. db' = db /\ returned' = returned
        BY <1>10 DEF ProvisionOwner, SuspendOwner, Tick, vars
  <2> QED BY <2>1 DEF AccountInv
<1>11. Goal
       BY <1>1, <1>2, <1>3, <1>4, <1>6, <1>7, <1>8, <1>9, <1>10 DEF Next
<1> QED BY <1>0, <1>11 DEF AccountInv

(* Every dispatch of a worker comes home exactly once and in order, and only  *)
(* the last one can be still away, whatever commands, reads, late timers and  *)
(* lost timers settle it (dispatchWorker04, recallWorker04 and both           *)
(* reconciliations).                                                          *)
THEOREM EveryJourneyAccountedAlways == Spec => []EveryJourneyAccounted
<1>1. AccountInv => EveryJourneyAccounted
  <2> SUFFICES ASSUME AccountInv, NEW w \in Worker
               PROVE  LET home == HomeOf(returned, w)
                      IN  /\ {o.assignmentRevision : o \in home} = 1..HomeCount(db.workers[w])
                          /\ \A o, p \in home : o.assignmentRevision = p.assignmentRevision => o = p
      BY DEF EveryJourneyAccounted, HomeOf, HomeCount, Away
  <2> QED BY DEF AccountInv, AllAccounted, Accounted
<1>2. AccountInv /\ [Next]_vars => AccountInv'
      BY AccountStep
<1> QED BY <1>1, <1>2, AccountInit, PTL DEF Spec
-----------------------------------------------------------------------------
(* The terms of journeys and of the project. *)
StillAway(row, new) ==
    /\ new.assignmentRevision = row.assignmentRevision
    /\ new.assignment \in {None, row.assignment}

TermsKept(row, new, t) ==
    row.assignment # None /\ new.assignment # None
      /\ row.assignmentRevision = new.assignmentRevision =>
        \/ new.assignment = row.assignment
        \/ /\ row.assignment.journey.recalledAt = NotRecalled
           /\ t < Stop(row.assignment.journey)
           /\ new.assignment = [row.assignment EXCEPT !.journey.recalledAt = t]

ProjectKept(d, e, t) ==
    d.project # None /\ e.project # None /\ d.project.completesAt > t => e.project = d.project

AllTermsKept(d, e, t) ==
    /\ \A w \in Worker : TermsKept(d.workers[w], e.workers[w], t)
    /\ ProjectKept(d, e, t)

LEMMA StillAwayKeepsTerms ==
    ASSUME NEW row, NEW between, NEW new, NEW t, StillAway(row, between),
           TermsKept(between, new, t), between.assignment = None => new.assignment = None
    PROVE  TermsKept(row, new, t)
BY DEF StillAway, TermsKept

(* What reconciling leaves of the rows that a command then looks at. *)
LEMMA ReconcileKeepsTerms ==
    ASSUME NEW d \in Keep, NEW t \in Nat, StoredStateValid(d, t)
    PROVE  LET r == Reconcile(d, t)
           IN  /\ \A w \in Worker : StillAway(d.workers[w], r.workers[w])
               /\ d.project # None /\ d.project.completesAt > t => r.project = d.project
<1> DEFINE c == ReconcileConstruction(d, t)
           r == ReconcileWorkers(c, t)
<1>1. c \in Keep /\ AwaySound(c, t)
      BY ValidIsSound, ConstructionReconciled
<1>2. c.workers = d.workers
      BY DEF ReconcileConstruction, WithProjectWakeup, Keep
<1>3. d.project # None /\ d.project.completesAt > t => c.project = d.project
  <2> SUFFICES ASSUME d.project # None, d.project.completesAt > t
               PROVE  c.project = d.project
      OBVIOUS
  <2>1. d.project.completesAt \in Nat
        BY DEF Keep, Project
  <2>2. ~Due(d.project, t)
        BY <2>1 DEF Due
  <2> QED BY <2>2 DEF ReconcileConstruction, WithProjectWakeup, Keep
<1> HIDE DEF c
<1>4. /\ \A w \in Worker : r.workers[w] = IF w \in Home(c, t)
                                         THEN BackHome(c.workers[w], OutcomeOf(c, w, t))
                                         ELSE c.workers[w]
      /\ r.project = c.project
      BY <1>1 DEF ReconcileWorkers, Keep
<1> HIDE DEF r
<1>5. ASSUME NEW w \in Worker PROVE StillAway(d.workers[w], r.workers[w])
  <2> DEFINE o == OutcomeOf(c, w, t)
             row == c.workers[w]
             new == [row EXCEPT !.assignment = None, !.lastReturn = o]
  <2>1. row \in WorkerRow
        BY <1>1 DEF Keep
  <2>2. r.workers[w] \in {row, new}
        BY <1>4 DEF BackHome
  <2> HIDE DEF o, row
  <2>3. new.assignment = None /\ new.assignmentRevision = row.assignmentRevision
        BY <2>1 DEF WorkerRow
  <2> QED BY <1>2, <2>2, <2>3 DEF StillAway, row
<1> QED BY <1>3, <1>4, <1>5 DEF Reconcile, r, c

LEMMA RecalledKeepsTerms ==
    ASSUME NEW d \in Keep, NEW t \in Nat, AwaySound(d, t), NEW w \in Worker
    PROVE  LET r == Recalled(d, t, w)
           IN  /\ \A v \in Worker : TermsKept(d.workers[v], r.workers[v], t)
               /\ \A v \in Worker : d.workers[v].assignment = None =>
                                       r.workers[v].assignment = None
               /\ r.project = d.project
<1> DEFINE old == d.workers[w].assignment
           j == CutJourney(d, t, w)
           r == CutKeep(d, t, w)
           a == CutAssignment(d, t, w)
           row == [d.workers[w] EXCEPT !.assignment = a]
<1>1. CASE Idle(d, w) \/ j = JourneyOf(d, w)
      BY <1>1, RecalledCases DEF TermsKept
<1>2. CASE ~(Idle(d, w) \/ j = JourneyOf(d, w))
  <2>1. w \in Away(d) /\ old # None
        BY <1>2 DEF Idle, Away
  <2>2. /\ r \in Keep /\ AwaySound(r, t) /\ a \in Assignment
        /\ r.workers = [d.workers EXCEPT ![w] = row] /\ r.project = d.project
        BY <2>1, JourneyReplaced
  <2>3. /\ old.journey.recalledAt = NotRecalled /\ t < Stop(old.journey)
        /\ a = [old EXCEPT !.journey.recalledAt = t]
    <3>1. /\ old.journey.recalledAt = NotRecalled /\ ~(t >= Stop(old.journey))
          /\ j = [old.journey EXCEPT !.recalledAt = t]
          BY <1>2 DEF CutJourney, RecallJourney, JourneyOf
    <3>2. Stop(old.journey) \in Nat
          BY <2>1, JourneyOfAway, JourneyTimes DEF JourneyOf
    <3> QED BY <3>1, <3>2 DEF CutAssignment
  <2>4. Recalled(d, t, w) = IF Complete(j, t) THEN ReconcileWorkers(r, t)
                            ELSE WithWakeup(r, w, NextDueAt(j, t))
        BY <1>2, RecalledCases
  <2>5. d.workers \in [Worker -> WorkerRow] /\ d.workers[w] \in WorkerRow
        BY DEF Keep
  <2> HIDE DEF r, j
  <2>6. row.assignment = a
    <3> HIDE DEF a
    <3> QED BY <2>5 DEF WorkerRow
  <2> HIDE DEF row
  <2>7. r.workers[w] = row /\ \A v \in Worker \ {w} : r.workers[v] = d.workers[v]
        BY <2>2, <2>5
  <2>8. \A v \in Worker : /\ TermsKept(d.workers[v], r.workers[v], t)
                          /\ d.workers[v].assignment = None => r.workers[v].assignment = None
    <3>1. TermsKept(d.workers[w], r.workers[w], t)
          BY <2>3, <2>6, <2>7 DEF TermsKept
    <3> QED BY <2>1, <2>7, <3>1 DEF TermsKept
  <2> DEFINE e == Recalled(d, t, w)
  <2>9. /\ \A v \in Worker : /\ e.workers[v].assignment \in {None, r.workers[v].assignment}
                             /\ e.workers[v].assignmentRevision = r.workers[v].assignmentRevision
        /\ e.project = r.project
    <3>1. CASE Complete(j, t)
      <4> DEFINE x == ReconcileWorkers(r, t)
      <4>1. /\ \A v \in Worker : x.workers[v] = IF v \in Home(r, t)
                                             THEN BackHome(r.workers[v], OutcomeOf(r, v, t))
                                             ELSE r.workers[v]
            /\ x.project = r.project
            BY <2>2 DEF ReconcileWorkers, Keep
      <4>2. \A v \in Worker : r.workers[v] \in WorkerRow
            BY <2>2 DEF Keep
      <4>3. ASSUME NEW q \in WorkerRow, NEW o
            PROVE  /\ BackHome(q, o).assignment = None
                   /\ BackHome(q, o).assignmentRevision = q.assignmentRevision
            BY DEF BackHome, WorkerRow
      <4> HIDE DEF x
      <4>4. \A v \in Worker : /\ x.workers[v].assignment \in {None, r.workers[v].assignment}
                              /\ x.workers[v].assignmentRevision
                                    = r.workers[v].assignmentRevision
            BY <4>1, <4>2, <4>3
      <4> QED BY <2>4, <3>1, <4>1, <4>4 DEF x
    <3>2. CASE ~Complete(j, t)
      <4>1. WithWakeup(r, w, NextDueAt(j, t)).workers = r.workers
            /\ WithWakeup(r, w, NextDueAt(j, t)).project = r.project
            BY <2>2 DEF WithWakeup, Keep
      <4> QED BY <2>4, <3>2, <4>1
    <3> QED BY <3>1, <3>2
  <2> HIDE DEF e
  <2>10. \A v \in Worker : TermsKept(d.workers[v], e.workers[v], t)
         BY <2>8, <2>9 DEF TermsKept
  <2> QED BY <2>2, <2>8, <2>9, <2>10 DEF e
<1> QED BY <1>1, <1>2

LEMMA TermsStep ==
    ASSUME Inv, [Next]_vars
    PROVE  AllTermsKept(db, db', now)
<1>0. now \in Nat /\ db \in Keep
      BY NowType DEF Inv
<1> DEFINE Goal == AllTermsKept(db, db', now)
           r == Reconcile(db, now)
<1>1. ASSUME NEW c \in InitializeCommand, Initialize(c) PROVE Goal
  <2>1. db' = Committed(NoKeep, c)
        BY <1>1 DEF Initialize, Accept, Store
  <2>2. db'.workers = NoKeep.workers /\ db'.project = None
        BY <2>1 DEF Committed, NoKeep
  <2>3. \A w \in Worker : db'.workers[w].assignment = None
        BY <2>2 DEF NoKeep, IdleWorker
  <2> QED BY <2>2, <2>3 DEF AllTermsKept, TermsKept, ProjectKept
<1>2. ASSUME NEW c \in Command, NEW d \in Keep, Accept(c, d), Fresh(db, now, c),
             \A w \in Worker : TermsKept(db.workers[w], d.workers[w], now),
             ProjectKept(db, d, now)
      PROVE  Goal
  <2>1. db' = Committed(d, c)
        BY <1>2 DEF Accept, Store
  <2>2. db'.workers = d.workers /\ db'.project = d.project
        BY <2>1 DEF Committed, Keep
  <2> QED BY <1>2, <2>2 DEF AllTermsKept, ProjectKept
<1>3. ASSUME StoredStateValid(db, now)
      PROVE  /\ r \in Keep /\ AwaySound(r, now)
             /\ \A w \in Worker : StillAway(db.workers[w], r.workers[w])
             /\ db.project # None /\ db.project.completesAt > now => r.project = db.project
      BY <1>0, <1>3, Reconciled, ReconcileKeepsTerms
<1>4. ASSUME NEW c \in DispatchCommand, DispatchWorker(c) PROVE Goal
  <2>1. c \in Command /\ c.worker \in Worker /\ Fresh(db, now, c) /\ StoredStateValid(db, now)
        BY <1>4, FreshIsValid DEF Command, DispatchCommand, DispatchWorker
  <2>2. PICK node \in Node : /\ DispatchAccepted(r, now, c, node)
                             /\ Accept(c, Dispatched(r, now, c, node))
        BY <1>4 DEF DispatchWorker
  <2> DEFINE d == Dispatched(r, now, c, node)
             w == c.worker
  <2>3. /\ r \in Keep /\ \A v \in Worker : StillAway(db.workers[v], r.workers[v])
        /\ db.project # None /\ db.project.completesAt > now => r.project = db.project
        BY <1>3, <2>1
  <2> HIDE DEF r
  <2>4. /\ d \in Keep /\ d.project = r.project
        /\ Sent(r.workers[w], d.workers[w])
        /\ \A v \in Worker \ {w} : d.workers[v] = r.workers[v]
    <3>1. d.project = r.project
          BY <2>3 DEF Dispatched, WithWakeup, Keep
    <3> QED BY <1>0, <2>2, <2>3, <3>1, DispatchedType, DispatchedSends
  <2>5. Accept(c, d)
        BY <2>2
  <2> HIDE DEF d
  <2>6. ASSUME NEW v \in Worker PROVE TermsKept(db.workers[v], d.workers[v], now)
    <3>1. CASE v = w
      <4>1. db.workers[w].assignmentRevision \in Nat
            BY <1>0, <2>1 DEF Keep, WorkerRow
      <4>2. d.workers[w].assignmentRevision = db.workers[w].assignmentRevision + 1
            BY <2>1, <2>3, <2>4 DEF StillAway, Sent
      <4>3. db.workers[w].assignmentRevision # d.workers[w].assignmentRevision
            BY <4>1, <4>2
      <4> QED BY <3>1, <4>3 DEF TermsKept
    <3>2. CASE v # w
          BY <2>3, <2>4, <3>2 DEF StillAway, TermsKept
    <3> QED BY <3>1, <3>2
  <2>7. ProjectKept(db, d, now)
        BY <2>3, <2>4 DEF ProjectKept
  <2> QED BY <1>2, <2>1, <2>4, <2>5, <2>6, <2>7
<1>5. ASSUME NEW c \in RecallCommand, RecallWorker(c) PROVE Goal
  <2>1. c \in Command /\ c.worker \in Worker /\ Fresh(db, now, c) /\ StoredStateValid(db, now)
        BY <1>5, FreshIsValid DEF Command, RecallCommand, RecallWorker
  <2> DEFINE d == Recalled(r, now, c.worker)
  <2>2. Accept(c, d)
        BY <1>5 DEF RecallWorker
  <2>3. /\ r \in Keep /\ AwaySound(r, now)
        /\ \A v \in Worker : StillAway(db.workers[v], r.workers[v])
        /\ db.project # None /\ db.project.completesAt > now => r.project = db.project
        BY <1>3, <2>1
  <2> HIDE DEF r
  <2>4. /\ d \in Keep /\ d.project = r.project
        /\ \A v \in Worker : TermsKept(r.workers[v], d.workers[v], now)
        /\ \A v \in Worker : r.workers[v].assignment = None => d.workers[v].assignment = None
        BY <1>0, <2>1, <2>3, RecalledType, RecalledKeepsTerms
  <2> HIDE DEF d
  <2>5. \A v \in Worker : TermsKept(db.workers[v], d.workers[v], now)
        BY <2>3, <2>4, StillAwayKeepsTerms
  <2>6. ProjectKept(db, d, now)
        BY <2>3, <2>4 DEF ProjectKept
  <2> QED BY <1>2, <2>1, <2>2, <2>4, <2>5, <2>6
<1>6. ASSUME NEW c \in BuildCommand, StartBuilding(c) PROVE Goal
  <2>1. c \in Command /\ Fresh(db, now, c) /\ StoredStateValid(db, now)
        BY <1>6, FreshIsValid DEF Command, StartBuilding
  <2> DEFINE d == BuildStarted(r, now, c)
  <2>2. BuildAccepted(r, now, c) /\ Accept(c, d)
        BY <1>6 DEF StartBuilding
  <2>3. /\ r \in Keep /\ \A v \in Worker : StillAway(db.workers[v], r.workers[v])
        /\ db.project # None /\ db.project.completesAt > now => r.project = db.project
        BY <1>3, <2>1
  <2> HIDE DEF r
  <2>4. d \in Keep /\ d.workers = r.workers
    <3>1. d.workers = r.workers
          BY <2>3 DEF BuildStarted, WithProjectWakeup, Keep
    <3> QED BY <1>0, <2>2, <2>3, <3>1, BuildStartedType
  <2>5. r.project = None
        BY <2>2 DEF BuildAccepted, BuilderFree
  <2> HIDE DEF d
  <2>6. \A v \in Worker : TermsKept(db.workers[v], d.workers[v], now)
        BY <2>3, <2>4 DEF StillAway, TermsKept
  <2>7. ProjectKept(db, d, now)
        BY <2>3, <2>5 DEF ProjectKept
  <2> QED BY <1>2, <2>1, <2>2, <2>4, <2>6, <2>7
<1>7. ASSUME NEW d, d = db \/ (d = Settled(db, now) /\ StoredStateValid(db, now)),
             db'.workers = d.workers, db'.project = d.project
      PROVE  Goal
  <2>1. CASE d = db
        BY <1>7, <2>1 DEF AllTermsKept, TermsKept, ProjectKept
  <2>2. CASE d = Settled(db, now) /\ StoredStateValid(db, now)
    <3>1. /\ r \in Keep /\ \A v \in Worker : StillAway(db.workers[v], r.workers[v])
          /\ db.project # None /\ db.project.completesAt > now => r.project = db.project
          BY <1>3, <2>2
    <3>2. d = db \/ d = [r EXCEPT !.revision = @ + 1]
          BY <2>2 DEF Settled
    <3> HIDE DEF r
    <3>3. d = db \/ (d.workers = r.workers /\ d.project = r.project)
          BY <3>1, <3>2 DEF Keep
    <3>4. CASE d = db
          BY <1>7, <3>4 DEF AllTermsKept, TermsKept, ProjectKept
    <3>5. CASE d.workers = r.workers /\ d.project = r.project
          BY <1>7, <3>1, <3>5 DEF AllTermsKept, StillAway, TermsKept, ProjectKept
    <3> QED BY <3>3, <3>4, <3>5
  <2> QED BY <1>7, <2>1, <2>2
<1>8. ASSUME GetKeep PROVE Goal
      BY <1>7, <1>8 DEF GetKeep, Store
<1>9. ASSUME NEW s \in db.wakeups, RunWorkerWakeup(s) PROVE Goal
  <2> DEFINE current == s.worker \in Away(db)
                           /\ db.workers[s.worker].assignmentRevision = s.revision
             d == IF Runs(current) THEN Settled(db, now) ELSE db
  <2>1. db' = [d EXCEPT !.wakeups = @ \ {s}] /\ d \in Keep
        BY <1>9, TimerType DEF RunWorkerWakeup, Store
  <2>2. d = db \/ (d = Settled(db, now) /\ StoredStateValid(db, now))
        BY DEF Runs
  <2> HIDE DEF d
  <2>3. db'.workers = d.workers /\ db'.project = d.project
        BY <2>1 DEF Keep
  <2> QED BY <1>7, <2>2, <2>3
<1>10. ASSUME NEW s \in db.projectWakeups, RunProjectWakeup(s) PROVE Goal
  <2> DEFINE current == db.project # None /\ s = WakeupOfProject(db.project)
             d == IF Runs(current) THEN Settled(db, now) ELSE db
  <2>1. db' = [d EXCEPT !.projectWakeups = @ \ {s}] /\ d \in Keep
        BY <1>10, TimerType DEF RunProjectWakeup, Store
  <2>2. d = db \/ (d = Settled(db, now) /\ StoredStateValid(db, now))
        BY DEF Runs
  <2> HIDE DEF d
  <2>3. db'.workers = d.workers /\ db'.project = d.project
        BY <2>1 DEF Keep
  <2> QED BY <1>7, <2>2, <2>3
<1>11. ASSUME LoseWakeup \/ ProvisionOwner \/ SuspendOwner \/ Tick \/ UNCHANGED vars PROVE Goal
  <2>1. db'.workers = db.workers /\ db'.project = db.project
        BY <1>0, <1>11 DEF LoseWakeup, ProvisionOwner, SuspendOwner, Tick, vars, Keep
  <2> QED BY <1>7, <2>1
<1> QED BY <1>1, <1>4, <1>5, <1>6, <1>8, <1>9, <1>10, <1>11 DEF Next

(* The terms of a journey and of a project are fixed when the command is      *)
(* accepted: a later building changes neither, and a recall adds its own      *)
(* instant, once and before the worker is on its way home (recallJourney04,   *)
(* startBuilding04 and both reconciliations).                                 *)
THEOREM CapturedTermsAlways == Spec => CapturedTerms
<1> DEFINE Terms ==
        /\ \A w \in Away(db) \cap Away(db)' :
             db.workers[w].assignmentRevision = db'.workers[w].assignmentRevision =>
                 \/ db'.workers[w].assignment = db.workers[w].assignment
                 \/ /\ JourneyOf(db, w).recalledAt = NotRecalled
                    /\ now < Stop(JourneyOf(db, w))
                    /\ db'.workers[w].assignment =
                          [db.workers[w].assignment EXCEPT !.journey.recalledAt = now]
        /\ db.project # None /\ db'.project # None
             /\ db.project.completesAt > now => db'.project = db.project
<1>1. ASSUME Inv, [Next]_vars PROVE Terms
  <2>1. AllTermsKept(db, db', now)
        BY <1>1, TermsStep
  <2> QED BY <2>1 DEF AllTermsKept, TermsKept, ProjectKept, Away, JourneyOf
<1>2. Inv /\ [Next]_vars => Inv'
      BY InvNext
<1>3. Inv /\ [Next]_vars => [Terms]_vars
      BY <1>1
<1>4. Spec => [][Terms]_vars
  <2> HIDE DEF Terms
  <2> QED BY <1>2, <1>3, InvInit, PTL DEF Spec
<1> QED BY <1>4 DEF CapturedTerms

-----------------------------------------------------------------------------
(* Which rows the parts of the validation look at. *)
SameWorkerRows(d, e) ==
    e.workers = d.workers /\ e.reservations = d.reservations /\ e.wakeups = d.wakeups

SameBuildingRows(d, e) ==
    /\ e.buildings = d.buildings /\ e.project = d.project
    /\ e.projectWakeups = d.projectWakeups

LEMMA SameWorkers ==
    ASSUME NEW d, NEW e, SameWorkerRows(d, e), NEW t, WorkersValid(d, t)
    PROVE  WorkersValid(e, t)
<1>1. /\ e.workers = d.workers /\ e.reservations = d.reservations /\ e.wakeups = d.wakeups
      BY DEF SameWorkerRows
<1>2. Away(e) = Away(d) /\ \A w \in Worker : JourneyOf(e, w) = JourneyOf(d, w)
      BY <1>1 DEF Away, JourneyOf
<1>3. \A w \in Worker : WakeupsOf(e, w) = WakeupsOf(d, w)
      BY <1>1 DEF WakeupsOf
<1>4. ASSUME NEW w \in Worker PROVE ClaimsValid(e, w)
      BY <1>1, <1>2 DEF WorkersValid, ClaimsValid, ClaimedBy
<1>5. ASSUME NEW w \in Worker PROVE WakeupsValid(e, w, t)
      BY <1>1, <1>2, <1>3 DEF WorkersValid, WakeupsValid
<1> QED BY <1>1, <1>4, <1>5 DEF WorkersValid

LEMMA SameBuildings ==
    ASSUME NEW d, NEW e, SameBuildingRows(d, e), ConstructionValid(d)
    PROVE  ConstructionValid(e)
<1>1. CompletedLevelsOf(e) = CompletedLevelsOf(d) /\ Built(e) = Built(d)
      BY DEF SameBuildingRows, CompletedLevelsOf, Built
<1>2. ASSUME NEW p PROVE ProjectValid(e, p) <=> ProjectValid(d, p)
      BY <1>1 DEF SameBuildingRows, ProjectValid
<1> QED BY <1>1, <1>2 DEF SameBuildingRows, ConstructionValid

-----------------------------------------------------------------------------
(* Construction. *)
LEMMA ConstructionStays ==
    ASSUME NEW d \in Keep, NEW t \in Nat, ConstructionValid(d)
    PROVE  LET r == ReconcileConstruction(d, t)
           IN  ConstructionValid(r) /\ SameWorkerRows(d, r)
<1> DEFINE p == d.project
           r == ReconcileConstruction(d, t)
<1>1. SameWorkerRows(d, r)
      BY DEF ReconcileConstruction, WithProjectWakeup, SameWorkerRows, Keep
<1>2. CASE p = None
      BY <1>1, <1>2 DEF ReconcileConstruction
<1>3. ASSUME p # None
      PROVE  /\ ProjectValid(d, p) /\ p.building \in Building
             /\ d.buildings \in [Building -> BuildingRow \cup {None}]
             /\ d.buildings[p.building] \in BuildingRow
             /\ p.targetLevel \in Level /\ p.targetLevel > 0
  <2>1. ProjectValid(d, p)
        BY <1>3 DEF ConstructionValid
  <2>2. p \in Project /\ d.buildings \in [Building -> BuildingRow \cup {None}]
        BY <1>3 DEF Keep
  <2>3. p.building \in Building /\ p.targetLevel \in TargetLevel
        BY <2>2 DEF Project
  <2>4. d.buildings[p.building] # None
        BY <2>1 DEF ProjectValid, Built
  <2>5. p.targetLevel \in Level /\ p.targetLevel > 0
        BY <2>3, PolicyAssumption DEF TargetLevel, Level
  <2> QED BY <2>1, <2>2, <2>3, <2>4, <2>5
<1>4. CASE p # None /\ Due(p, t)
  <2> DEFINE b == p.building
             row == [d.buildings[b] EXCEPT !.completedLevel = p.targetLevel]
  <2>1. /\ r.buildings = [d.buildings EXCEPT ![b] = row]
        /\ r.project = None /\ r.projectWakeups = d.projectWakeups \ {WakeupOfProject(p)}
        BY <1>4 DEF ReconcileConstruction, Keep
  <2>2. /\ row.completedLevel = p.targetLevel /\ row.site = d.buildings[b].site
        /\ row.revision = d.buildings[b].revision
        BY <1>3, <1>4 DEF BuildingRow
  <2>3. row # None
    <3>1. row \in BuildingRow
          BY <1>3, <1>4 DEF BuildingRow
    <3> QED BY <3>1, NoneAssumption
  <2> HIDE DEF row, r
  <2>4. /\ b \in Building /\ r.buildings[b] = row
        /\ \A c \in Building \ {b} : r.buildings[c] = d.buildings[c]
        BY <1>3, <1>4, <2>1
  <2>5. Built(r) = Built(d) /\ b \in Built(d)
    <3>1. b \in Built(d)
          BY <1>3, <1>4 DEF ProjectValid
    <3> QED BY <2>3, <2>4, <3>1 DEF Built
  <2>6. \A c \in Built(r) : r.buildings[c].site = d.buildings[c].site
        BY <2>2, <2>4 DEF Built
  <2>7. Finished(row)
        BY <1>3, <1>4, <2>2 DEF Finished, ProjectValid
  <2>8. \A c \in Built(r) : Finished(r.buildings[c])
    <3> SUFFICES ASSUME NEW c \in Built(r) PROVE Finished(r.buildings[c])
        OBVIOUS
    <3>1. CASE c = b
          BY <2>4, <2>7, <3>1
    <3>2. CASE c # b
          BY <2>4, <2>5, <3>2 DEF ConstructionValid, Built
    <3> QED BY <3>1, <3>2
  <2>9. r.projectWakeups = {}
        BY <2>1 DEF ConstructionValid
  <2> QED BY <1>1, <2>1, <2>5, <2>6, <2>8, <2>9 DEF ConstructionValid, r
<1>5. CASE p # None /\ ~Due(p, t)
  <2>1. /\ r.buildings = d.buildings /\ r.project = p
        /\ r.projectWakeups = d.projectWakeups \cup {WakeupOfProject(p)}
        BY <1>5 DEF ReconcileConstruction, WithProjectWakeup, Keep
  <2>2. CompletedLevelsOf(r) = CompletedLevelsOf(d) /\ Built(r) = Built(d)
        BY <2>1 DEF CompletedLevelsOf, Built
  <2> HIDE DEF r
  <2>3. ProjectValid(r, p)
        BY <1>3, <1>5, <2>1, <2>2 DEF ProjectValid
  <2>4. \A s \in r.projectWakeups : s = WakeupOfProject(p)
        BY <2>1 DEF ConstructionValid
  <2> QED BY <1>1, <1>5, <2>1, <2>2, <2>3, <2>4 DEF ConstructionValid, r
<1> QED BY <1>2, <1>4, <1>5

LEMMA BuildStartedValid ==
    ASSUME NEW d \in Keep, NEW t \in Nat, NEW command \in BuildCommand,
           ConstructionValid(d), BuildAccepted(d, t, command)
    PROVE  LET r == BuildStarted(d, t, command)
           IN  /\ ConstructionValid(r) /\ SameWorkerRows(d, r)
               /\ CompletedLevelsOf(r) = CompletedLevelsOf(d)
<1> DEFINE b == command.building
           row == d.buildings[b]
           rev == IF row = None THEN 1 ELSE row.revision + 1
           cost == BuildingCost(b, command.target)
           p == [building |-> b, targetLevel |-> command.target, revision |-> rev,
                 startedAt |-> t, completesAt |-> t + command.duration,
                 cost |-> cost, duration |-> command.duration]
           level == IF row = None THEN 0 ELSE row.completedLevel
           new == [site |-> command.site, revision |-> rev, completedLevel |-> level]
           r == BuildStarted(d, t, command)
<1>1. SameWorkerRows(d, r)
      BY DEF BuildStarted, WithProjectWakeup, SameWorkerRows, Keep
<1>2. /\ r.buildings = [d.buildings EXCEPT ![b] = new] /\ r.project = p
      /\ r.projectWakeups = d.projectWakeups \cup {WakeupOfProject(p)}
      BY DEF BuildStarted, WithProjectWakeup, Keep
<1>3. /\ b \in Building /\ d.buildings \in [Building -> BuildingRow \cup {None}]
      /\ row \in BuildingRow \cup {None} /\ r \in Keep
      BY BuildStartedType DEF Keep, BuildCommand
<1>4. /\ d.project = None
      /\ \A c \in Built(d) : Finished(d.buildings[c])
      /\ d.projectWakeups = {}
      BY DEF BuildAccepted, BuilderFree, ConstructionValid
<1>5. row # None => command.target = row.completedLevel + 1 /\ command.site = row.site
                    /\ Finished(row)
      BY <1>3, <1>4 DEF BuildAccepted, Built
<1>6. row = None => command.target = 1 /\ \A c \in Built(d) : d.buildings[c].site # command.site
      BY DEF BuildAccepted
<1>7. rev = command.target /\ command.target = level + 1
  <2>1. CASE row = None
        BY <1>6, <2>1
  <2>2. CASE row # None
        BY <1>5, <2>2 DEF Finished
  <2> QED BY <2>1, <2>2
<1>8. /\ p.building = b /\ p.targetLevel = command.target /\ p.revision = rev
      /\ p.startedAt = t /\ p.completesAt = t + command.duration
      /\ p.cost = BuildingCost(b, command.target) /\ p.duration = command.duration
      /\ new.site = command.site /\ new.revision = rev /\ new.completedLevel = level
      OBVIOUS
<1>9. p # None /\ new # None
  <2>1. command.target \in TargetLevel /\ command.site \in Site
        BY DEF BuildCommand
  <2>2. rev \in Positive /\ level \in Level
        BY <1>3, PolicyAssumption DEF BuildingRow, Positive, Level
  <2>3. cost \in Amounts
        BY <1>3, <2>1, BuildingCostType
  <2>4. command.duration \in Positive /\ t + command.duration \in Nat
    <3>1. command.duration = BuildingDuration(command.target, CompletedLevelsOf(d))
          BY DEF BuildAccepted
    <3>2. command.duration \in Nat \ {0}
          BY <2>1, <3>1, LevelsType, PolicyTypes
    <3> QED BY <3>2 DEF Positive
  <2> HIDE DEF rev, level, cost
  <2>5. p \in Project
        BY <1>3, <2>1, <2>2, <2>3, <2>4 DEF Project
  <2>6. new \in BuildingRow
        BY <2>1, <2>2 DEF BuildingRow
  <2> QED BY <2>5, <2>6, NoneAssumption
<1> HIDE DEF p, new, r, rev, level, row
<1>10. /\ r.buildings[b] = new
       /\ \A c \in Building \ {b} : r.buildings[c] = d.buildings[c]
       BY <1>2, <1>3
<1>11. Built(r) = Built(d) \cup {b}
       BY <1>3, <1>9, <1>10 DEF Built
<1>12. CompletedLevelsOf(r) = CompletedLevelsOf(d)
  <2> SUFFICES ASSUME NEW c \in Building
               PROVE  CompletedLevelsOf(r)[c] = CompletedLevelsOf(d)[c]
      BY DEF CompletedLevelsOf
  <2>1. CASE c = b
        BY <1>8, <1>9, <1>10, <2>1 DEF CompletedLevelsOf, level, row
  <2>2. CASE c # b
        BY <1>10, <2>2 DEF CompletedLevelsOf
  <2> QED BY <2>1, <2>2
<1>13. ProjectValid(r, p)
  <2>1. command.duration = BuildingDuration(command.target, CompletedLevelsOf(d))
        BY DEF BuildAccepted
  <2> QED BY <1>7, <1>8, <1>10, <1>11, <1>12, <2>1 DEF ProjectValid
<1>14. \A c \in Built(r) : c # b => Finished(r.buildings[c])
       BY <1>4, <1>10, <1>11 DEF Built
<1>15. \A c, e \in Built(r) : r.buildings[c].site = r.buildings[e].site => c = e
  <2>1. \A c \in Built(d) : c # b => d.buildings[c].site # command.site
    <3>1. CASE row = None
          BY <1>6, <3>1
    <3>2. CASE row # None
          BY <1>3, <1>5, <3>2 DEF ConstructionValid, Built, row
    <3> QED BY <3>1, <3>2
  <2> QED BY <1>8, <1>10, <1>11, <2>1 DEF ConstructionValid, Built
<1>16. \A s \in r.projectWakeups : s = WakeupOfProject(p)
       BY <1>2, <1>4
<1> QED BY <1>1, <1>2, <1>8, <1>9, <1>12, <1>13, <1>14, <1>15, <1>16 DEF ConstructionValid, r

-----------------------------------------------------------------------------
(* Workers. *)
RowsValid(d) == \A w \in Worker : WorkerRowValid(d.workers[w]) /\ ClaimsValid(d, w)

LEMMA WorkersSettleValid ==
    ASSUME NEW d \in Keep, NEW t \in Nat, AwaySound(d, t), RowsValid(d)
    PROVE  LET r == ReconcileWorkers(d, t)
           IN  WorkersValid(r, t) /\ SameBuildingRows(d, r)
<1> DEFINE r == ReconcileWorkers(d, t)
<1>1. SameBuildingRows(d, r)
      BY DEF ReconcileWorkers, SameBuildingRows, Keep
<1>2. /\ \A w \in Worker : r.workers[w] = IF w \in Home(d, t)
                                         THEN BackHome(d.workers[w], OutcomeOf(d, w, t))
                                         ELSE d.workers[w]
      /\ \A n \in Node : r.reservations[n] =
              IF \E w \in Home(d, t) : d.workers[w].assignment.node = n
              THEN None ELSE d.reservations[n]
      /\ r.wakeups = CurrentWakeups(d, t)
      /\ r \in Keep /\ AwaySound(r, t)
      BY WorkersReconciled DEF ReconcileWorkers, Keep
<1> HIDE DEF r
<1>3. ASSUME NEW w \in Home(d, t)
      PROVE  /\ w \in Worker /\ w \in Away(d)
             /\ r.workers[w].assignment = None
             /\ r.workers[w].assignmentRevision = d.workers[w].assignmentRevision
             /\ WorkerRowValid(r.workers[w])
  <2> DEFINE j == JourneyOf(d, w)
             k == d.workers[w].assignmentRevision
             balance == Accumulated(d, w, t)
             c == Credit(balance[j.resource], Earned(j, t))
             o == OutcomeOf(d, w, t)
             row == [d.workers[w] EXCEPT !.assignment = None, !.lastReturn = o]
  <2>1. w \in Worker /\ w \in Away(d)
        BY DEF Home, Away
  <2>2. JourneyValid(j) /\ j.resource \in Resource /\ k \in Positive
        BY <2>1, JourneyOfAway
  <2>3. Earned(j, t) \in Nat
        BY <2>2, EarnedType
  <2>4. balance[j.resource] \in 0..BalanceCap
        BY <2>2, AccumulatedType DEF Balances
  <2>5. c.credited + c.overflow = Earned(j, t)
        BY <2>3, <2>4, CreditSound
  <2>6. o.earned = Earned(j, t) /\ o.credited = c.credited /\ o.overflow = c.overflow
        /\ o.assignmentRevision = k
        BY DEF OutcomeOf, CreditOf
  <2>7. r.workers[w] = row
        BY <1>2, <2>1 DEF BackHome
  <2>8. d.workers[w] \in WorkerRow
        BY <2>1 DEF Keep
  <2> HIDE DEF c, o, k
  <2>9. row.assignment = None /\ row.lastReturn = o
        /\ row.assignmentRevision = d.workers[w].assignmentRevision
        BY <2>8 DEF WorkerRow
  <2> HIDE DEF row
  <2>10. WorkerRowValid(row)
    <3>1. k \in Nat /\ row.assignmentRevision = k
          BY <2>2, <2>9 DEF Positive, k
    <3> QED BY <2>5, <2>6, <2>9, <3>1 DEF WorkerRowValid
  <2> QED BY <2>1, <2>7, <2>9, <2>10
<1>4. ASSUME NEW w \in Worker, w \notin Home(d, t)
      PROVE  r.workers[w] = d.workers[w] /\ (w \in Away(r) <=> w \in Away(d))
      BY <1>2, <1>4 DEF Away
<1>5. ASSUME NEW w \in Home(d, t) PROVE w \notin Away(r)
      BY <1>3 DEF Away
<1>6. ASSUME NEW w \in Worker PROVE WorkerRowValid(r.workers[w])
  <2>1. CASE w \in Home(d, t)
        BY <1>3, <2>1
  <2>2. CASE w \notin Home(d, t)
        BY <1>4, <2>2 DEF RowsValid
  <2> QED BY <2>1, <2>2
<1>7. ASSUME NEW v \in Away(d), NEW n \in ClaimedBy(d, v)
      PROVE  n = d.workers[v].assignment.node
      BY DEF RowsValid, ClaimsValid, Away
<1>8. ASSUME NEW w \in Worker PROVE ClaimsValid(r, w)
  <2>1. ClaimedBy(r, w) \subseteq ClaimedBy(d, w)
        BY <1>2 DEF ClaimedBy
  <2>2. CASE w \in Home(d, t)
    <3>1. \A n \in ClaimedBy(d, w) : r.reservations[n] = None
      <4> TAKE n \in ClaimedBy(d, w)
      <4>1. n \in Node /\ d.workers[w].assignment.node = n
            BY <1>3, <1>7, <2>2 DEF ClaimedBy
      <4> QED BY <1>2, <2>2, <4>1
    <3>2. ClaimedBy(r, w) = {}
          BY <2>1, <3>1 DEF ClaimedBy
    <3> QED BY <1>5, <2>2, <3>2 DEF ClaimsValid
  <2>3. CASE w \notin Home(d, t) /\ w \in Away(d)
    <3> DEFINE n == d.workers[w].assignment.node
    <3>1. ClaimedBy(d, w) = {n} /\ d.reservations[n].revision = d.workers[w].assignmentRevision
          BY <2>3 DEF RowsValid, ClaimsValid
    <3>2. n \in Node /\ d.reservations[n] # None /\ d.reservations[n].worker = w
          BY <3>1 DEF ClaimedBy
    <3>3. \A v \in Home(d, t) : d.workers[v].assignment.node # n
      <4> SUFFICES ASSUME NEW v \in Home(d, t), d.workers[v].assignment.node = n PROVE FALSE
          OBVIOUS
      <4>1. v \in Worker /\ v \in Away(d)
            BY <1>3
      <4>2. n \in ClaimedBy(d, v)
            BY <4>1 DEF RowsValid, ClaimsValid
      <4>3. d.reservations[n].worker = v
            BY <4>2 DEF ClaimedBy
      <4> QED BY <2>3, <3>2, <4>3
    <3>4. r.reservations[n] = d.reservations[n]
          BY <1>2, <3>2, <3>3
    <3>5. ClaimedBy(r, w) = {n}
          BY <2>1, <3>1, <3>2, <3>4 DEF ClaimedBy
    <3>6. r.workers[w] = d.workers[w] /\ w \in Away(r)
          BY <1>4, <2>3
    <3> QED BY <3>1, <3>4, <3>5, <3>6 DEF ClaimsValid
  <2>4. CASE w \notin Away(d)
    <3>1. ClaimedBy(r, w) = {}
          BY <2>1, <2>4 DEF RowsValid, ClaimsValid
    <3>2. w \notin Away(r)
          BY <1>3, <1>4, <2>4
    <3> QED BY <3>1, <3>2 DEF ClaimsValid
  <2> QED BY <2>2, <2>3, <2>4
<1>9. ASSUME NEW w \in Worker PROVE WakeupsValid(r, w, t)
  <2>1. \A s \in WakeupsOf(r, w) :
            w \in Away(d) \ Home(d, t) /\ s = WakeupOf(d, w, NextDueAt(JourneyOf(d, w), t))
        BY <1>2 DEF WakeupsOf, CurrentWakeups, WakeupOf
  <2>2. CASE w \notin Away(r)
    <3>1. w \notin Away(d) \ Home(d, t)
          BY <1>4, <2>2
    <3> QED BY <2>1, <2>2, <3>1 DEF WakeupsValid
  <2>3. CASE w \in Away(r)
    <3> DEFINE j == JourneyOf(r, w)
    <3>1. w \in Away(d) \ Home(d, t) /\ r.workers[w] = d.workers[w]
          BY <1>4, <1>5, <2>3
    <3>2. j = JourneyOf(d, w) /\ ~Complete(j, t)
          BY <3>1 DEF JourneyOf, Home
    <3>3. JourneyValid(j) /\ Observable(j, t)
          BY <1>2, <2>3, JourneyOfAway
    <3>4. /\ NextDueAt(j, t) > t
          /\ NextDueAt(j, t) \in {ArrivesAt(j), Stop(j), ReturnsAt(j)}
          BY <3>2, <3>3, NextDueInFuture
    <3>5. \A s \in WakeupsOf(r, w) : s.revision = r.workers[w].assignmentRevision
                                    /\ s.due = NextDueAt(j, t)
          BY <2>1, <3>1, <3>2 DEF WakeupOf
    <3>6. \A s, u \in WakeupsOf(r, w) : s = u
          BY <2>1
    <3> HIDE DEF j
    <3> QED BY <2>3, <3>3, <3>4, <3>5, <3>6 DEF WakeupsValid, j
  <2> QED BY <2>2, <2>3
<1> QED BY <1>1, <1>6, <1>8, <1>9 DEF WorkersValid, r

KeepValid(d, t) == WorkersValid(d, t) /\ ConstructionValid(d)

LEMMA ReconcileValid ==
    ASSUME NEW d \in Keep, NEW t \in Nat, StoredStateValid(d, t)
    PROVE  KeepValid(Reconcile(d, t), t)
<1> DEFINE c == ReconcileConstruction(d, t)
           r == ReconcileWorkers(c, t)
<1>1. WorkersValid(d, t) /\ ConstructionValid(d)
      BY DEF StoredStateValid
<1>2. c \in Keep /\ AwaySound(c, t)
      BY ValidIsSound, ConstructionReconciled
<1>3. ConstructionValid(c) /\ SameWorkerRows(d, c)
      BY <1>1, ConstructionStays
<1> HIDE DEF c
<1>4. RowsValid(c)
      BY <1>1, <1>3, SameWorkers DEF WorkersValid, RowsValid
<1>5. WorkersValid(r, t) /\ SameBuildingRows(c, r)
      BY <1>2, <1>4, WorkersSettleValid
<1> HIDE DEF r
<1>6. ConstructionValid(r)
      BY <1>3, <1>5, SameBuildings
<1> QED BY <1>5, <1>6 DEF Reconcile, KeepValid, r, c

(* Rows that a change of other rows leaves alone. *)
SameWorker(d, e, w) ==
    /\ e.workers[w] = d.workers[w]
    /\ ClaimedBy(e, w) = ClaimedBy(d, w)
    /\ \A n \in ClaimedBy(d, w) : e.reservations[n] = d.reservations[n]
    /\ WakeupsOf(e, w) = WakeupsOf(d, w)

LEMMA OtherRowsStay ==
    ASSUME NEW d, NEW e, NEW w \in Worker, SameWorker(d, e, w), ClaimsValid(d, w)
    PROVE  ClaimsValid(e, w)
<1>1. w \in Away(e) <=> w \in Away(d)
      BY DEF SameWorker, Away
<1>2. CASE w \in Away(d)
  <2>1. ClaimedBy(d, w) = {d.workers[w].assignment.node}
        BY <1>2 DEF ClaimsValid
  <2> QED BY <1>1, <1>2, <2>1 DEF SameWorker, ClaimsValid
<1>3. CASE w \notin Away(d)
      BY <1>1, <1>3 DEF SameWorker, ClaimsValid
<1> QED BY <1>2, <1>3

LEMMA OtherWorkerStays ==
    ASSUME NEW d, NEW e, NEW t, NEW w \in Worker, SameWorker(d, e, w), WorkersValid(d, t)
    PROVE  WorkerRowValid(e.workers[w]) /\ ClaimsValid(e, w) /\ WakeupsValid(e, w, t)
<1>1. ClaimsValid(e, w)
      BY OtherRowsStay DEF WorkersValid
<1>2. WorkerRowValid(e.workers[w])
      BY DEF SameWorker, WorkersValid
<1>3. (w \in Away(e) <=> w \in Away(d)) /\ JourneyOf(e, w) = JourneyOf(d, w)
      BY DEF SameWorker, Away, JourneyOf
<1>4. WakeupsValid(e, w, t)
      BY <1>3 DEF SameWorker, WorkersValid, WakeupsValid
<1> QED BY <1>1, <1>2, <1>4

(* A worker on its way with one wakeup, set for its next due time. *)
LEMMA OneWakeupValid ==
    ASSUME NEW d, NEW w \in Worker, NEW t \in Nat, w \in Away(d),
           JourneyValid(JourneyOf(d, w)), Observable(JourneyOf(d, w), t),
           ~Complete(JourneyOf(d, w), t),
           NEW s, WakeupsOf(d, w) = {s},
           s.revision = d.workers[w].assignmentRevision,
           s.due = NextDueAt(JourneyOf(d, w), t)
    PROVE  WakeupsValid(d, w, t)
<1> DEFINE j == JourneyOf(d, w)
<1>1. /\ NextDueAt(j, t) > t
      /\ NextDueAt(j, t) \in {ArrivesAt(j), Stop(j), ReturnsAt(j)}
      BY NextDueInFuture
<1> HIDE DEF j
<1> QED BY <1>1 DEF WakeupsValid, j

-----------------------------------------------------------------------------
(* Commands. *)
LEMMA DispatchedValid ==
    ASSUME NEW d \in Keep, NEW t \in Nat, NEW command \in DispatchCommand,
           NEW node \in Node, DispatchAccepted(d, t, command, node), KeepValid(d, t)
    PROVE  KeepValid(Dispatched(d, t, command, node), t)
<1> DEFINE w == command.worker
           j == JourneyFor(d, t, command)
           a == [node |-> node, journey |-> j]
           k == d.workers[w].assignmentRevision + 1
           row == [d.workers[w] EXCEPT !.assignmentRevision = k, !.assignment = a]
           claim == [worker |-> w, revision |-> k]
           s == [worker |-> w, revision |-> k, due |-> NextDueAt(j, t)]
           r == Dispatched(d, t, command, node)
<1>1. w \in Worker
      BY DEF DispatchCommand
<1>2. /\ d.workers \in [Worker -> WorkerRow] /\ d.workers[w] \in WorkerRow
      /\ d.reservations \in [Node -> Claim \cup {None}]
      BY <1>1 DEF Keep
<1>3. /\ k \in Positive /\ k - 1 = d.workers[w].assignmentRevision
      /\ d.workers[w].assignmentRevision \in Nat
      BY <1>2 DEF WorkerRow, Positive
<1>4. /\ JourneyValid(j) /\ Observable(j, t) /\ ~Complete(j, t)
      /\ a \in Assignment /\ a.node = node /\ a.journey = j
  <2>1. /\ j \in Journey /\ j.recalledAt = NotRecalled /\ j.dispatchedAt = t
        /\ JourneyValid(j)
        BY JourneyForType
  <2> HIDE DEF j
  <2>2. JourneyValid(j) /\ Observable(j, t)
        BY <2>1 DEF Observable
  <2>3. ~Complete(j, t)
        BY <2>1, <2>2, JourneyTimes DEF Complete, Stop
  <2>4. a \in Assignment
        BY <2>1 DEF Assignment
  <2> QED BY <2>2, <2>3, <2>4
<1>5. a # None /\ claim # None /\ claim.worker = w /\ claim.revision = k
  <2>1. claim \in Claim
        BY <1>1, <1>3 DEF Claim
  <2> QED BY <1>4, <2>1, NoneAssumption
<1>6. /\ r.workers = [d.workers EXCEPT ![w] = row]
      /\ r.reservations = [d.reservations EXCEPT ![node] = claim]
      /\ r.buildings = d.buildings /\ r.project = d.project
      /\ r.projectWakeups = d.projectWakeups
      BY DEF Dispatched, WithWakeup, Keep
<1> HIDE DEF a, j
<1>7. /\ row.assignmentRevision = k /\ row.assignment = a
      /\ row.lastReturn = d.workers[w].lastReturn
      BY <1>2 DEF WorkerRow
<1> HIDE DEF row, claim
<1>8. /\ r.workers[w] = row /\ \A v \in Worker \ {w} : r.workers[v] = d.workers[v]
      /\ r.reservations[node] = claim
      /\ \A n \in Node \ {node} : r.reservations[n] = d.reservations[n]
      BY <1>1, <1>2, <1>6
<1>9. r.wakeups = d.wakeups \cup {s}
  <2> DEFINE q == [d EXCEPT
                !.workers[w] = [@ EXCEPT !.assignmentRevision = k, !.assignment = a],
                !.reservations[node] = [worker |-> w, revision |-> k]]
  <2>1. r.wakeups = q.wakeups \cup {WakeupOf(q, w, NextDueAt(j, t))}
        BY DEF Dispatched, WithWakeup, Keep, j, a
  <2>2. q.workers = [d.workers EXCEPT ![w] = row] /\ q.wakeups = d.wakeups
        BY DEF Keep, row
  <2> HIDE DEF q
  <2>3. WakeupOf(q, w, NextDueAt(j, t)) = s
        BY <1>1, <1>2, <1>7, <2>2 DEF WakeupOf
  <2> HIDE DEF s
  <2> QED BY <2>1, <2>2, <2>3
<1> HIDE DEF r, k
<1>10. /\ d.workers[w].assignment = None /\ ClaimedBy(d, w) = {} /\ WakeupsOf(d, w) = {}
       /\ d.reservations[node] = None
  <2>1. w \notin Away(d) /\ d.reservations[node] = None
        BY DEF DispatchAccepted, Idle, FirstFree
  <2>2. ClaimsValid(d, w) /\ WakeupsValid(d, w, t)
        BY <1>1 DEF KeepValid, WorkersValid
  <2> QED BY <1>1, <2>1, <2>2 DEF ClaimsValid, WakeupsValid, Away
<1>11. w \in Away(r) /\ JourneyOf(r, w) = j /\ s.worker = w /\ s.revision = k
       /\ s.due = NextDueAt(j, t)
       BY <1>1, <1>4, <1>5, <1>7, <1>8 DEF Away, JourneyOf
<1>12. WorkerRowValid(r.workers[w])
  <2>1. WorkerRowValid(d.workers[w])
        BY <1>1 DEF KeepValid, WorkersValid
  <2>2. d.workers[w].lastReturn # None => d.workers[w].lastReturn \in Outcome
        BY <1>2 DEF WorkerRow
  <2>3. d.workers[w].lastReturn # None => d.workers[w].lastReturn.assignmentRevision \in Nat
        BY <2>2 DEF Outcome, Positive
  <2> QED BY <1>3, <1>4, <1>7, <1>8, <2>1, <2>3 DEF WorkerRowValid, Positive, k
<1>13. ClaimsValid(r, w)
  <2>1. ClaimedBy(r, w) = {node}
    <3>1. \A n \in Node \ {node} : n \notin ClaimedBy(r, w)
          BY <1>8, <1>10 DEF ClaimedBy
    <3> QED BY <1>5, <1>8, <3>1 DEF ClaimedBy
  <2> QED BY <1>4, <1>5, <1>7, <1>8, <1>11, <2>1 DEF ClaimsValid
<1>14. WakeupsValid(r, w, t)
  <2>1. WakeupsOf(r, w) = {s}
        BY <1>9, <1>10, <1>11 DEF WakeupsOf
  <2>2. r.workers[w].assignmentRevision = k
        BY <1>7, <1>8
  <2> HIDE DEF s
  <2> QED BY <1>1, <1>4, <1>11, <2>1, <2>2, OneWakeupValid
<1>15. ASSUME NEW v \in Worker, v # w PROVE SameWorker(d, r, v)
  <2>1. WakeupsOf(r, v) = WakeupsOf(d, v)
        BY <1>9, <1>11, <1>15 DEF WakeupsOf
  <2>2. node \notin ClaimedBy(d, v) /\ node \notin ClaimedBy(r, v)
        BY <1>5, <1>8, <1>10, <1>15 DEF ClaimedBy
  <2>3. ClaimedBy(r, v) = ClaimedBy(d, v)
        BY <1>8, <2>2 DEF ClaimedBy
  <2> QED BY <1>8, <1>15, <2>1, <2>2, <2>3 DEF SameWorker, ClaimedBy
<1>16. WorkersValid(r, t)
       BY <1>12, <1>13, <1>14, <1>15, OtherWorkerStays DEF KeepValid, WorkersValid
<1>17. ConstructionValid(r)
       BY <1>6, SameBuildings DEF KeepValid, SameBuildingRows
<1> QED BY <1>16, <1>17 DEF KeepValid, r

LEMMA RecalledValid ==
    ASSUME NEW d \in Keep, NEW t \in Nat, NEW w \in Worker, AwaySound(d, t), KeepValid(d, t)
    PROVE  KeepValid(Recalled(d, t, w), t)
<1> DEFINE j == CutJourney(d, t, w)
           r == CutKeep(d, t, w)
           a == CutAssignment(d, t, w)
           row == [d.workers[w] EXCEPT !.assignment = a]
<1>1. CASE Idle(d, w) \/ j = JourneyOf(d, w)
      BY <1>1, RecalledCases
<1>2. CASE ~(Idle(d, w) \/ j = JourneyOf(d, w))
  <2>1. w \in Away(d) /\ d.workers[w].assignment # None
        BY <1>2 DEF Idle, Away
  <2>2. /\ JourneyValid(j) /\ Observable(j, t) /\ r \in Keep /\ AwaySound(r, t)
        /\ r.workers = [d.workers EXCEPT ![w] = row]
        /\ a \in Assignment /\ a.journey = j /\ a.node = d.workers[w].assignment.node
        /\ r.wakeups = d.wakeups \ WakeupsOf(d, w)
        /\ r.reservations = d.reservations
        /\ r.buildings = d.buildings /\ r.project = d.project
        /\ r.projectWakeups = d.projectWakeups
        BY <2>1, JourneyReplaced
  <2>3. /\ d.workers \in [Worker -> WorkerRow] /\ d.workers[w] \in WorkerRow
        /\ d.workers[w].assignmentRevision \in Positive
        BY <2>1, JourneyOfAway DEF Keep
  <2>4. Recalled(d, t, w) = IF Complete(j, t) THEN ReconcileWorkers(r, t)
                            ELSE WithWakeup(r, w, NextDueAt(j, t))
        BY <1>2, RecalledCases
  <2> HIDE DEF r, j, a
  <2>5. /\ row.assignmentRevision = d.workers[w].assignmentRevision /\ row.assignment = a
        /\ row.lastReturn = d.workers[w].lastReturn /\ a # None
        BY <2>2, <2>3, NoneAssumption DEF WorkerRow
  <2> HIDE DEF row
  <2>6. r.workers[w] = row /\ \A v \in Worker \ {w} : r.workers[v] = d.workers[v]
        BY <2>2, <2>3
  <2>7. w \in Away(r) /\ JourneyOf(r, w) = j
        BY <2>2, <2>5, <2>6 DEF Away, JourneyOf
  <2>8. \A v \in Worker : ClaimedBy(r, v) = ClaimedBy(d, v)
        BY <2>2 DEF ClaimedBy
  <2>9. WorkerRowValid(r.workers[w])
    <3>1. WorkerRowValid(d.workers[w])
          BY DEF KeepValid, WorkersValid
    <3> QED BY <2>1, <2>2, <2>3, <2>5, <2>6, <3>1 DEF WorkerRowValid, Positive
  <2>10. ClaimsValid(r, w)
    <3>1. ClaimsValid(d, w)
          BY DEF KeepValid, WorkersValid
    <3> QED BY <2>1, <2>2, <2>5, <2>6, <2>7, <2>8, <3>1 DEF ClaimsValid
  <2>11. ASSUME NEW v \in Worker, v # w PROVE SameWorker(d, r, v)
    <3>1. WakeupsOf(r, v) = WakeupsOf(d, v)
          BY <2>2, <2>11 DEF WakeupsOf
    <3> QED BY <2>2, <2>6, <2>8, <2>11, <3>1 DEF SameWorker
  <2>12. RowsValid(r)
         BY <2>9, <2>10, <2>11, OtherWorkerStays DEF KeepValid, RowsValid
  <2>13. CASE Complete(j, t)
    <3> DEFINE e == ReconcileWorkers(r, t)
    <3>1. WorkersValid(e, t) /\ SameBuildingRows(r, e)
          BY <2>2, <2>12, WorkersSettleValid
    <3> HIDE DEF e
    <3>2. ConstructionValid(e)
          BY <2>2, <3>1, SameBuildings DEF KeepValid, SameBuildingRows
    <3> QED BY <2>4, <2>13, <3>1, <3>2 DEF KeepValid, e
  <2>14. CASE ~Complete(j, t)
    <3> DEFINE s == WakeupOf(r, w, NextDueAt(j, t))
               e == WithWakeup(r, w, NextDueAt(j, t))
    <3>1. /\ e.workers = r.workers /\ e.reservations = r.reservations
          /\ e.wakeups = r.wakeups \cup {s} /\ e.buildings = r.buildings
          /\ e.project = r.project /\ e.projectWakeups = r.projectWakeups
          BY <2>2 DEF WithWakeup, Keep
    <3>2. s.worker = w /\ s.revision = r.workers[w].assignmentRevision
          /\ s.due = NextDueAt(j, t)
          BY DEF WakeupOf
    <3> HIDE DEF e, s
    <3>3. WakeupsOf(e, w) = {s}
          BY <2>2, <3>1, <3>2 DEF WakeupsOf
    <3>4. w \in Away(e) /\ JourneyOf(e, w) = j
          BY <2>7, <3>1 DEF Away, JourneyOf
    <3>5. WakeupsValid(e, w, t)
          BY <2>2, <2>14, <3>1, <3>2, <3>3, <3>4, OneWakeupValid
    <3>6. ClaimsValid(e, w)
          BY <2>10, <3>1 DEF ClaimsValid, ClaimedBy, Away
    <3>7. ASSUME NEW v \in Worker, v # w PROVE SameWorker(d, e, v)
      <4>1. WakeupsOf(e, v) = WakeupsOf(r, v)
            BY <3>1, <3>2, <3>7 DEF WakeupsOf
      <4>2. ClaimedBy(e, v) = ClaimedBy(r, v)
            BY <3>1 DEF ClaimedBy
      <4> QED BY <2>11, <3>1, <3>7, <4>1, <4>2 DEF SameWorker
    <3>8. WorkersValid(e, t)
          BY <2>9, <3>1, <3>5, <3>6, <3>7, OtherWorkerStays DEF KeepValid, WorkersValid
    <3>9. ConstructionValid(e)
          BY <2>2, <3>1, SameBuildings DEF KeepValid, SameBuildingRows
    <3> QED BY <2>4, <2>14, <3>8, <3>9 DEF KeepValid, e
  <2> QED BY <2>13, <2>14
<1> QED BY <1>1, <1>2

-----------------------------------------------------------------------------
(* Receipts: they are those of the last sequences without a gap, so that      *)
(* there is always one oldest to delete.                                      *)
ReceiptsOK(d) ==
    /\ IsFiniteSet(d.receipts)
    /\ ReceiptsValid(d, d.receipts)
    /\ \E k \in 1..(d.lastAccepted + 1) :
          {r.command.sequence : r \in d.receipts} = k..d.lastAccepted

LEMMA ReceiptsStay ==
    ASSUME NEW d \in Keep, NEW e \in Keep, ReceiptsOK(d), e.receipts = d.receipts,
           e.lastAccepted = d.lastAccepted, e.revision >= d.revision
    PROVE  ReceiptsOK(e)
<1>1. d.revision \in Nat /\ e.revision \in Nat
      BY DEF Keep
<1>2. 1..d.revision \subseteq 1..e.revision
      BY <1>1
<1> QED BY <1>2 DEF ReceiptsOK, ReceiptsValid

LEMMA CommittedReceipts ==
    ASSUME NEW d \in Keep, NEW command \in Command, ReceiptsOK(d),
           command.sequence = d.lastAccepted + 1
    PROVE  ReceiptsOK(Committed(d, command))
<1> DEFINE n == d.lastAccepted
           old == d.receipts
           new == [command |-> command, revision |-> d.revision + 1]
           all == old \cup {new}
           c == Committed(d, command)
<1>1. /\ c.receipts = WithReceipt(old, command, d.revision + 1)
      /\ c.lastAccepted = n + 1 /\ c.revision = d.revision + 1
      BY DEF Committed, Keep
<1>2. n \in Nat /\ d.revision \in Nat /\ MaxReceipts \in Nat \ {0}
      BY CommandAssumption DEF Keep
<1>3. /\ IsFiniteSet(old) /\ Cardinality(old) <= MaxReceipts /\ Cardinality(old) \in Nat
      /\ \A r \in old : r.command.sequence \in 1..n /\ r.revision \in 1..d.revision
      /\ \A r, s \in old : r.command.sequence = s.command.sequence => r = s
      BY FS_CardinalityType DEF ReceiptsOK, ReceiptsValid
<1>4. PICK k \in 1..(n + 1) : {r.command.sequence : r \in old} = k..n
      BY DEF ReceiptsOK
<1>5. new.command.sequence = n + 1 /\ new.revision = d.revision + 1
      OBVIOUS
<1>6. new \notin old
      BY <1>2, <1>3, <1>5
<1>7. IsFiniteSet(all) /\ Cardinality(all) = Cardinality(old) + 1
      BY <1>3, <1>6, FS_AddElement
<1> HIDE DEF new, c
<1>8. /\ \A r \in all : r.command.sequence \in 1..(n + 1) /\ r.revision \in 1..(d.revision + 1)
      /\ \A r, s \in all : r.command.sequence = s.command.sequence => r = s
  <2>1. \A r \in old : r.command.sequence # n + 1
        BY <1>2, <1>3
  <2> QED BY <1>2, <1>3, <1>5, <2>1
<1>9. {r.command.sequence : r \in all} = k..(n + 1)
  <2>1. {r.command.sequence : r \in all} =
           {r.command.sequence : r \in old} \cup {new.command.sequence}
        OBVIOUS
  <2>2. k..n \cup {n + 1} = k..(n + 1)
        BY <1>2
  <2> QED BY <1>4, <1>5, <2>1, <2>2
<1>10. CASE Cardinality(all) # MaxReceipts + 1
  <2>1. c.receipts = all
        BY <1>1, <1>10 DEF WithReceipt, new
  <2>2. Cardinality(all) <= MaxReceipts
        BY <1>2, <1>3, <1>7, <1>10
  <2>3. k \in 1..(n + 1 + 1)
        BY <1>2
  <2> HIDE DEF all
  <2> QED BY <1>1, <1>7, <1>8, <1>9, <2>1, <2>2, <2>3 DEF ReceiptsOK, ReceiptsValid, c
<1>11. CASE Cardinality(all) = MaxReceipts + 1
  <2>1. c.receipts = all \ Oldest(all)
        BY <1>1, <1>11 DEF WithReceipt, new
  <2>2. PICK o \in all : o.command.sequence = k
    <3>1. k \in k..(n + 1)
          BY <1>2
    <3> QED BY <1>9, <3>1
  <2> HIDE DEF all
  <2>3. \A r \in all : r.command.sequence \in k..(n + 1)
        BY <1>9
  <2>4. Oldest(all) = {o}
    <3>1. o \in Oldest(all)
          BY <1>2, <2>2, <2>3 DEF Oldest
    <3>2. ASSUME NEW r \in Oldest(all) PROVE r = o
      <4>1. r \in all /\ r.command.sequence <= k
            BY <2>2 DEF Oldest
      <4>2. r.command.sequence = k
            BY <1>2, <2>3, <4>1
      <4> QED BY <1>8, <2>2, <4>1, <4>2
    <3> QED BY <3>1, <3>2
  <2> DEFINE rest == all \ {o}
  <2>5. IsFiniteSet(rest) /\ Cardinality(rest) = MaxReceipts
    <3>1. IsFiniteSet(all) /\ o \in all
          BY <1>7, <2>2 DEF all
    <3>2. IsFiniteSet(rest) /\ Cardinality(rest) = Cardinality(all) - 1
          BY <3>1, FS_RemoveElement
    <3> HIDE DEF rest
    <3> QED BY <1>2, <1>11, <3>2
  <2>6. {r.command.sequence : r \in rest} = (k + 1)..(n + 1)
    <3>1. ASSUME NEW r \in rest PROVE r.command.sequence \in (k + 1)..(n + 1)
      <4>1. r.command.sequence \in k..(n + 1) /\ r.command.sequence # k
            BY <1>8, <2>2, <2>3
      <4> QED BY <1>2, <4>1
    <3>2. ASSUME NEW i \in (k + 1)..(n + 1) PROVE \E r \in rest : r.command.sequence = i
      <4>1. i \in k..(n + 1) /\ i # k
            BY <1>2
      <4>2. PICK r \in all : r.command.sequence = i
            BY <1>9, <4>1
      <4> QED BY <2>2, <4>1, <4>2
    <3> QED BY <3>1, <3>2
  <2>7. k + 1 \in 1..(n + 1 + 1)
        BY <1>2
  <2>8. c.receipts = rest
        BY <2>1, <2>4
  <2>9. Cardinality(rest) <= MaxReceipts
        BY <1>2, <2>5
  <2>10. /\ \A r \in rest : r.command.sequence \in 1..(n + 1)
                            /\ r.revision \in 1..(d.revision + 1)
         /\ \A r, s \in rest : r.command.sequence = s.command.sequence => r = s
         BY <1>8
  <2> HIDE DEF rest
  <2> QED BY <1>1, <2>5, <2>6, <2>7, <2>8, <2>9, <2>10 DEF ReceiptsOK, ReceiptsValid, c
<1> QED BY <1>10, <1>11

LEMMA CommittedValid ==
    ASSUME NEW d \in Keep, NEW command \in Command, NEW t, KeepValid(d, t)
    PROVE  KeepValid(Committed(d, command), t)
<1> DEFINE c == Committed(d, command)
<1>1. SameWorkerRows(d, c) /\ SameBuildingRows(d, c)
      BY DEF Committed, SameWorkerRows, SameBuildingRows, Keep
<1> HIDE DEF c
<1> QED BY <1>1, SameWorkers, SameBuildings DEF KeepValid, c

-----------------------------------------------------------------------------
(* Time, and wakeups that are gone. *)
LEMMA TickValid ==
    ASSUME NEW d \in Keep, NEW t \in Nat, KeepValid(d, t)
    PROVE  KeepValid(d, t + 1)
<1> SUFFICES ASSUME NEW w \in Worker PROVE WakeupsValid(d, w, t + 1)
    BY DEF KeepValid, WorkersValid
<1>1. WakeupsValid(d, w, t) /\ WorkerRowValid(d.workers[w])
      BY DEF KeepValid, WorkersValid
<1>2. CASE w \notin Away(d)
      BY <1>1, <1>2 DEF WakeupsValid
<1>3. CASE w \in Away(d)
  <2> DEFINE j == JourneyOf(d, w)
             u == t + 1
  <2>1. /\ JourneyValid(j) /\ Observable(j, t)
        /\ \A s, v \in WakeupsOf(d, w) : s = v
        /\ \A s \in WakeupsOf(d, w) :
              /\ s \in Wakeup
              /\ s.revision = d.workers[w].assignmentRevision
              /\ s.due \in {ArrivesAt(j), Stop(j), ReturnsAt(j)}
              /\ s.due > t => Complete(j, t) \/ s.due = NextDueAt(j, t)
        BY <1>1, <1>3 DEF WakeupsValid, WorkerRowValid, JourneyOf, Away, WakeupsOf, Keep
  <2> HIDE DEF j
  <2>2. u \in Nat /\ t <= u /\ t < u
        OBVIOUS
  <2>3. Observable(j, u)
    <3>1. j.dispatchedAt \in Nat /\ j.recalledAt \in Nat \cup {NotRecalled}
          BY <2>1, JourneyTimes
    <3> QED BY <2>1, <2>2, <3>1 DEF Observable
  <2>4. ~Complete(j, u) => NextDueAt(j, u) > u
        BY <2>1, <2>2, NextDueInFuture
  <2>5. ASSUME NEW s \in WakeupsOf(d, w), s.due > u
        PROVE  Complete(j, u) \/ s.due = NextDueAt(j, u)
    <3>1. s.due \in Nat
          BY <2>1 DEF Wakeup
    <3>2. s.due > t
          BY <2>2, <2>5, <3>1
    <3>3. CASE Complete(j, t)
      <4>1. ReturnsAt(j) \in Nat
            BY <2>1, JourneyTimes
      <4> QED BY <2>2, <3>3, <4>1 DEF Complete
    <3>4. CASE ~Complete(j, t)
      <4>1. s.due = NextDueAt(j, t)
            BY <2>1, <3>2, <3>4
      <4> QED BY <2>1, <2>2, <2>5, <3>4, <4>1, WakeupStaysRight
    <3> QED BY <3>3, <3>4
  <2> HIDE DEF u
  <2>6. WakeupsValid(d, w, u)
        BY <1>3, <2>1, <2>3, <2>4, <2>5 DEF WakeupsValid, j
  <2> QED BY <2>6 DEF u
<1> QED BY <1>2, <1>3

LEMMA FewerWakeups ==
    ASSUME NEW d, NEW e, NEW t, KeepValid(d, t),
           e.workers = d.workers, e.reservations = d.reservations,
           e.buildings = d.buildings, e.project = d.project,
           e.wakeups \subseteq d.wakeups, e.projectWakeups \subseteq d.projectWakeups
    PROVE  KeepValid(e, t)
<1>1. WorkersValid(e, t)
  <2> SUFFICES ASSUME NEW w \in Worker
               PROVE  WorkerRowValid(e.workers[w]) /\ ClaimsValid(e, w) /\ WakeupsValid(e, w, t)
      BY DEF WorkersValid
  <2>1. WorkerRowValid(d.workers[w]) /\ ClaimsValid(d, w) /\ WakeupsValid(d, w, t)
        BY DEF KeepValid, WorkersValid
  <2>2. /\ (w \in Away(e) <=> w \in Away(d)) /\ JourneyOf(e, w) = JourneyOf(d, w)
        /\ ClaimedBy(e, w) = ClaimedBy(d, w) /\ WakeupsOf(e, w) \subseteq WakeupsOf(d, w)
        BY DEF Away, JourneyOf, ClaimedBy, WakeupsOf
  <2>3. ClaimsValid(e, w)
        BY <2>1, <2>2 DEF ClaimsValid
  <2>4. WakeupsValid(e, w, t)
        BY <2>1, <2>2 DEF WakeupsValid
  <2> QED BY <2>1, <2>3, <2>4
<1>2. ConstructionValid(e)
  <2>1. CompletedLevelsOf(e) = CompletedLevelsOf(d) /\ Built(e) = Built(d)
        BY DEF CompletedLevelsOf, Built
  <2>2. ASSUME NEW p PROVE ProjectValid(e, p) <=> ProjectValid(d, p)
        BY <2>1 DEF ProjectValid
  <2> QED BY <2>1, <2>2 DEF KeepValid, ConstructionValid
<1> QED BY <1>1, <1>2 DEF KeepValid

LEMMA NoKeepValid ==
    ASSUME NEW t
    PROVE  KeepValid(NoKeep, t) /\ ReceiptsOK(NoKeep)
<1>1. \A w \in Worker : WorkerRowValid(IdleWorker)
      BY DEF WorkerRowValid, IdleWorker
<1>2. \A w \in Worker : NoKeep.workers[w] = IdleWorker
      BY DEF NoKeep
<1>3. Away(NoKeep) = {}
      BY DEF NoKeep, IdleWorker, Away
<1>4. \A w \in Worker : ClaimedBy(NoKeep, w) = {} /\ WakeupsOf(NoKeep, w) = {}
      BY DEF NoKeep, ClaimedBy, WakeupsOf
<1>5. WorkersValid(NoKeep, t)
      BY <1>1, <1>2, <1>3, <1>4 DEF WorkersValid, ClaimsValid, WakeupsValid
<1>6. Built(NoKeep) = {} /\ NoKeep.project = None /\ NoKeep.projectWakeups = {}
      BY DEF NoKeep, Built
<1>7. ConstructionValid(NoKeep)
      BY <1>6 DEF ConstructionValid
<1>8. NoKeep.receipts = {} /\ NoKeep.lastAccepted = 0
      BY DEF NoKeep
<1>9. IsFiniteSet({}) /\ Cardinality({}) = 0
      BY FS_EmptySet
<1>10. ReceiptsOK(NoKeep)
  <2>1. 1 \in 1..(0 + 1) /\ 1..0 = {}
        OBVIOUS
  <2>2. ReceiptsValid(NoKeep, {})
        BY <1>9, CommandAssumption DEF ReceiptsValid
  <2> QED BY <1>8, <1>9, <2>1, <2>2 DEF ReceiptsOK
<1> QED BY <1>5, <1>7, <1>10 DEF KeepValid

-----------------------------------------------------------------------------
(* Transactions. *)
Untouched == db.revision = 0 => db = NoKeep

StoredInv == Inv /\ Untouched /\ ReceiptsOK(db) /\ KeepValid(db, now)

LEMMA UntouchedStep ==
    ASSUME Inv, Untouched, [Next]_vars
    PROVE  Untouched'
<1> SUFFICES ASSUME db'.revision = 0, db' # db PROVE FALSE
    BY DEF Untouched
<1>1. db.revision \in Nat /\ db'.revision \in {db.revision, db.revision + 1}
  <2>1. [Log!Next]_(Log!logVars)
        BY InvNext
  <2>2. db'.revision \in {db.revision, db.revision + 1}
        BY <2>1 DEF Log!Next, Log!Accept, Log!Settle, Log!logVars
  <2> QED BY <2>2 DEF Inv, TypeOK, Keep
<1>2. db.revision = 0 /\ db.wakeups = {} /\ db.projectWakeups = {}
      BY <1>1 DEF Inv, NothingYet
<1>3. PICK c \in InitializeCommand : Initialize(c)
      BY <1>2 DEF Next, DispatchWorker, RecallWorker, StartBuilding, Fresh, GetKeep, LoseWakeup,
                  ProvisionOwner, SuspendOwner, Tick, vars
<1>4. db'.revision = 1
  <2>1. c \in Command /\ NoKeep \in Keep /\ NoKeep.revision = 0
        BY NoKeepType DEF Command, NoKeep
  <2> QED BY <1>3, <2>1, CommittedType DEF Initialize, Accept, Store
<1> QED BY <1>4

LEMMA StoredInvIsValid == StoredInv => StoredStateValid(db, now)
BY DEF StoredInv, ReceiptsOK, KeepValid, StoredStateValid

LEMMA AcceptValid ==
    ASSUME StoredInv, NEW command \in Command, NEW d \in Keep, KeepValid(d, now),
           ReceiptsOK(d), command.sequence = d.lastAccepted + 1, Accept(command, d)
    PROVE  ReceiptsOK(db') /\ KeepValid(db', now')
<1>1. db' = Committed(d, command) /\ now' = now
      BY DEF Accept, Store
<1> QED BY <1>1, CommittedReceipts, CommittedValid

LEMMA ReconciledValid ==
    ASSUME StoredInv
    PROVE  LET r == Reconcile(db, now)
           IN  /\ r \in Keep /\ AwaySound(r, now) /\ KeepValid(r, now) /\ ReceiptsOK(r)
               /\ r.revision = db.revision /\ r.lastAccepted = db.lastAccepted
<1> DEFINE r == Reconcile(db, now)
<1>1. now \in Nat /\ db \in Keep /\ StoredStateValid(db, now) /\ ReceiptsOK(db)
      /\ db.revision \in Nat
      BY NowType, StoredInvIsValid DEF StoredInv, Inv, Keep
<1>2. /\ r \in Keep /\ AwaySound(r, now) /\ KeepValid(r, now) /\ r.receipts = db.receipts
      /\ r.revision = db.revision /\ r.lastAccepted = db.lastAccepted
      BY <1>1, Reconciled, ReconcileValid
<1> HIDE DEF r
<1>3. ReceiptsOK(r)
      BY <1>1, <1>2, ReceiptsStay
<1> QED BY <1>2, <1>3 DEF r

LEMMA SettledValid ==
    ASSUME StoredInv
    PROVE  LET r == Settled(db, now)
           IN  r \in Keep /\ KeepValid(r, now) /\ ReceiptsOK(r)
<1> DEFINE c == Reconcile(db, now)
           r == [c EXCEPT !.revision = @ + 1]
<1>1. /\ c \in Keep /\ KeepValid(c, now) /\ ReceiptsOK(c)
      BY ReconciledValid
<1>2. Settled(db, now) = IF c = db THEN db ELSE r
      BY DEF Settled
<1> HIDE DEF c
<1>3. /\ r \in Keep /\ r.receipts = c.receipts /\ r.lastAccepted = c.lastAccepted
      /\ r.revision >= c.revision /\ SameWorkerRows(c, r) /\ SameBuildingRows(c, r)
      BY <1>1 DEF Keep, SameWorkerRows, SameBuildingRows
<1> HIDE DEF r
<1>4. KeepValid(r, now)
      BY <1>1, <1>3, SameWorkers, SameBuildings DEF KeepValid
<1>5. ReceiptsOK(r)
      BY <1>1, <1>3, ReceiptsStay
<1> QED BY <1>1, <1>2, <1>3, <1>4, <1>5, NowType DEF StoredInv, Inv

(* A timer settles the keep or does not; its own row is gone in any case. *)
LEMMA TimerValid ==
    ASSUME StoredInv, NEW d, d = db \/ d = Settled(db, now), NEW e \in Keep,
           e.workers = d.workers, e.reservations = d.reservations,
           e.buildings = d.buildings, e.project = d.project,
           e.wakeups \subseteq d.wakeups, e.projectWakeups \subseteq d.projectWakeups,
           e.receipts = d.receipts, e.lastAccepted = d.lastAccepted, e.revision = d.revision,
           db' = e, now' = now
    PROVE  ReceiptsOK(db') /\ KeepValid(db', now')
<1>1. d \in Keep /\ KeepValid(d, now) /\ ReceiptsOK(d)
      BY SettledValid, NowType DEF StoredInv, Inv
<1>2. d.revision \in Nat /\ e.revision >= d.revision
      BY <1>1 DEF Keep
<1> QED BY <1>1, <1>2, FewerWakeups, ReceiptsStay

LEMMA StoredInit == Init => StoredInv
BY InvInit, NoKeepValid DEF Init, Untouched, StoredInv

LEMMA StoredStep ==
    ASSUME StoredInv, [Next]_vars
    PROVE  StoredInv'
<1>0. /\ now \in Nat /\ db \in Keep /\ Inv /\ Inv' /\ Untouched'
      /\ ReceiptsOK(db) /\ KeepValid(db, now)
      BY NowType, InvNext, UntouchedStep DEF StoredInv, Inv
<1> DEFINE Goal == ReceiptsOK(db') /\ KeepValid(db', now')
           r == Reconcile(db, now)
<1>r. /\ r \in Keep /\ AwaySound(r, now) /\ KeepValid(r, now) /\ ReceiptsOK(r)
      /\ r.revision = db.revision /\ r.lastAccepted = db.lastAccepted
      BY ReconciledValid
<1>1. ASSUME NEW c \in InitializeCommand, Initialize(c) PROVE Goal
  <2>1. c \in Command /\ NoKeep \in Keep /\ NoKeep.lastAccepted = 0
        BY NoKeepType DEF Command, NoKeep
  <2>2. c.sequence = 1 /\ Accept(c, NoKeep)
        BY <1>1 DEF Initialize
  <2> QED BY <2>1, <2>2, NoKeepValid, AcceptValid
<1>2. ASSUME NEW c \in DispatchCommand, DispatchWorker(c) PROVE Goal
  <2>1. c \in Command /\ c.sequence = db.lastAccepted + 1
        BY <1>2, FreshIsValid DEF Command, DispatchWorker
  <2>2. PICK node \in Node : /\ DispatchAccepted(r, now, c, node)
                             /\ Accept(c, Dispatched(r, now, c, node))
        BY <1>2 DEF DispatchWorker
  <2> DEFINE d == Dispatched(r, now, c, node)
  <2> HIDE DEF r
  <2>3. /\ d \in Keep /\ KeepValid(d, now) /\ d.receipts = r.receipts
        /\ d.lastAccepted = r.lastAccepted /\ d.revision = r.revision
        BY <1>0, <1>r, <2>2, DispatchedType, DispatchedValid
  <2>4. Accept(c, d)
        BY <2>2
  <2> HIDE DEF d
  <2>5. ReceiptsOK(d)
        BY <1>r, <2>3, ReceiptsStay DEF Keep
  <2> QED BY <1>r, <2>1, <2>3, <2>4, <2>5, AcceptValid
<1>3. ASSUME NEW c \in RecallCommand, RecallWorker(c) PROVE Goal
  <2>1. c \in Command /\ c.worker \in Worker /\ c.sequence = db.lastAccepted + 1
        BY <1>3, FreshIsValid DEF Command, RecallCommand, RecallWorker
  <2> DEFINE d == Recalled(r, now, c.worker)
  <2>2. Accept(c, d)
        BY <1>3 DEF RecallWorker
  <2> HIDE DEF r
  <2>3. /\ d \in Keep /\ KeepValid(d, now) /\ d.receipts = r.receipts
        /\ d.lastAccepted = r.lastAccepted /\ d.revision = r.revision
        BY <1>0, <1>r, <2>1, RecalledType, RecalledValid
  <2> HIDE DEF d
  <2>4. ReceiptsOK(d)
        BY <1>r, <2>3, ReceiptsStay DEF Keep
  <2> QED BY <1>r, <2>1, <2>2, <2>3, <2>4, AcceptValid
<1>4. ASSUME NEW c \in BuildCommand, StartBuilding(c) PROVE Goal
  <2>1. c \in Command /\ c.sequence = db.lastAccepted + 1
        BY <1>4, FreshIsValid DEF Command, StartBuilding
  <2> DEFINE d == BuildStarted(r, now, c)
  <2>2. BuildAccepted(r, now, c) /\ Accept(c, d)
        BY <1>4 DEF StartBuilding
  <2> HIDE DEF r
  <2>3. /\ d \in Keep /\ d.receipts = r.receipts
        /\ d.lastAccepted = r.lastAccepted /\ d.revision = r.revision
        /\ ConstructionValid(d) /\ SameWorkerRows(r, d)
        BY <1>0, <1>r, <2>2, BuildStartedType, BuildStartedValid DEF KeepValid
  <2> HIDE DEF d
  <2>4. KeepValid(d, now)
        BY <1>r, <2>3, SameWorkers DEF KeepValid
  <2>5. ReceiptsOK(d)
        BY <1>r, <2>3, ReceiptsStay DEF Keep
  <2> QED BY <1>r, <2>1, <2>2, <2>3, <2>4, <2>5, AcceptValid
<1>5. ASSUME GetKeep PROVE Goal
  <2>1. db' = Settled(db, now) /\ now' = now
        BY <1>5 DEF GetKeep, Store
  <2> QED BY <2>1, SettledValid
<1>6. ASSUME NEW s \in db.wakeups, RunWorkerWakeup(s) PROVE Goal
  <2> DEFINE current == s.worker \in Away(db)
                           /\ db.workers[s.worker].assignmentRevision = s.revision
             d == IF Runs(current) THEN Settled(db, now) ELSE db
             e == [d EXCEPT !.wakeups = @ \ {s}]
  <2>1. db' = e /\ now' = now /\ d \in Keep /\ (d = db \/ d = Settled(db, now))
        BY <1>0, <1>6, TimerType DEF RunWorkerWakeup, Store
  <2> HIDE DEF d
  <2>2. /\ e \in Keep /\ e.workers = d.workers /\ e.reservations = d.reservations
        /\ e.buildings = d.buildings /\ e.project = d.project
        /\ e.wakeups \subseteq d.wakeups /\ e.projectWakeups \subseteq d.projectWakeups
        /\ e.receipts = d.receipts /\ e.lastAccepted = d.lastAccepted
        /\ e.revision = d.revision
        BY <2>1 DEF Keep
  <2> HIDE DEF e
  <2> QED BY <2>1, <2>2, TimerValid
<1>7. ASSUME NEW s \in db.projectWakeups, RunProjectWakeup(s) PROVE Goal
  <2> DEFINE current == db.project # None /\ s = WakeupOfProject(db.project)
             d == IF Runs(current) THEN Settled(db, now) ELSE db
             e == [d EXCEPT !.projectWakeups = @ \ {s}]
  <2>1. db' = e /\ now' = now /\ d \in Keep /\ (d = db \/ d = Settled(db, now))
        BY <1>0, <1>7, TimerType DEF RunProjectWakeup, Store
  <2> HIDE DEF d
  <2>2. /\ e \in Keep /\ e.workers = d.workers /\ e.reservations = d.reservations
        /\ e.buildings = d.buildings /\ e.project = d.project
        /\ e.wakeups \subseteq d.wakeups /\ e.projectWakeups \subseteq d.projectWakeups
        /\ e.receipts = d.receipts /\ e.lastAccepted = d.lastAccepted
        /\ e.revision = d.revision
        BY <2>1 DEF Keep
  <2> HIDE DEF e
  <2> QED BY <2>1, <2>2, TimerValid
<1>8. ASSUME LoseWakeup PROVE Goal
  <2>1. now' = now
        BY <1>8 DEF LoseWakeup
  <2>2. /\ db' \in Keep /\ db'.workers = db.workers /\ db'.reservations = db.reservations
        /\ db'.buildings = db.buildings /\ db'.project = db.project
        /\ db'.wakeups \subseteq db.wakeups /\ db'.projectWakeups \subseteq db.projectWakeups
        /\ db'.receipts = db.receipts /\ db'.lastAccepted = db.lastAccepted
        /\ db'.revision = db.revision
        BY <1>0, <1>8 DEF LoseWakeup, Keep
  <2> QED BY <2>1, <2>2, TimerValid
<1>9. ASSUME Tick PROVE Goal
      BY <1>0, <1>9, TickValid DEF Tick
<1>10. ASSUME ProvisionOwner \/ SuspendOwner \/ UNCHANGED vars PROVE Goal
  <2>1. db' = db /\ now' = now
        BY <1>10 DEF ProvisionOwner, SuspendOwner, vars
  <2> QED BY <1>0, <2>1
<1>11. Goal
       BY <1>1, <1>2, <1>3, <1>4, <1>5, <1>6, <1>7, <1>8, <1>9, <1>10 DEF Next
<1> QED BY <1>0, <1>11 DEF StoredInv

(* The rows are never such that a procedure refuses them: whatever commands,  *)
(* reads and timers ran, and whatever timer was lost, the keep passes its own *)
(* validation (reconcileWorkersWithoutRevision04, validateConstructionState04 *)
(* and validateReceipts04).                                                   *)
THEOREM NeverRefusedAlways == Spec => []NeverRefused
<1>1. StoredInv => NeverRefused
      BY StoredInvIsValid DEF NeverRefused
<1>2. StoredInv /\ [Next]_vars => StoredInv'
      BY StoredStep
<1> QED BY <1>1, <1>2, StoredInit, PTL DEF Spec
-----------------------------------------------------------------------------
(* Levels. *)
DueFor(d, b, t) == d.project # None /\ d.project.building = b /\ d.project.completesAt <= t

Raised(d, e, b) == CompletedLevelsOf(d)[b] + 1 = CompletedLevelsOf(e)[b]

LevelStep(d, e, t) ==
    \A b \in Building :
        /\ CompletedLevelsOf(e)[b] # CompletedLevelsOf(d)[b] =>
              Raised(d, e, b) /\ DueFor(d, b, t)
        /\ d.project # None /\ d.project.building = b /\ e.project # d.project =>
              Raised(d, e, b) /\ DueFor(d, b, t)

LEMMA LevelsStay ==
    ASSUME NEW d, NEW r, NEW e, NEW t, LevelStep(d, r, t),
           CompletedLevelsOf(e) = CompletedLevelsOf(r),
           d.project # None /\ e.project # d.project => r.project # d.project
    PROVE  LevelStep(d, e, t)
BY DEF LevelStep, Raised

LEMMA SameLevels ==
    ASSUME NEW d, NEW e, e.buildings = d.buildings
    PROVE  CompletedLevelsOf(e) = CompletedLevelsOf(d)
BY DEF CompletedLevelsOf

LEMMA ConstructionLevels ==
    ASSUME NEW d \in Keep, NEW t \in Nat, ConstructionValid(d)
    PROVE  LevelStep(d, ReconcileConstruction(d, t), t)
<1> DEFINE p == d.project
           r == ReconcileConstruction(d, t)
<1>1. CASE p = None
      BY <1>1 DEF ReconcileConstruction, LevelStep
<1>2. CASE p # None /\ ~Due(p, t)
  <2>1. r.buildings = d.buildings /\ r.project = p
        BY <1>2 DEF ReconcileConstruction, WithProjectWakeup, Keep
  <2> HIDE DEF r
  <2> QED BY <2>1, SameLevels DEF LevelStep, r
<1>3. CASE p # None /\ Due(p, t)
  <2> DEFINE b == p.building
             row == [d.buildings[b] EXCEPT !.completedLevel = p.targetLevel]
  <2>1. /\ ProjectValid(d, p) /\ b \in Building /\ d.buildings[b] # None
        /\ d.buildings \in [Building -> BuildingRow \cup {None}]
        BY <1>3 DEF ConstructionValid, ProjectValid, Built, Keep
  <2>2. d.buildings[b] \in BuildingRow
        BY <2>1
  <2>3. r.buildings = [d.buildings EXCEPT ![b] = row]
        BY <1>3 DEF ReconcileConstruction, Keep
  <2>4. row.completedLevel = p.targetLevel
        BY <2>2 DEF BuildingRow
  <2>5. row # None
    <3>1. p.targetLevel \in Level
          BY <1>3, PolicyAssumption DEF Keep, Project, TargetLevel, Level
    <3>2. row \in BuildingRow
          BY <2>2, <3>1 DEF BuildingRow
    <3> QED BY <3>2, NoneAssumption
  <2> HIDE DEF row, r
  <2>6. r.buildings[b] = row /\ \A c \in Building \ {b} : r.buildings[c] = d.buildings[c]
        BY <2>1, <2>3
  <2>7. /\ CompletedLevelsOf(r)[b] = p.targetLevel
        /\ CompletedLevelsOf(d)[b] = d.buildings[b].completedLevel
        /\ \A c \in Building \ {b} : CompletedLevelsOf(r)[c] = CompletedLevelsOf(d)[c]
        BY <2>1, <2>4, <2>5, <2>6 DEF CompletedLevelsOf
  <2>8. Raised(d, r, b)
        BY <2>1, <2>7 DEF Raised, ProjectValid
  <2>9. DueFor(d, b, t)
        BY <1>3 DEF DueFor, Due
  <2> QED BY <2>7, <2>8, <2>9 DEF LevelStep, r
<1> QED BY <1>1, <1>2, <1>3

LEMMA ReconcileLevels ==
    ASSUME NEW d \in Keep, NEW t \in Nat, StoredStateValid(d, t)
    PROVE  LevelStep(d, Reconcile(d, t), t)
<1> DEFINE c == ReconcileConstruction(d, t)
           r == ReconcileWorkers(c, t)
<1>1. c \in Keep /\ LevelStep(d, c, t)
      BY ValidIsSound, ConstructionReconciled, ConstructionLevels DEF StoredStateValid
<1> HIDE DEF c
<1>2. r.buildings = c.buildings /\ r.project = c.project
      BY <1>1 DEF ReconcileWorkers, Keep
<1> HIDE DEF r
<1> QED BY <1>1, <1>2, SameLevels, LevelsStay DEF Reconcile, r, c

LEMMA CutKeepFrame ==
    ASSUME NEW d \in Keep, NEW t \in Nat, AwaySound(d, t), NEW w \in Away(d)
    PROVE  /\ CutKeep(d, t, w) \in Keep
           /\ CutKeep(d, t, w).buildings = d.buildings
           /\ CutKeep(d, t, w).project = d.project
BY JourneyReplaced

LEMMA LevelsNext ==
    ASSUME StoredInv, [Next]_vars
    PROVE  LevelStep(db, db', now)
<1> DEFINE Goal == LevelStep(db, db', now)
           r == Reconcile(db, now)
<1>0. now \in Nat /\ db \in Keep /\ StoredStateValid(db, now)
      BY NowType, StoredInvIsValid DEF StoredInv, Inv
<1>r. r \in Keep /\ AwaySound(r, now) /\ LevelStep(db, r, now)
      BY <1>0, Reconciled, ReconcileLevels
<1>d. LevelStep(db, db, now)
      BY DEF LevelStep
<1>1. ASSUME NEW c, NEW d \in Keep, Accept(c, d), CompletedLevelsOf(d) = CompletedLevelsOf(r),
             db.project # None /\ d.project # db.project => r.project # db.project
      PROVE  Goal
  <2>1. db'.buildings = d.buildings /\ db'.project = d.project
        BY <1>1 DEF Accept, Store, Committed, Keep
  <2>2. CompletedLevelsOf(db') = CompletedLevelsOf(r)
        BY <1>1, <2>1, SameLevels
  <2> HIDE DEF r
  <2> QED BY <1>r, <1>1, <2>1, <2>2, LevelsStay
<1>2. ASSUME NEW d, d = db \/ d = Settled(db, now),
             db'.buildings = d.buildings, db'.project = d.project
      PROVE  Goal
  <2>1. d = db \/ d = [r EXCEPT !.revision = @ + 1]
        BY <1>2 DEF Settled
  <2> HIDE DEF r
  <2>2. \/ d.buildings = db.buildings /\ d.project = db.project
        \/ d.buildings = r.buildings /\ d.project = r.project
        BY <1>r, <2>1 DEF Keep
  <2> QED BY <1>2, <1>r, <1>d, <2>2, SameLevels, LevelsStay
<1>3. ASSUME NEW c \in InitializeCommand, Initialize(c) PROVE Goal
  <2>1. db = NoKeep /\ db' = Committed(NoKeep, c)
        BY <1>3 DEF Initialize, Accept, Store, StoredInv, Untouched
  <2>2. db'.buildings = db.buildings /\ db'.project = db.project
        BY <2>1 DEF Committed, NoKeep
  <2> QED BY <1>2, <2>2
<1>4. ASSUME NEW c \in DispatchCommand, DispatchWorker(c) PROVE Goal
  <2>1. PICK node \in Node : /\ DispatchAccepted(r, now, c, node)
                             /\ Accept(c, Dispatched(r, now, c, node))
        BY <1>4 DEF DispatchWorker
  <2> DEFINE d == Dispatched(r, now, c, node)
  <2> HIDE DEF r
  <2>2. d \in Keep /\ d.buildings = r.buildings /\ d.project = r.project
    <3>1. d.buildings = r.buildings /\ d.project = r.project
          BY <1>r DEF Dispatched, WithWakeup, Keep
    <3> QED BY <1>0, <1>r, <2>1, <3>1, DispatchedType
  <2>3. Accept(c, d)
        BY <2>1
  <2> HIDE DEF d
  <2> QED BY <1>1, <2>2, <2>3, SameLevels
<1>5. ASSUME NEW c \in RecallCommand, RecallWorker(c) PROVE Goal
  <2> DEFINE d == Recalled(r, now, c.worker)
             w == c.worker
             j == CutJourney(r, now, w)
             q == CutKeep(r, now, w)
  <2>1. w \in Worker /\ Accept(c, d)
        BY <1>5 DEF RecallCommand, RecallWorker
  <2> HIDE DEF r
  <2>2. d \in Keep
        BY <1>0, <1>r, <2>1, RecalledType
  <2>3. d.buildings = r.buildings /\ d.project = r.project
    <3>1. CASE Idle(r, w) \/ j = JourneyOf(r, w)
          BY <3>1, RecalledCases
    <3>2. CASE ~(Idle(r, w) \/ j = JourneyOf(r, w))
      <4>1. w \in Away(r)
            BY <3>2 DEF Idle
      <4>2. q \in Keep /\ q.buildings = r.buildings /\ q.project = r.project
            BY <1>0, <1>r, <4>1, CutKeepFrame
      <4>3. d \in {ReconcileWorkers(q, now), WithWakeup(q, w, NextDueAt(j, now))}
            BY <3>2, RecalledCases
      <4> HIDE DEF q, d
      <4> QED BY <4>2, <4>3 DEF ReconcileWorkers, WithWakeup, Keep
    <3> QED BY <3>1, <3>2
  <2> HIDE DEF d
  <2> QED BY <1>1, <2>1, <2>2, <2>3, SameLevels
<1>6. ASSUME NEW c \in BuildCommand, StartBuilding(c) PROVE Goal
  <2> DEFINE d == BuildStarted(r, now, c)
  <2>1. BuildAccepted(r, now, c) /\ Accept(c, d)
        BY <1>6 DEF StartBuilding
  <2>2. ConstructionValid(r)
        BY ReconciledValid DEF KeepValid
  <2> HIDE DEF r
  <2>3. d \in Keep /\ CompletedLevelsOf(d) = CompletedLevelsOf(r) /\ r.project = None
        BY <1>0, <1>r, <2>1, <2>2, BuildStartedType, BuildStartedValid
           DEF BuildAccepted, BuilderFree
  <2> HIDE DEF d
  <2> QED BY <1>1, <2>1, <2>3
<1>7. ASSUME GetKeep PROVE Goal
      BY <1>2, <1>7 DEF GetKeep, Store
<1>8. ASSUME NEW s \in db.wakeups, RunWorkerWakeup(s) PROVE Goal
  <2> DEFINE current == s.worker \in Away(db)
                           /\ db.workers[s.worker].assignmentRevision = s.revision
             d == IF Runs(current) THEN Settled(db, now) ELSE db
  <2>1. db' = [d EXCEPT !.wakeups = @ \ {s}] /\ d \in Keep /\ d \in {db, Settled(db, now)}
        BY <1>8, TimerType DEF RunWorkerWakeup, Store, StoredInv
  <2> HIDE DEF d
  <2>2. db'.buildings = d.buildings /\ db'.project = d.project
        BY <2>1 DEF Keep
  <2> QED BY <1>2, <2>1, <2>2
<1>9. ASSUME NEW s \in db.projectWakeups, RunProjectWakeup(s) PROVE Goal
  <2> DEFINE current == db.project # None /\ s = WakeupOfProject(db.project)
             d == IF Runs(current) THEN Settled(db, now) ELSE db
  <2>1. db' = [d EXCEPT !.projectWakeups = @ \ {s}] /\ d \in Keep /\ d \in {db, Settled(db, now)}
        BY <1>9, TimerType DEF RunProjectWakeup, Store, StoredInv
  <2> HIDE DEF d
  <2>2. db'.buildings = d.buildings /\ db'.project = d.project
        BY <2>1 DEF Keep
  <2> QED BY <1>2, <2>1, <2>2
<1>10. ASSUME LoseWakeup \/ ProvisionOwner \/ SuspendOwner \/ Tick \/ UNCHANGED vars PROVE Goal
  <2>1. db'.buildings = db.buildings /\ db'.project = db.project
        BY <1>0, <1>10 DEF LoseWakeup, ProvisionOwner, SuspendOwner, Tick, vars, Keep
  <2> QED BY <1>2, <2>1
<1> QED BY <1>3, <1>4, <1>5, <1>6, <1>7, <1>8, <1>9, <1>10 DEF Next

(* A level is completed by its own project, one at a time and not before its  *)
(* time, and a project that was paid for is never dropped                     *)
(* (reconcileConstructionWithoutRevision04, startBuilding04).                 *)
THEOREM LevelsByProjectAlways == Spec => LevelsByProject
<1> DEFINE Levels ==
        \A b \in Building :
          LET built == CompletedLevelsOf(db)[b] + 1 = CompletedLevelsOf(db')[b]
              due   == db.project # None /\ db.project.building = b
                       /\ db.project.completesAt <= now
          IN  /\ CompletedLevelsOf(db')[b] # CompletedLevelsOf(db)[b] => built /\ due
              /\ db.project # None /\ db.project.building = b /\ db'.project # db.project =>
                    built /\ due
<1>1. ASSUME StoredInv, [Next]_vars PROVE Levels
  <2>1. LevelStep(db, db', now)
        BY <1>1, LevelsNext
  <2> QED BY <2>1 DEF LevelStep, Raised, DueFor
<1>2. StoredInv /\ [Next]_vars => StoredInv'
      BY StoredStep
<1>3. StoredInv /\ [Next]_vars => [Levels]_vars
      BY <1>1
<1>4. Spec => [][Levels]_vars
  <2> HIDE DEF Levels
  <2> QED BY <1>2, <1>3, StoredInit, PTL DEF Spec
<1> QED BY <1>4 DEF LevelsByProject

-----------------------------------------------------------------------------
(* Sums over finite sets, as MapThenSumSet computes them: one member after    *)
(* another is taken out of the set, in an order that CHOOSE fixes.  Any other *)
(* order gives the same sum.                                                  *)
Pick(s) == CHOOSE x \in s : TRUE

Sums(F, S, g) ==
    F = [s \in SUBSET S |-> IF s = {} THEN 0 ELSE g[Pick(s)] + F[s \ {Pick(s)}]]

LEMMA Smallest ==
    ASSUME NEW S, IsFiniteSet(S), NEW T, T \subseteq SUBSET S, T # {}
    PROVE  \E B \in T : \A C \in T : C \subseteq B => C = B
<1>1. T \subseteq FiniteSubsetsOf(S)
      BY FS_Subset DEF FiniteSubsetsOf
<1>2. PICK B \in T : \A C \in T : <<C, B>> \notin StrictSubsetOrdering(S)
      BY <1>1, FS_StrictSubsetOrderingWellFounded, WFMin
<1>3. ASSUME NEW C \in T, C \subseteq B, C # B PROVE FALSE
  <2>1. <<C, B>> \in StrictSubsetOrdering(S)
        BY <1>3 DEF StrictSubsetOrdering
  <2> QED BY <1>2, <2>1
<1> QED BY <1>3

LEMMA PickIn ==
    ASSUME NEW s, s # {}
    PROVE  Pick(s) \in s /\ s \ {Pick(s)} \subseteq s /\ s \ {Pick(s)} # s
<1>1. Pick(s) \in s
      BY DEF Pick
<1> HIDE DEF Pick
<1> QED BY <1>1

LEMMA SumValues ==
    ASSUME NEW S, NEW g, NEW F, Sums(F, S, g)
    PROVE  /\ {} \in SUBSET S /\ F[{}] = 0
           /\ \A s \in SUBSET S : s # {} => F[s] = g[Pick(s)] + F[s \ {Pick(s)}]
<1> HIDE DEF Pick
<1>1. \A s \in SUBSET S : F[s] = IF s = {} THEN 0 ELSE g[Pick(s)] + F[s \ {Pick(s)}]
      BY Zenon DEF Sums
<1> QED BY <1>1

LEMMA SumNat ==
    ASSUME NEW S, IsFiniteSet(S), NEW g \in [S -> Nat], NEW F, Sums(F, S, g)
    PROVE  \A s \in SUBSET S : F[s] \in Nat
<1> DEFINE T == {s \in SUBSET S : F[s] \notin Nat}
<1>1. SUFFICES ASSUME T # {} PROVE FALSE
      OBVIOUS
<1>2. PICK B \in T : \A C \in T : C \subseteq B => C = B
  <2>1. T \subseteq SUBSET S
        OBVIOUS
  <2> HIDE DEF T
  <2> QED BY <1>1, <2>1, Smallest
<1>3. B # {}
  <2>1. F[{}] = 0 /\ F[B] \notin Nat
        BY <1>2, SumValues
  <2> QED BY <2>1
<1>4. Pick(B) \in B /\ B \ {Pick(B)} \subseteq B /\ B \ {Pick(B)} # B
      BY <1>3, PickIn
<1>5. F[B] = g[Pick(B)] + F[B \ {Pick(B)}]
      BY <1>3, SumValues
<1> DEFINE p == Pick(B)
           C == B \ {Pick(B)}
<1>6. C \in SUBSET S /\ p \in S /\ C \notin T
      BY <1>2, <1>4
<1> HIDE DEF p, C
<1>7. F[C] \in Nat /\ g[p] \in Nat
      BY <1>6
<1>8. F[B] = g[p] + F[C]
      BY <1>5 DEF p, C
<1> QED BY <1>7, <1>8

(* Any member can be taken out first. *)
LEMMA SumTake ==
    ASSUME NEW S, IsFiniteSet(S), NEW g \in [S -> Nat], NEW F, Sums(F, S, g)
    PROVE  \A s \in SUBSET S : \A x \in s : F[s] = g[x] + F[s \ {x}]
<1> DEFINE T == {s \in SUBSET S : \E x \in s : F[s] # g[x] + F[s \ {x}]}
<1>1. SUFFICES ASSUME T # {} PROVE FALSE
      OBVIOUS
<1>2. PICK B \in T : \A C \in T : C \subseteq B => C = B
  <2>1. T \subseteq SUBSET S
        OBVIOUS
  <2> HIDE DEF T
  <2> QED BY <1>1, <2>1, Smallest
<1>3. PICK x \in B : F[B] # g[x] + F[B \ {x}]
      BY <1>2
<1> DEFINE p == Pick(B)
<1>4. p \in B /\ F[B] = g[p] + F[B \ {p}] /\ B \subseteq S
      BY <1>3, PickIn, SumValues
<1> HIDE DEF p
<1>5. p # x
      BY <1>3, <1>4
<1> DEFINE C == B \ {p}
           D == B \ {x}
           E == (B \ {p}) \ {x}
<1>6. /\ C \in SUBSET S /\ D \in SUBSET S /\ E \in SUBSET S
      /\ x \in C /\ p \in D /\ C \ {x} = E /\ D \ {p} = E
      /\ C \subseteq B /\ D \subseteq B /\ C # B /\ D # B
      BY <1>3, <1>4, <1>5
<1>7. C \notin T /\ D \notin T
  <2> HIDE DEF T, C, D
  <2> QED BY <1>2, <1>6
<1> HIDE DEF C, D, E
<1>8. F[C] = g[x] + F[E] /\ F[D] = g[p] + F[E]
      BY <1>6, <1>7
<1>9. F[E] \in Nat /\ g[x] \in Nat /\ g[p] \in Nat
  <2>1. F[E] \in Nat
        BY <1>6, SumNat
  <2>2. x \in S /\ p \in S
        BY <1>3, <1>4
  <2> QED BY <2>1, <2>2
<1>10. F[B] = g[p] + F[C] /\ F[B] # g[x] + F[D]
      BY <1>3, <1>4 DEF C, D
<1> QED BY <1>8, <1>9, <1>10

(* The sum over a set does not depend on the set it was computed in. *)
LEMMA SumSame ==
    ASSUME NEW S, IsFiniteSet(S), NEW g, NEW F, Sums(F, S, g),
           NEW U, S \subseteq U, NEW h, NEW G, Sums(G, U, h),
           \A x \in S : g[x] = h[x]
    PROVE  \A s \in SUBSET S : F[s] = G[s]
<1> DEFINE T == {s \in SUBSET S : F[s] # G[s]}
<1>1. SUFFICES ASSUME T # {} PROVE FALSE
      OBVIOUS
<1>2. PICK B \in T : \A C \in T : C \subseteq B => C = B
  <2>1. T \subseteq SUBSET S
        OBVIOUS
  <2> HIDE DEF T
  <2> QED BY <1>1, <2>1, Smallest
<1>3. B # {}
  <2>1. F[{}] = 0 /\ G[{}] = 0
    <3> HIDE DEF T
    <3> QED BY SumValues
  <2>2. F[B] # G[B]
        OBVIOUS
  <2> HIDE DEF T
  <2> QED BY <2>1, <2>2
<1> DEFINE p == Pick(B)
           C == B \ {p}
<1>4. /\ B \subseteq S /\ B \subseteq U /\ p \in B
      /\ F[B] = g[p] + F[C] /\ G[B] = h[p] + G[C]
      BY <1>3, PickIn, SumValues
<1> HIDE DEF p
<1>5. C \in SUBSET S /\ C \subseteq B /\ C # B
      BY <1>4
<1>6. C \notin T
  <2> HIDE DEF T, C
  <2> QED BY <1>2, <1>5
<1> HIDE DEF C
<1>7. F[C] = G[C] /\ g[p] = h[p] /\ F[B] # G[B]
      BY <1>4, <1>5, <1>6
<1> QED BY <1>4, <1>7

(* Such a function exists, for every finite set. *)
LEMMA SumExists ==
    ASSUME NEW S, IsFiniteSet(S), NEW g
    PROVE  \E F : Sums(F, S, g)
<1> DEFINE T == {s \in SUBSET S : ~\E F : Sums(F, s, g)}
<1>1. SUFFICES ASSUME T # {} PROVE FALSE
      OBVIOUS
<1>2. PICK B \in T : \A C \in T : C \subseteq B => C = B
  <2>1. T \subseteq SUBSET S
        OBVIOUS
  <2> HIDE DEF T
  <2> QED BY <1>1, <2>1, Smallest
<1> DEFINE Of(s) == CHOOSE F : Sums(F, s, g)
           Value(s) == Of(s)[s]
<1>3. ASSUME NEW s \in SUBSET B, s # B PROVE Sums(Of(s), s, g)
  <2>1. s \in SUBSET S /\ s \notin T
        BY <1>2, <1>3
  <2>2. \E F : Sums(F, s, g)
        BY <2>1
  <2> QED BY <2>2
<1> HIDE DEF Of
<1>4. ASSUME NEW s \in SUBSET B, s # B
      PROVE  Value(s) = IF s = {} THEN 0 ELSE g[Pick(s)] + Value(s \ {Pick(s)})
  <2>1. Sums(Of(s), s, g)
        BY <1>3, <1>4
  <2>2. CASE s = {}
        BY <2>1, <2>2, SumValues
  <2>3. CASE s # {}
    <3> DEFINE c == s \ {Pick(s)}
    <3>1. c \subseteq s /\ c # s
          BY <2>3, PickIn
    <3>2. Of(s)[s] = g[Pick(s)] + Of(s)[c]
          BY <2>1, <2>3, SumValues
    <3> HIDE DEF c
    <3>3. Sums(Of(c), c, g)
          BY <1>3, <1>4, <3>1
    <3>4. IsFiniteSet(c)
          BY <3>1, FS_Subset
    <3>5. Of(c)[c] = Of(s)[c]
          BY <2>1, <3>1, <3>3, <3>4, SumSame
    <3>6. Value(s) = g[Pick(s)] + Value(c)
          BY <3>2, <3>5
    <3> QED BY <2>3, <3>6 DEF c
  <2> QED BY <2>2, <2>3
<1> HIDE DEF Value
<1> DEFINE G == [s \in SUBSET B |->
                    IF s = {} THEN 0 ELSE g[Pick(s)] + Value(s \ {Pick(s)})]
<1>5. \A s \in SUBSET B : s # B => G[s] = Value(s)
      BY <1>4
<1>6. \A s \in SUBSET B : s # {} => G[s \ {Pick(s)}] = Value(s \ {Pick(s)})
  <2> SUFFICES ASSUME NEW s \in SUBSET B, s # {}
               PROVE  G[s \ {Pick(s)}] = Value(s \ {Pick(s)})
      OBVIOUS
  <2> DEFINE c == s \ {Pick(s)}
  <2>1. c \subseteq s /\ c # s
        BY PickIn
  <2> HIDE DEF c, G
  <2>2. c \in SUBSET B /\ c # B
        BY <2>1
  <2>3. G[c] = Value(c)
        BY <1>5, <2>2
  <2> QED BY <2>3 DEF c
<1>7. Sums(G, B, g)
  <2>1. \A s \in SUBSET B :
           (IF s = {} THEN 0 ELSE g[Pick(s)] + Value(s \ {Pick(s)}))
             = (IF s = {} THEN 0 ELSE g[Pick(s)] + G[s \ {Pick(s)}])
    <3> HIDE DEF G, Pick
    <3> QED BY <1>6
  <2>2. G = [s \in SUBSET B |-> IF s = {} THEN 0 ELSE g[Pick(s)] + G[s \ {Pick(s)}]]
    <3> HIDE DEF Pick
    <3> QED BY <2>1
  <2> HIDE DEF G
  <2> QED BY <2>2 DEF Sums
<1> HIDE DEF G
<1> QED BY <1>2, <1>7

(* The sum of the values of a function over its domain. *)
Total(g) == (CHOOSE F : Sums(F, DOMAIN g, g))[DOMAIN g]

LEMMA TotalIs ==
    ASSUME NEW S, IsFiniteSet(S), NEW g, DOMAIN g = S, NEW F, Sums(F, S, g)
    PROVE  Total(g) = F[S]
<1> DEFINE G == CHOOSE H : Sums(H, S, g)
<1>1. Sums(G, S, g)
      OBVIOUS
<1>2. Total(g) = G[S]
      BY DEF Total
<1> HIDE DEF G
<1>3. F[S] = G[S]
      BY <1>1, SumSame
<1> QED BY <1>2, <1>3

LEMMA TotalType ==
    ASSUME NEW S, IsFiniteSet(S), NEW g \in [S -> Nat]
    PROVE  Total(g) \in Nat
<1>1. PICK F : Sums(F, S, g)
      BY SumExists
<1>2. F[S] \in Nat
      BY <1>1, SumNat
<1> QED BY <1>1, <1>2, TotalIs

LEMMA TotalEmpty ==
    ASSUME NEW g, DOMAIN g = {}
    PROVE  Total(g) = 0
<1>1. IsFiniteSet({})
      BY FS_EmptySet
<1>2. PICK F : Sums(F, {}, g)
      BY <1>1, SumExists
<1> QED BY <1>1, <1>2, SumValues, TotalIs

(* One member more adds its own value. *)
LEMMA TotalAdd ==
    ASSUME NEW S, IsFiniteSet(S), NEW x, x \notin S,
           NEW g \in [S -> Nat], NEW h \in [S \cup {x} -> Nat],
           \A y \in S : g[y] = h[y]
    PROVE  Total(h) = Total(g) + h[x]
<1> DEFINE U == S \cup {x}
<1>1. IsFiniteSet(U) /\ U \ {x} = S /\ x \in U /\ S \subseteq U /\ h \in [U -> Nat]
      BY FS_AddElement
<1> HIDE DEF U
<1>2. PICK F : Sums(F, S, g)
      BY SumExists
<1>3. PICK G : Sums(G, U, h)
      BY <1>1, SumExists
<1>4. Total(g) = F[S] /\ Total(h) = G[U]
      BY <1>1, <1>2, <1>3, TotalIs
<1>5. F[S] = G[S]
      BY <1>1, <1>2, <1>3, SumSame
<1>6. G[U] = h[x] + G[S]
      BY <1>1, <1>3, SumTake
<1>7. F[S] \in Nat /\ h[x] \in Nat
      BY <1>1, <1>2, SumNat
<1> QED BY <1>4, <1>5, <1>6, <1>7

-----------------------------------------------------------------------------
(* What the journeys brought of a resource, and what buildings cost of it.    *)
Records == [worker : Worker, outcome : Outcome]

Accepted == [command : Command, revision : Nat]

Brought(R, r) == {o \in R : o.outcome.resource = r}

Credits(R, r) == [o \in Brought(R, r) |-> o.outcome.credited]

Builds(A) == {e \in A : e.command.kind = "build"}

CostIn(e, r) == BuildingCost(e.command.building, e.command.target)[r]

Costs(A, r) == [e \in Builds(A) |-> CostIn(e, r)]

Charges(A) == [r \in Resource |-> Total(Costs(A, r))]

(* The balance is what was brought less what was charged. *)
BalancePaid(balance, R, charges) ==
    \A r \in Resource : balance[r] = Total(Credits(R, r)) - charges[r]

LEMMA CreditedType ==
    ASSUME NEW o \in Records
    PROVE  /\ o.outcome.credited \in Nat /\ o.outcome.resource \in Resource
           /\ o.worker \in Worker /\ o.outcome.assignmentRevision \in Positive
BY DEF Records, Outcome

LEMMA CreditsType ==
    ASSUME NEW R, R \subseteq Records, IsFiniteSet(R), NEW r
    PROVE  /\ IsFiniteSet(Brought(R, r))
           /\ Credits(R, r) \in [Brought(R, r) -> Nat]
           /\ Total(Credits(R, r)) \in Nat
<1>1. IsFiniteSet(Brought(R, r))
      BY FS_Subset DEF Brought
<1>2. Credits(R, r) \in [Brought(R, r) -> Nat]
      BY CreditedType DEF Credits, Brought
<1> QED BY <1>1, <1>2, TotalType

LEMMA CreditsAdd ==
    ASSUME NEW R, R \subseteq Records, IsFiniteSet(R), NEW o \in Records, o \notin R, NEW r
    PROVE  Total(Credits(R \cup {o}, r)) =
               Total(Credits(R, r)) + (IF o.outcome.resource = r THEN o.outcome.credited ELSE 0)
<1> DEFINE U == R \cup {o}
<1>1. U \subseteq Records /\ IsFiniteSet(U)
      BY FS_AddElement
<1>2. CASE o.outcome.resource = r
  <2>1. Brought(U, r) = Brought(R, r) \cup {o} /\ o \notin Brought(R, r)
        BY <1>2 DEF Brought
  <2>2. /\ IsFiniteSet(Brought(R, r)) /\ Credits(R, r) \in [Brought(R, r) -> Nat]
        /\ Credits(U, r) \in [Brought(U, r) -> Nat]
        BY <1>1, CreditsType
  <2>3. \A p \in Brought(R, r) : Credits(R, r)[p] = Credits(U, r)[p]
        BY <2>1 DEF Credits
  <2>4. Credits(U, r)[o] = o.outcome.credited
        BY <2>1 DEF Credits
  <2> HIDE DEF U
  <2>5. Credits(U, r) \in [Brought(R, r) \cup {o} -> Nat]
        BY <2>1, <2>2
  <2>6. Total(Credits(U, r)) = Total(Credits(R, r)) + o.outcome.credited
        BY <2>1, <2>2, <2>3, <2>4, <2>5, TotalAdd
  <2> QED BY <1>2, <2>6 DEF U
<1>3. CASE o.outcome.resource # r
  <2>1. Brought(U, r) = Brought(R, r)
        BY <1>3 DEF Brought
  <2>2. Credits(U, r) = Credits(R, r)
        BY <2>1 DEF Credits
  <2> QED BY <1>3, <2>2, CreditsType
<1> QED BY <1>2, <1>3

LEMMA CostType ==
    ASSUME NEW e \in Accepted, e.command.kind = "build", NEW r \in Resource
    PROVE  CostIn(e, r) \in Nat
<1>1. e.command \in Command
      BY DEF Accepted
<1>2. e.command \in BuildCommand
      BY <1>1 DEF Command, InitializeCommand, Envelope, DispatchCommand, RecallCommand, BuildCommand
<1>3. e.command.building \in Building /\ e.command.target \in TargetLevel
      BY <1>2 DEF BuildCommand
<1> QED BY <1>3, BuildingCostType DEF CostIn, Amounts

LEMMA CostsType ==
    ASSUME NEW A, A \subseteq Accepted, IsFiniteSet(A)
    PROVE  /\ IsFiniteSet(Builds(A))
           /\ \A r \in Resource : Costs(A, r) \in [Builds(A) -> Nat]
           /\ Charges(A) \in [Resource -> Nat]
<1>1. IsFiniteSet(Builds(A))
      BY FS_Subset DEF Builds
<1>2. \A r \in Resource : Costs(A, r) \in [Builds(A) -> Nat]
      BY CostType DEF Costs, Builds
<1>3. \A r \in Resource : Total(Costs(A, r)) \in Nat
      BY <1>1, <1>2, TotalType
<1> QED BY <1>1, <1>2, <1>3 DEF Charges

LEMMA ChargesSame ==
    ASSUME NEW A, NEW e, e.command.kind # "build"
    PROVE  Charges(A \cup {e}) = Charges(A)
<1>1. Builds(A \cup {e}) = Builds(A)
      BY DEF Builds
<1> QED BY <1>1 DEF Charges, Costs

LEMMA ChargesAdd ==
    ASSUME NEW A, A \subseteq Accepted, IsFiniteSet(A),
           NEW e \in Accepted, e \notin A, e.command.kind = "build"
    PROVE  \A r \in Resource : Charges(A \cup {e})[r] = Charges(A)[r] + CostIn(e, r)
<1> DEFINE U == A \cup {e}
<1>1. U \subseteq Accepted /\ IsFiniteSet(U)
      BY FS_AddElement
<1>2. Builds(U) = Builds(A) \cup {e} /\ e \notin Builds(A)
      BY DEF Builds
<1> SUFFICES ASSUME NEW r \in Resource
             PROVE  Charges(U)[r] = Charges(A)[r] + CostIn(e, r)
    OBVIOUS
<1>3. /\ IsFiniteSet(Builds(A)) /\ Costs(A, r) \in [Builds(A) -> Nat]
      /\ Costs(U, r) \in [Builds(U) -> Nat]
      BY <1>1, CostsType
<1>4. \A p \in Builds(A) : Costs(A, r)[p] = Costs(U, r)[p]
      BY <1>2 DEF Costs
<1>5. Costs(U, r)[e] = CostIn(e, r)
      BY <1>2 DEF Costs
<1> HIDE DEF U
<1>6. Costs(U, r) \in [Builds(A) \cup {e} -> Nat]
      BY <1>2, <1>3
<1>7. Total(Costs(U, r)) = Total(Costs(A, r)) + CostIn(e, r)
  <2> DEFINE S == Builds(A)
             g == Costs(A, r)
             h == Costs(U, r)
  <2>1. /\ IsFiniteSet(S) /\ e \notin S /\ g \in [S -> Nat] /\ h \in [S \cup {e} -> Nat]
        /\ \A y \in S : g[y] = h[y]
        BY <1>2, <1>3, <1>4, <1>6
  <2> HIDE DEF S, g, h
  <2>2. Total(h) = Total(g) + h[e]
        BY <2>1, TotalAdd
  <2> QED BY <1>5, <2>2 DEF g, h
<1> QED BY <1>7 DEF Charges

-----------------------------------------------------------------------------
(* Reconciling the workers pays out every journey that is over, once.         *)
LEMMA AccumulatedNext ==
    ASSUME NEW d, NEW t, NEW k \in 0..3
    PROVE  /\ Accumulated(d, 0, t) = d.balance
           /\ Accumulated(d, k + 1, t) = AfterVisit(Accumulated(d, k, t), d, k, t)
<1> DEFINE b1 == AfterVisit(d.balance, d, 0, t)
           b2 == AfterVisit(b1, d, 1, t)
           b3 == AfterVisit(b2, d, 2, t)
           b4 == AfterVisit(b3, d, 3, t)
<1>1. \A w : Accumulated(d, w, t) =
          CASE w = 0 -> d.balance [] w = 1 -> b1 [] w = 2 -> b2 [] w = 3 -> b3 [] OTHER -> b4
      BY DEF Accumulated, b1, b2, b3, b4
<1> HIDE DEF b4
<1>2. k \in {0, 1, 2, 3}
      OBVIOUS
<1>3. CASE k = 0
      BY <1>1, <1>3
<1>4. CASE k = 1
  <2> HIDE DEF b1
  <2> QED BY <1>1, <1>4 DEF b2
<1>5. CASE k = 2
  <2> HIDE DEF b1, b2
  <2> QED BY <1>1, <1>5 DEF b3
<1>6. CASE k = 3
  <2> HIDE DEF b1, b2, b3
  <2> QED BY <1>1, <1>6 DEF b4
<1> QED BY <1>2, <1>3, <1>4, <1>5, <1>6

Arrival(d, w, t) == [worker |-> w, outcome |-> OutcomeOf(d, w, t)]

LEMMA ArrivalType ==
    ASSUME NEW d \in Keep, NEW t \in Nat, AwaySound(d, t), NEW w \in Home(d, t)
    PROVE  /\ w \in Worker /\ w \in Away(d) /\ Arrival(d, w, t) \in Records
           /\ Arrival(d, w, t).worker = w
           /\ Arrival(d, w, t).outcome = OutcomeOf(d, w, t)
           /\ OutcomeOf(d, w, t).assignmentRevision = d.workers[w].assignmentRevision
<1>1. w \in Away(d) /\ w \in Worker
      BY DEF Home, Away
<1>2. OutcomeOf(d, w, t) \in Outcome
      BY <1>1, OutcomeType
<1>3. OutcomeOf(d, w, t).assignmentRevision = d.workers[w].assignmentRevision
      BY DEF OutcomeOf
<1> QED BY <1>1, <1>2, <1>3 DEF Arrival, Records

(* One visit of the loop: the cargo that fits is added to the balance and is  *)
(* what the outcome says.                                                     *)
LEMMA VisitPays ==
    ASSUME NEW d \in Keep, NEW t \in Nat, AwaySound(d, t), NEW k \in 0..3,
           NEW R, R \subseteq Records, IsFiniteSet(R), NEW X \in [Resource -> Nat],
           k \in Home(d, t) => Arrival(d, k, t) \notin R,
           BalancePaid(Accumulated(d, k, t), R, X)
    PROVE  BalancePaid(Accumulated(d, k + 1, t),
                       R \cup {Arrival(d, w, t) : w \in {v \in Home(d, t) : v = k}}, X)
<1> DEFINE a == Accumulated(d, k, t)
           b == Accumulated(d, k + 1, t)
           U == R \cup {Arrival(d, w, t) : w \in {v \in Home(d, t) : v = k}}
<1>1. b = AfterVisit(a, d, k, t)
      BY AccumulatedNext
<1>2. CASE k \notin Home(d, t)
  <2>1. U = R /\ b = a
        BY <1>1, <1>2 DEF AfterVisit
  <2> QED BY <2>1
<1>3. CASE k \in Home(d, t)
  <2> DEFINE j == JourneyOf(d, k)
             o == Arrival(d, k, t)
             c == Credit(a[j.resource], Earned(j, t))
  <2>1. /\ k \in Worker /\ k \in Away(d) /\ o \in Records /\ o \notin R
        /\ o.outcome = OutcomeOf(d, k, t)
        BY <1>3, ArrivalType
  <2>2. U = R \cup {o}
        BY <1>3
  <2>3. JourneyValid(j) /\ j.resource \in Resource
        BY <2>1, JourneyOfAway
  <2>4. Earned(j, t) \in Nat /\ a \in Balances
        BY <2>3, EarnedType, AccumulatedType
  <2>5. a[j.resource] \in 0..BalanceCap
        BY <2>3, <2>4 DEF Balances
  <2>6. c.balance = a[j.resource] + c.credited /\ c.credited \in Nat
        BY <2>4, <2>5, CreditSound
  <2>7. o.outcome.resource = j.resource /\ o.outcome.credited = c.credited
        BY <2>1 DEF OutcomeOf, CreditOf
  <2>8. b = [a EXCEPT ![j.resource] = c.balance]
        BY <1>1, <1>3, <2>1 DEF AfterVisit, CreditOf
  <2> HIDE DEF b, c, U
  <2> SUFFICES ASSUME NEW r \in Resource PROVE b[r] = Total(Credits(U, r)) - X[r]
      BY DEF BalancePaid, b, U
  <2>9. Total(Credits(U, r)) =
            Total(Credits(R, r)) + (IF j.resource = r THEN c.credited ELSE 0)
        BY <2>1, <2>2, <2>7, CreditsAdd
  <2>10. a[r] = Total(Credits(R, r)) - X[r] /\ X[r] \in Nat /\ Total(Credits(R, r)) \in Nat
         BY CreditsType DEF BalancePaid
  <2>11. b[r] = IF j.resource = r THEN a[r] + c.credited ELSE a[r]
    <3> HIDE DEF a, j
    <3> QED BY <2>3, <2>4, <2>6, <2>8 DEF Balances
  <2> HIDE DEF a, j
  <2> QED BY <2>6, <2>9, <2>10, <2>11
<1> QED BY <1>2, <1>3

(* The last return of a worker is in the history. *)
LEMMA LastInHistory ==
    ASSUME NEW d, NEW R, R \subseteq Records, AllAccounted(d, R)
    PROVE  Outcomes(d) \subseteq R
<1> SUFFICES ASSUME NEW w \in Worker, d.workers[w].lastReturn # None
             PROVE  [worker |-> w, outcome |-> d.workers[w].lastReturn] \in R
    BY DEF Outcomes
<1> DEFINE last == d.workers[w].lastReturn
<1>1. last \in HomeOf(R, w)
      BY DEF AllAccounted, Accounted
<1>2. PICK p \in R : p.worker = w /\ p.outcome = last
      BY <1>1 DEF HomeOf
<1>3. p = [worker |-> w, outcome |-> last]
  <2> HIDE DEF last
  <2> QED BY <1>2 DEF Records
<1> QED BY <1>2, <1>3

LEMMA NotYetHome ==
    ASSUME NEW d \in Keep, NEW t \in Nat, AwaySound(d, t),
           NEW R, AllAccounted(d, R), NEW w \in Home(d, t)
    PROVE  Arrival(d, w, t) \notin R
<1> DEFINE o == Arrival(d, w, t)
           row == d.workers[w]
<1>1. /\ w \in Worker /\ w \in Away(d) /\ o.worker = w
      /\ o.outcome.assignmentRevision = row.assignmentRevision
      BY ArrivalType
<1>2. Accounted(row, HomeOf(R, w)) /\ row.assignment # None
      BY <1>1 DEF AllAccounted, Away
<1>3. SUFFICES ASSUME o \in R PROVE FALSE
      OBVIOUS
<1>4. o.outcome \in HomeOf(R, w)
      BY <1>1, <1>3 DEF HomeOf
<1> HIDE DEF o, row
<1>5. row.assignmentRevision \in 1..HomeCount(row)
      BY <1>1, <1>2, <1>4 DEF Accounted
<1>6. HomeCount(row) = row.assignmentRevision - 1 /\ row.assignmentRevision \in Nat
      BY <1>2 DEF HomeCount, Accounted
<1> QED BY <1>5, <1>6

LEMMA ReconciledOutcomes ==
    ASSUME NEW d \in Keep, NEW t \in Nat, AwaySound(d, t),
           NEW R, R \subseteq Records, AllAccounted(d, R)
    PROVE  R \cup Outcomes(ReconcileWorkers(d, t)) = R \cup {Arrival(d, w, t) : w \in Home(d, t)}
<1> DEFINE e == ReconcileWorkers(d, t)
           new == {Arrival(d, w, t) : w \in Home(d, t)}
<1>1. \A w \in Worker : e.workers[w] = IF w \in Home(d, t)
                                       THEN BackHome(d.workers[w], OutcomeOf(d, w, t))
                                       ELSE d.workers[w]
      BY DEF ReconcileWorkers, Keep
<1>2. ASSUME NEW w \in Home(d, t)
      PROVE  w \in Worker /\ e.workers[w].lastReturn = OutcomeOf(d, w, t)
             /\ OutcomeOf(d, w, t) # None
  <2>1. w \in Worker /\ w \in Away(d)
        BY ArrivalType
  <2>2. OutcomeOf(d, w, t) # None
        BY <2>1, OutcomeType, NoneAssumption
  <2>3. d.workers[w] \in WorkerRow
        BY <2>1 DEF Keep
  <2> DEFINE o == OutcomeOf(d, w, t)
             row == d.workers[w]
  <2>4. e.workers[w] = [row EXCEPT !.assignment = None, !.lastReturn = o]
        BY <1>1, <2>1 DEF BackHome
  <2> HIDE DEF o, row, e
  <2>5. e.workers[w].lastReturn = o
        BY <2>3, <2>4 DEF WorkerRow, row
  <2> QED BY <2>1, <2>2, <2>5 DEF o
<1> HIDE DEF e
<1>3. Outcomes(d) \subseteq R
      BY LastInHistory
<1>4. ASSUME NEW w \in Worker, e.workers[w].lastReturn # None
      PROVE  [worker |-> w, outcome |-> e.workers[w].lastReturn] \in R \cup new
  <2>1. CASE w \in Home(d, t)
        BY <1>2, <2>1 DEF Arrival
  <2>2. CASE w \notin Home(d, t)
    <3>1. e.workers[w] = d.workers[w]
          BY <1>1, <2>2 DEF e
    <3> QED BY <1>3, <1>4, <3>1 DEF Outcomes
  <2> QED BY <2>1, <2>2
<1>5. Outcomes(e) \subseteq R \cup new
      BY <1>4 DEF Outcomes
<1>6. new \subseteq Outcomes(e)
  <2> SUFFICES ASSUME NEW w \in Home(d, t) PROVE Arrival(d, w, t) \in Outcomes(e)
      OBVIOUS
  <2> QED BY <1>2 DEF Arrival, Outcomes
<1> QED BY <1>5, <1>6 DEF e

LEMMA WorkersPaid ==
    ASSUME NEW d \in Keep, NEW t \in Nat, AwaySound(d, t),
           NEW R, R \subseteq Records, IsFiniteSet(R), AllAccounted(d, R),
           NEW X \in [Resource -> Nat], BalancePaid(d.balance, R, X)
    PROVE  LET e == ReconcileWorkers(d, t)
           IN  BalancePaid(e.balance, R \cup Outcomes(e), X)
<1> DEFINE e == ReconcileWorkers(d, t)
           Early(k) == {v \in Home(d, t) : v < k}
           Seen(k) == R \cup {Arrival(d, w, t) : w \in Early(k)}
           Goal(k) == /\ Seen(k) \subseteq Records /\ IsFiniteSet(Seen(k))
                      /\ BalancePaid(Accumulated(d, k, t), Seen(k), X)
<1>0. \A v \in Home(d, t) : v \in Int /\ v >= 0 /\ v < 4
  <2>1. \A v \in Home(d, t) : v \in Worker
        BY ArrivalType
  <2>2. \A v \in Worker : v \in Int /\ v >= 0 /\ v < 4
        BY GameplayAssumption DEF Worker
  <2> QED BY <2>1, <2>2
<1>1. Goal(0)
  <2>1. Seen(0) = R
    <3>1. Early(0) = {}
          BY <1>0
    <3> QED BY <3>1
  <2>2. Accumulated(d, 0, t) = d.balance
        BY AccumulatedNext
  <2> HIDE DEF Seen
  <2> QED BY <2>1, <2>2
<1>2. ASSUME NEW k \in 0..3, Goal(k) PROVE Goal(k + 1)
  <2> DEFINE now1 == {Arrival(d, w, t) : w \in {v \in Home(d, t) : v = k}}
  <2>1. Seen(k + 1) = Seen(k) \cup now1
    <3>1. Early(k + 1) = Early(k) \cup {v \in Home(d, t) : v = k}
          BY <1>0
    <3> QED BY <3>1
  <2>2. k \in Home(d, t) => Arrival(d, k, t) \notin Seen(k)
    <3> SUFFICES ASSUME k \in Home(d, t) PROVE Arrival(d, k, t) \notin Seen(k)
        OBVIOUS
    <3>1. Arrival(d, k, t) \notin R
          BY NotYetHome
    <3>2. \A w \in Early(k) : Arrival(d, w, t).worker # Arrival(d, k, t).worker
          BY <1>0, ArrivalType
    <3> QED BY <3>1, <3>2
  <2>3. now1 \subseteq Records /\ IsFiniteSet(now1)
    <3>1. now1 \subseteq {Arrival(d, k, t)}
          OBVIOUS
    <3>2. IsFiniteSet({Arrival(d, k, t)})
          BY FS_Singleton
    <3> QED BY <3>1, <3>2, FS_Subset, ArrivalType
  <2> DEFINE S == Seen(k)
  <2>4. S \subseteq Records /\ IsFiniteSet(S) /\ BalancePaid(Accumulated(d, k, t), S, X)
        BY <1>2
  <2>5. Seen(k + 1) = S \cup now1 /\ (k \in Home(d, t) => Arrival(d, k, t) \notin S)
        BY <2>1, <2>2
  <2> HIDE DEF Seen, S
  <2>6. BalancePaid(Accumulated(d, k + 1, t), S \cup now1, X)
        BY <2>4, <2>5, VisitPays
  <2> HIDE DEF now1
  <2>7. Seen(k + 1) \subseteq Records /\ IsFiniteSet(Seen(k + 1))
        BY <2>3, <2>4, <2>5, FS_Union
  <2> QED BY <2>5, <2>6, <2>7
<1> HIDE DEF Goal
<1>3. Goal(1) /\ Goal(2) /\ Goal(3) /\ Goal(4)
  <2>1. Goal(0 + 1)
        BY <1>1, <1>2
  <2>2. Goal(1 + 1)
        BY <2>1, <1>2
  <2>3. Goal(2 + 1)
        BY <2>2, <1>2
  <2>4. Goal(3 + 1)
        BY <2>3, <1>2
  <2> QED BY <2>1, <2>2, <2>3, <2>4
<1>4. Seen(4) = R \cup {Arrival(d, w, t) : w \in Home(d, t)}
  <2>1. Early(4) = Home(d, t)
        BY <1>0
  <2> QED BY <2>1
<1>5. e.balance = Accumulated(d, 4, t)
      BY DEF ReconcileWorkers, Keep
<1>6. R \cup Outcomes(e) = Seen(4)
      BY <1>4, ReconciledOutcomes
<1> HIDE DEF Seen, e
<1>7. BalancePaid(e.balance, R \cup Outcomes(e), X)
      BY <1>3, <1>5, <1>6 DEF Goal
<1> QED BY <1>7 DEF e

LEMMA ReconcilePaid ==
    ASSUME NEW d \in Keep, NEW t \in Nat, StoredStateValid(d, t),
           NEW R, R \subseteq Records, IsFiniteSet(R), AllAccounted(d, R),
           NEW X \in [Resource -> Nat], BalancePaid(d.balance, R, X)
    PROVE  LET r == Reconcile(d, t)
           IN  BalancePaid(r.balance, R \cup Outcomes(r), X)
<1> DEFINE c == ReconcileConstruction(d, t)
<1>1. c \in Keep /\ AwaySound(c, t)
      BY ValidIsSound, ConstructionReconciled
<1>2. c.workers = d.workers /\ c.balance = d.balance
      BY DEF ReconcileConstruction, WithProjectWakeup, Keep
<1>3. Reconcile(d, t) = ReconcileWorkers(c, t)
      BY DEF Reconcile
<1> HIDE DEF c
<1>4. AllAccounted(c, R)
      BY <1>2 DEF AllAccounted
<1>5. BalancePaid(c.balance, R, X)
      BY <1>2
<1> QED BY <1>1, <1>3, <1>4, <1>5, WorkersPaid

LEMMA SettledPaid ==
    ASSUME NEW d \in Keep, NEW t \in Nat, StoredStateValid(d, t),
           NEW R, R \subseteq Records, IsFiniteSet(R), AllAccounted(d, R),
           NEW X \in [Resource -> Nat], BalancePaid(d.balance, R, X)
    PROVE  LET r == Settled(d, t)
           IN  BalancePaid(r.balance, R \cup Outcomes(r), X)
<1> DEFINE c == Reconcile(d, t)
           r == [c EXCEPT !.revision = @ + 1]
<1>1. c \in Keep /\ BalancePaid(c.balance, R \cup Outcomes(c), X)
      BY Reconciled, ReconcilePaid
<1>2. Settled(d, t) = IF c = d THEN d ELSE r
      BY DEF Settled
<1> HIDE DEF c
<1>3. r.workers = c.workers /\ r.balance = c.balance
      BY <1>1 DEF Keep
<1> HIDE DEF r
<1>4. Outcomes(r) = Outcomes(c)
      BY <1>3 DEF Outcomes
<1> QED BY <1>1, <1>2, <1>3, <1>4

LEMMA RecalledPaid ==
    ASSUME NEW d \in Keep, NEW t \in Nat, AwaySound(d, t), NEW w \in Worker,
           NEW R, R \subseteq Records, IsFiniteSet(R), AllAccounted(d, R),
           NEW X \in [Resource -> Nat], BalancePaid(d.balance, R, X)
    PROVE  LET r == Recalled(d, t, w)
           IN  BalancePaid(r.balance, R \cup Outcomes(r), X)
<1> DEFINE j == CutJourney(d, t, w)
           a == CutAssignment(d, t, w)
           row == [d.workers[w] EXCEPT !.assignment = a]
           r == CutKeep(d, t, w)
<1>0. Outcomes(d) \subseteq R
      BY LastInHistory
<1>1. CASE Idle(d, w) \/ j = JourneyOf(d, w)
  <2>1. Recalled(d, t, w) = d /\ R \cup Outcomes(d) = R
        BY <1>0, <1>1, RecalledCases
  <2> QED BY <2>1
<1>2. CASE ~(Idle(d, w) \/ j = JourneyOf(d, w))
  <2>1. w \in Away(d) /\ d.workers[w].assignment # None
        BY <1>2 DEF Idle, Away
  <2>2. /\ r \in Keep /\ AwaySound(r, t) /\ a \in Assignment
        /\ r.workers = [d.workers EXCEPT ![w] = row]
        BY <2>1, JourneyReplaced
  <2>3. r.balance = d.balance
        BY DEF CutKeep, WithoutWakeups, Keep
  <2>4. Recalled(d, t, w) = IF Complete(j, t) THEN ReconcileWorkers(r, t)
                            ELSE WithWakeup(r, w, NextDueAt(j, t))
        BY <1>2, RecalledCases
  <2>5. d.workers \in [Worker -> WorkerRow] /\ d.workers[w] \in WorkerRow
        BY DEF Keep
  <2> HIDE DEF r, j, a
  <2>6. Kept(d.workers[w], row)
        BY <2>1, <2>2, <2>5, NoneAssumption DEF WorkerRow, Kept
  <2>7. \A v \in Worker : Kept(d.workers[v], r.workers[v])
    <3> HIDE DEF row
    <3>1. r.workers[w] = row /\ \A v \in Worker \ {w} : r.workers[v] = d.workers[v]
          BY <2>2, <2>5
    <3> QED BY <2>6, <3>1 DEF Kept
  <2>8. AllAccounted(r, R)
    <3>1. \A v \in Worker : HomeCount(r.workers[v]) = HomeCount(d.workers[v])
          BY <2>7 DEF Kept, HomeCount
    <3> QED BY <2>7, <3>1 DEF AllAccounted, Accounted, Kept
  <2>9. CASE Complete(j, t)
    <3>1. BalancePaid(r.balance, R, X)
          BY <2>3
    <3> QED BY <2>2, <2>4, <2>8, <2>9, <3>1, WorkersPaid
  <2>10. CASE ~Complete(j, t)
    <3> DEFINE e == WithWakeup(r, w, NextDueAt(j, t))
    <3>1. e.workers = r.workers /\ e.balance = d.balance
          BY <2>2, <2>3 DEF WithWakeup, Keep
    <3> HIDE DEF e
    <3>2. Outcomes(e) = Outcomes(d)
          BY <2>7, <3>1 DEF Outcomes, Kept
    <3>3. R \cup Outcomes(e) = R
          BY <1>0, <3>2
    <3>4. BalancePaid(e.balance, R \cup Outcomes(e), X)
          BY <3>1, <3>3
    <3> QED BY <2>4, <2>10, <3>4 DEF e
  <2> QED BY <2>9, <2>10
<1> QED BY <1>1, <1>2

-----------------------------------------------------------------------------
(* The invariant: the balance is paid for, and the histories the sums go over *)
(* are finite; the revisions make every accepted command a new one.           *)
MoneyInv ==
    /\ AccountInv
    /\ IsFiniteSet(returned)
    /\ IsFiniteSet(accepted)
    /\ \A e \in accepted : e.revision \in 1..db.revision
    /\ BalancePaid(db.balance, returned, Charges(accepted))

LEMMA MoneyTypes ==
    ASSUME MoneyInv
    PROVE  /\ now \in Nat /\ db \in Keep /\ db.revision \in Nat
           /\ returned \subseteq Records /\ accepted \subseteq Accepted
           /\ AllAccounted(db, returned) /\ Outcomes(db) \subseteq returned
           /\ Charges(accepted) \in [Resource -> Nat]
<1>1. TypeOK /\ AllAccounted(db, returned)
      BY DEF MoneyInv, AccountInv, Inv
<1>2. now \in Nat /\ db \in Keep
      BY <1>1, NowType
<1>3. returned \subseteq Records /\ accepted \subseteq Accepted
      BY <1>1 DEF TypeOK, Records, Accepted
<1>4. Outcomes(db) \subseteq returned
      BY <1>1, <1>3, LastInHistory
<1>5. Charges(accepted) \in [Resource -> Nat]
      BY <1>3, CostsType DEF MoneyInv
<1>6. db.revision \in Nat
      BY <1>2 DEF Keep
<1> QED BY <1>1, <1>2, <1>3, <1>4, <1>5, <1>6

LEMMA OutcomesFinite ==
    ASSUME NEW d
    PROVE  IsFiniteSet(Outcomes(d))
<1> DEFINE all == {[worker |-> w, outcome |-> d.workers[w].lastReturn] : w \in Worker}
<1>1. IsFiniteSet(Worker)
      BY GameplayAssumption, FS_Interval DEF Worker
<1>2. IsFiniteSet(all)
  <2> DEFINE f == [w \in Worker |-> [worker |-> w, outcome |-> d.workers[w].lastReturn]]
  <2>1. f \in Surjection(Worker, all)
        BY DEF Surjection
  <2> HIDE DEF f
  <2> QED BY <1>1, <2>1, FS_Surjection
<1>3. Outcomes(d) \subseteq all
      BY DEF Outcomes
<1> QED BY <1>2, <1>3, FS_Subset

(* What a transaction that accepts no command leaves. *)
LEMMA StoreMoney ==
    ASSUME MoneyInv, NEW d, BalancePaid(d.balance, returned \cup Outcomes(d), Charges(accepted)),
           NEW stored, stored.workers = d.workers, stored.balance = d.balance,
           stored.revision \in Nat, stored.revision >= db.revision,
           Store(stored), accepted' = accepted
    PROVE  /\ IsFiniteSet(returned') /\ IsFiniteSet(accepted')
           /\ \A e \in accepted' : e.revision \in 1..db'.revision
           /\ BalancePaid(db'.balance, returned', Charges(accepted'))
<1>1. db' = stored /\ returned' = returned \cup Outcomes(stored)
      BY DEF Store
<1>2. Outcomes(stored) = Outcomes(d)
      BY DEF Outcomes
<1>3. IsFiniteSet(returned') /\ IsFiniteSet(accepted')
      BY <1>1, OutcomesFinite, FS_Union DEF MoneyInv
<1>4. \A e \in accepted' : e.revision \in 1..db'.revision
      BY <1>1, MoneyTypes DEF MoneyInv
<1>5. Charges(accepted') = Charges(accepted)
      OBVIOUS
<1>6. BalancePaid(stored.balance, returned \cup Outcomes(stored), Charges(accepted))
      BY <1>2
<1> QED BY <1>1, <1>3, <1>4, <1>5, <1>6

Entry(command, d) == [command |-> command, revision |-> d.revision + 1]

(* What an accepted command leaves. *)
LEMMA AcceptMoney ==
    ASSUME MoneyInv, NEW command \in Command, NEW d \in Keep, d.revision = db.revision,
           BalancePaid(d.balance, returned \cup Outcomes(d),
                       Charges(accepted \cup {Entry(command, d)})),
           Accept(command, d)
    PROVE  /\ IsFiniteSet(returned') /\ IsFiniteSet(accepted')
           /\ \A e \in accepted' : e.revision \in 1..db'.revision
           /\ BalancePaid(db'.balance, returned', Charges(accepted'))
<1> DEFINE r == Committed(d, command)
<1>1. /\ db' = r /\ returned' = returned \cup Outcomes(r)
      /\ accepted' = accepted \cup {Entry(command, d)}
      BY DEF Accept, Store, Entry
<1>2. r.workers = d.workers /\ r.revision = d.revision + 1
      BY CommittedType
<1>3. r.balance = d.balance
      BY DEF Committed, Keep
<1> HIDE DEF r
<1>4. Outcomes(r) = Outcomes(d)
      BY <1>2 DEF Outcomes
<1>5. IsFiniteSet(returned') /\ IsFiniteSet(accepted')
      BY <1>1, OutcomesFinite, FS_Union, FS_AddElement DEF MoneyInv
<1>6. \A e \in accepted' : e.revision \in 1..db'.revision
  <2>1. db.revision \in Nat /\ db'.revision = db.revision + 1
        BY <1>1, <1>2, MoneyTypes
  <2>2. Entry(command, d).revision = db.revision + 1
        BY DEF Entry
  <2>3. \A e \in accepted : e.revision \in 1..db.revision
        BY DEF MoneyInv
  <2> QED BY <1>1, <2>1, <2>2, <2>3
<1>7. BalancePaid(r.balance, returned \cup Outcomes(r), Charges(accepted \cup {Entry(command, d)}))
      BY <1>3, <1>4
<1> QED BY <1>1, <1>5, <1>6, <1>7

LEMMA NothingPaid == BalancePaid(NoKeep.balance, {}, Charges({}))
<1>1. \A r \in Resource : Total(Credits({}, r)) = 0 /\ Total(Costs({}, r)) = 0
      BY TotalEmpty DEF Credits, Costs, Brought, Builds
<1>2. \A r \in Resource : Charges({})[r] = 0
      BY <1>1 DEF Charges
<1>3. \A r \in Resource : NoKeep.balance[r] = 0
      BY DEF NoKeep
<1>4. 0 = 0 - 0
      OBVIOUS
<1> SUFFICES ASSUME NEW r \in Resource
             PROVE  NoKeep.balance[r] = Total(Credits({}, r)) - Charges({})[r]
    BY DEF BalancePaid
<1> QED BY <1>1, <1>2, <1>3, <1>4, Zenon

LEMMA MoneyInit == Init => MoneyInv
<1> SUFFICES ASSUME Init PROVE MoneyInv
    OBVIOUS
<1>1. AccountInv /\ returned = {} /\ accepted = {} /\ db = NoKeep
      BY AccountInit DEF Init
<1>2. IsFiniteSet({})
      BY FS_EmptySet
<1>3. BalancePaid(NoKeep.balance, {}, Charges({}))
      BY NothingPaid
<1> QED BY <1>1, <1>2, <1>3 DEF MoneyInv

LEMMA MoneyStep ==
    ASSUME MoneyInv, [Next]_vars
    PROVE  MoneyInv'
<1> DEFINE Goal == /\ IsFiniteSet(returned') /\ IsFiniteSet(accepted')
                   /\ \A e \in accepted' : e.revision \in 1..db'.revision
                   /\ BalancePaid(db'.balance, returned', Charges(accepted'))
           X == Charges(accepted)
           r == Reconcile(db, now)
<1>0. /\ now \in Nat /\ db \in Keep /\ db.revision \in Nat /\ AccountInv /\ AccountInv'
      /\ returned \subseteq Records /\ accepted \subseteq Accepted
      /\ IsFiniteSet(returned) /\ IsFiniteSet(accepted)
      /\ AllAccounted(db, returned) /\ Outcomes(db) \subseteq returned
      /\ X \in [Resource -> Nat] /\ BalancePaid(db.balance, returned, X)
      BY MoneyTypes, AccountStep DEF MoneyInv
<1> HIDE DEF X
<1>1. ASSUME NEW c \in InitializeCommand, Initialize(c) PROVE Goal
  <2>1. c \in Command /\ c.kind = "initialize"
        BY DEF Command, InitializeCommand, Envelope
  <2>2. /\ NoKeep \in Keep /\ NoKeep.revision = 0 /\ db.revision = 0 /\ Accept(c, NoKeep)
        BY <1>1, NoKeepType DEF Initialize, NoKeep
  <2>3. returned = {} /\ accepted = {}
    <3>1. \A e \in accepted : e.revision \in 1..0
          BY <2>2 DEF MoneyInv
    <3>2. accepted = {}
          BY <3>1
    <3> QED BY <1>0, <2>2, <3>2 DEF AccountInv
  <2>4. Outcomes(NoKeep) = {}
        BY DEF Outcomes, NoKeep, IdleWorker
  <2>5. Charges(accepted \cup {Entry(c, NoKeep)}) = Charges({})
    <3>1. Entry(c, NoKeep).command.kind # "build"
          BY <2>1 DEF Entry
    <3> QED BY <2>3, <3>1, ChargesSame
  <2>6. BalancePaid(NoKeep.balance, {}, Charges({}))
        BY NothingPaid
  <2>7. BalancePaid(NoKeep.balance, returned \cup Outcomes(NoKeep),
                    Charges(accepted \cup {Entry(c, NoKeep)}))
        BY <2>3, <2>4, <2>5, <2>6
  <2> QED BY <2>1, <2>2, <2>7, AcceptMoney
<1>2. ASSUME NEW c \in DispatchCommand, DispatchWorker(c) PROVE Goal
  <2>1. c \in Command /\ c.worker \in Worker /\ c.kind = "dispatch"
        BY DEF Command, DispatchCommand
  <2>2. StoredStateValid(db, now)
        BY <1>2, FreshIsValid DEF DispatchWorker
  <2>3. /\ r \in Keep /\ r.revision = db.revision
        /\ BalancePaid(r.balance, returned \cup Outcomes(r), X)
        BY <1>0, <2>2, Reconciled, ReconcilePaid
  <2>4. PICK node \in Node : /\ DispatchAccepted(r, now, c, node)
                             /\ Accept(c, Dispatched(r, now, c, node))
        BY <1>2 DEF DispatchWorker
  <2> DEFINE d == Dispatched(r, now, c, node)
  <2> HIDE DEF r
  <2>5. /\ d \in Keep /\ d.revision = db.revision
        /\ Sent(r.workers[c.worker], d.workers[c.worker])
        /\ \A v \in Worker \ {c.worker} : d.workers[v] = r.workers[v]
        BY <1>0, <2>3, <2>4, DispatchedType, DispatchedSends
  <2>6. d.balance = r.balance
        BY <2>3 DEF Dispatched, WithWakeup, Keep
  <2> HIDE DEF d
  <2>7. Outcomes(d) = Outcomes(r)
    <3>1. \A w \in Worker : d.workers[w].lastReturn = r.workers[w].lastReturn
          BY <2>5 DEF Sent
    <3> QED BY <3>1 DEF Outcomes
  <2>8. Charges(accepted \cup {Entry(c, d)}) = X
    <3>1. Entry(c, d).command.kind # "build"
          BY <2>1 DEF Entry
    <3> QED BY <3>1, ChargesSame DEF X
  <2>9. BalancePaid(d.balance, returned \cup Outcomes(d), Charges(accepted \cup {Entry(c, d)}))
        BY <2>3, <2>6, <2>7, <2>8
  <2>10. Accept(c, d)
         BY <2>4 DEF d
  <2> QED BY <2>1, <2>5, <2>9, <2>10, AcceptMoney
<1>3. ASSUME NEW c \in RecallCommand, RecallWorker(c) PROVE Goal
  <2>1. c \in Command /\ c.worker \in Worker /\ c.kind = "recall"
        BY DEF Command, RecallCommand
  <2>2. StoredStateValid(db, now)
        BY <1>3, FreshIsValid DEF RecallWorker
  <2> DEFINE R == returned \cup Outcomes(r)
  <2>3. /\ r \in Keep /\ r.revision = db.revision /\ AwaySound(r, now) /\ KeepSettles(db, r)
        /\ BalancePaid(r.balance, R, X)
        BY <1>0, <2>2, Reconciled, ReconcileSettles, ReconcilePaid
  <2> DEFINE d == Recalled(r, now, c.worker)
  <2>4. Accept(c, d)
        BY <1>3 DEF RecallWorker
  <2> HIDE DEF r
  <2>5. AllAccounted(r, R)
        BY <1>0, <2>3, SettledAccounted
  <2>6. R \subseteq Records /\ IsFiniteSet(R)
    <3>1. Outcomes(r) \subseteq Records
      <4> SUFFICES ASSUME NEW w \in Worker, r.workers[w].lastReturn # None
                   PROVE  r.workers[w].lastReturn \in Outcome
          BY DEF Outcomes, Records
      <4>1. r.workers[w] \in WorkerRow
            BY <2>3 DEF Keep
      <4> QED BY <4>1 DEF WorkerRow
    <3> QED BY <1>0, <3>1, OutcomesFinite, FS_Union
  <2>7. /\ d \in Keep /\ d.revision = db.revision /\ KeepSettles(r, d)
        BY <1>0, <2>1, <2>3, RecalledType, RecalledSettles
  <2>8. BalancePaid(d.balance, R \cup Outcomes(d), X)
    <3> HIDE DEF R, d
    <3> QED BY <1>0, <2>1, <2>3, <2>5, <2>6, RecalledPaid DEF d
  <2> HIDE DEF d
  <2>9. R \cup Outcomes(d) = returned \cup Outcomes(d)
    <3> SUFFICES ASSUME NEW w \in Worker, r.workers[w].lastReturn # None
                 PROVE  [worker |-> w, outcome |-> r.workers[w].lastReturn]
                            \in returned \cup Outcomes(d)
        BY DEF Outcomes
    <3> DEFINE old == db.workers[w]
               mid == r.workers[w]
               new == d.workers[w]
    <3>1. Settles(old, mid) /\ Settles(mid, new)
          BY <2>3, <2>7 DEF KeepSettles
    <3>2. CASE new.lastReturn = mid.lastReturn
          BY <3>2 DEF Outcomes
    <3>3. CASE new.lastReturn # mid.lastReturn
      <4>1. mid.lastReturn = old.lastReturn
            BY <3>1, <3>3 DEF Settles, Kept, CameHome
      <4> QED BY <1>0, <4>1 DEF Outcomes
    <3> QED BY <3>2, <3>3
  <2>10. Charges(accepted \cup {Entry(c, d)}) = X
    <3>1. Entry(c, d).command.kind # "build"
          BY <2>1 DEF Entry
    <3> QED BY <3>1, ChargesSame DEF X
  <2>11. BalancePaid(d.balance, returned \cup Outcomes(d), Charges(accepted \cup {Entry(c, d)}))
         BY <2>8, <2>9, <2>10
  <2> QED BY <2>1, <2>4, <2>7, <2>11, AcceptMoney
<1>4. ASSUME NEW c \in BuildCommand, StartBuilding(c) PROVE Goal
  <2>1. c \in Command /\ c.kind = "build"
        BY DEF Command, BuildCommand
  <2>2. StoredStateValid(db, now)
        BY <1>4, FreshIsValid DEF StartBuilding
  <2>3. /\ r \in Keep /\ r.revision = db.revision
        /\ BalancePaid(r.balance, returned \cup Outcomes(r), X)
        BY <1>0, <2>2, Reconciled, ReconcilePaid
  <2> DEFINE d == BuildStarted(r, now, c)
             cost == BuildingCost(c.building, c.target)
  <2>4. BuildAccepted(r, now, c) /\ Accept(c, d)
        BY <1>4 DEF StartBuilding
  <2> HIDE DEF r
  <2>5. d \in Keep /\ d.revision = db.revision
        BY <1>0, <2>3, <2>4, BuildStartedType
  <2>6. d.workers = r.workers /\ d.balance = [q \in Resource |-> r.balance[q] - cost[q]]
        BY <2>3 DEF BuildStarted, WithProjectWakeup, Keep
  <2> HIDE DEF d
  <2>7. Outcomes(d) = Outcomes(r)
        BY <2>6 DEF Outcomes
  <2> DEFINE e == Entry(c, d)
             Y == Charges(accepted \cup {e})
  <2>8. e \in Accepted /\ e.command = c /\ e.revision = db.revision + 1
    <3>1. d.revision + 1 \in Nat
          BY <1>0, <2>5
    <3> QED BY <2>1, <2>5, <3>1 DEF Entry, Accepted
  <2>9. e \notin accepted
        BY <1>0, <2>8 DEF MoneyInv
  <2> HIDE DEF e
  <2>10. \A q \in Resource : Y[q] = X[q] + cost[q]
    <3>1. \A q \in Resource : CostIn(e, q) = cost[q]
          BY <2>8 DEF CostIn
    <3> QED BY <1>0, <2>1, <2>8, <2>9, <3>1, ChargesAdd DEF X
  <2>11. BalancePaid(d.balance, returned \cup Outcomes(d), Y)
    <3> SUFFICES ASSUME NEW q \in Resource
                 PROVE  d.balance[q] = Total(Credits(returned \cup Outcomes(d), q)) - Y[q]
        BY DEF BalancePaid
    <3> DEFINE R == returned \cup Outcomes(r)
    <3>1. r.balance[q] = Total(Credits(R, q)) - X[q]
          BY <2>3 DEF BalancePaid
    <3>2. r.balance[q] \in Int /\ X[q] \in Nat /\ cost[q] \in Nat
      <4>1. r.balance[q] \in 0..BalanceCap
            BY <2>3 DEF Keep
      <4>2. cost[q] \in Nat
            BY <2>1, BuildingCostType DEF BuildCommand, Amounts
      <4> QED BY <1>0, <4>1, <4>2
    <3>3. Total(Credits(R, q)) \in Nat
      <4>1. Outcomes(r) \subseteq Records
        <5> SUFFICES ASSUME NEW w \in Worker, r.workers[w].lastReturn # None
                     PROVE  r.workers[w].lastReturn \in Outcome
            BY DEF Outcomes, Records
        <5>1. r.workers[w] \in WorkerRow
              BY <2>3 DEF Keep
        <5> QED BY <5>1 DEF WorkerRow
      <4>2. R \subseteq Records /\ IsFiniteSet(R)
            BY <1>0, <4>1, OutcomesFinite, FS_Union
      <4> HIDE DEF R
      <4> QED BY <4>2, CreditsType
    <3>4. d.balance[q] = r.balance[q] - cost[q] /\ returned \cup Outcomes(d) = R
          BY <2>6, <2>7
    <3>5. Y[q] = X[q] + cost[q]
          BY <2>10
    <3>6. d.balance[q] = Total(Credits(R, q)) - Y[q]
      <4> DEFINE u == Total(Credits(R, q))
                 b == r.balance[q]
                 x == X[q]
                 y == Y[q]
                 k == cost[q]
      <4>1. u \in Nat /\ b \in Int /\ x \in Nat /\ k \in Nat /\ b = u - x /\ y = x + k
            BY <3>1, <3>2, <3>3, <3>5
      <4>2. d.balance[q] = b - k
            BY <3>4
      <4> HIDE DEF u, b, x, y, k
      <4>3. b - k = u - y
            BY <4>1
      <4> QED BY <4>2, <4>3 DEF u, y
    <3> QED BY <3>4, <3>6
  <2> QED BY <2>1, <2>4, <2>5, <2>11, AcceptMoney DEF e
<1>5. ASSUME NEW d, d = db \/ (d = Settled(db, now) /\ StoredStateValid(db, now)),
             NEW stored \in Keep, stored.workers = d.workers, stored.revision = d.revision,
             stored.balance = d.balance, accepted' = accepted, Store(stored)
      PROVE  Goal
  <2>1. BalancePaid(d.balance, returned \cup Outcomes(d), X)
    <3>1. CASE d = db
      <4>1. returned \cup Outcomes(db) = returned
            BY <1>0
      <4> QED BY <1>0, <3>1, <4>1
    <3>2. CASE d = Settled(db, now) /\ StoredStateValid(db, now)
          BY <1>0, <3>2, SettledPaid
    <3> QED BY <1>5, <3>1, <3>2
  <2>2. d.revision \in {db.revision, db.revision + 1}
        BY <1>0, <1>5, SettledType
  <2>3. stored.revision \in Nat /\ stored.revision >= db.revision
        BY <1>0, <1>5, <2>2
  <2> QED BY <1>5, <2>1, <2>3, StoreMoney DEF X
<1>6. ASSUME GetKeep PROVE Goal
  <2>1. StoredStateValid(db, now) /\ Store(Settled(db, now)) /\ accepted' = accepted
        BY <1>6 DEF GetKeep
  <2>2. Settled(db, now) \in Keep
        BY <1>0, <2>1, SettledType
  <2> QED BY <1>5, <2>1, <2>2
<1>7. ASSUME NEW s \in db.wakeups, RunWorkerWakeup(s) PROVE Goal
  <2> DEFINE current == s.worker \in Away(db)
                           /\ db.workers[s.worker].assignmentRevision = s.revision
             d == IF Runs(current) THEN Settled(db, now) ELSE db
             e == [d EXCEPT !.wakeups = @ \ {s}]
  <2>1. Store(e) /\ d \in Keep /\ accepted' = accepted
        BY <1>0, <1>7, TimerType DEF RunWorkerWakeup, AccountInv
  <2>2. d = db \/ (d = Settled(db, now) /\ StoredStateValid(db, now))
        BY DEF Runs
  <2> HIDE DEF d
  <2>3. /\ e \in Keep /\ e.workers = d.workers /\ e.revision = d.revision
        /\ e.balance = d.balance
        BY <2>1 DEF Keep
  <2> HIDE DEF e
  <2> QED BY <1>5, <2>1, <2>2, <2>3
<1>8. ASSUME NEW s \in db.projectWakeups, RunProjectWakeup(s) PROVE Goal
  <2> DEFINE current == db.project # None /\ s = WakeupOfProject(db.project)
             d == IF Runs(current) THEN Settled(db, now) ELSE db
             e == [d EXCEPT !.projectWakeups = @ \ {s}]
  <2>1. Store(e) /\ d \in Keep /\ accepted' = accepted
        BY <1>0, <1>8, TimerType DEF RunProjectWakeup, AccountInv
  <2>2. d = db \/ (d = Settled(db, now) /\ StoredStateValid(db, now))
        BY DEF Runs
  <2> HIDE DEF d
  <2>3. /\ e \in Keep /\ e.workers = d.workers /\ e.revision = d.revision
        /\ e.balance = d.balance
        BY <2>1 DEF Keep
  <2> HIDE DEF e
  <2> QED BY <1>5, <2>1, <2>2, <2>3
<1>9. ASSUME LoseWakeup PROVE Goal
  <2>1. /\ db'.balance = db.balance /\ db'.revision = db.revision
        /\ returned' = returned /\ accepted' = accepted
        BY <1>0, <1>9 DEF LoseWakeup, Keep
  <2>2. Charges(accepted') = X
        BY <2>1 DEF X
  <2> QED BY <1>0, <2>1, <2>2 DEF MoneyInv
<1>10. ASSUME ProvisionOwner \/ SuspendOwner \/ Tick \/ UNCHANGED vars PROVE Goal
  <2>1. db' = db /\ returned' = returned /\ accepted' = accepted
        BY <1>10 DEF ProvisionOwner, SuspendOwner, Tick, vars
  <2> QED BY <2>1 DEF MoneyInv
<1>11. Goal
       BY <1>1, <1>2, <1>3, <1>4, <1>6, <1>7, <1>8, <1>9, <1>10 DEF Next
<1> QED BY <1>0, <1>11 DEF MoneyInv

(* The sums of the property are those of the proof. *)
LEMMA MapThenCredits ==
    ASSUME NEW R, IsFiniteSet(R), NEW r
    PROVE  LET credited(o) == o.outcome.credited
           IN  MapThenSumSet(credited, {o \in R : o.outcome.resource = r}) = Total(Credits(R, r))
<1> DEFINE S == Brought(R, r)
           g == Credits(R, r)
           Value(s) == Pick(s).outcome.credited
           P(F) == F = [s \in SUBSET S |-> IF s = {} THEN 0 ELSE Value(s) + F[s \ {Pick(s)}]]
<1>1. IsFiniteSet(S) /\ DOMAIN g = S
      BY FS_Subset DEF Brought, Credits
<1>2. \A s \in SUBSET S : s # {} => g[Pick(s)] = Value(s)
  <2>1. \A s \in SUBSET S : s # {} => Pick(s) \in S
        BY PickIn
  <2> HIDE DEF Pick
  <2> QED BY <2>1 DEF Credits
<1> HIDE DEF S, g
<1>3. ASSUME NEW F PROVE P(F) <=> Sums(F, S, g)
  <2>1. [s \in SUBSET S |-> IF s = {} THEN 0 ELSE Value(s) + F[s \ {Pick(s)}]]
         = [s \in SUBSET S |-> IF s = {} THEN 0 ELSE g[Pick(s)] + F[s \ {Pick(s)}]]
    <3> HIDE DEF Value
    <3> QED BY <1>2
  <2> QED BY <2>1 DEF Sums
<1>4. \E F : P(F)
      BY <1>1, <1>3, SumExists
<1>5. MapThenSumSet(LAMBDA o : o.outcome.credited, S) = (CHOOSE F : P(F))[S]
      BY Zenon DEF MapThenSumSet, MapThenFoldSet, Pick
<1> HIDE DEF P
<1>6. P(CHOOSE F : P(F))
      BY <1>4
<1>7. Total(g) = (CHOOSE F : P(F))[S]
      BY <1>1, <1>3, <1>6, TotalIs
<1> QED BY <1>5, <1>7 DEF S, g, Brought

LEMMA MapThenCosts ==
    ASSUME NEW A, IsFiniteSet(A), NEW r \in Resource
    PROVE  LET cost(e) == BuildingCost(e.command.building, e.command.target)[r]
           IN  MapThenSumSet(cost, {e \in A : e.command.kind = "build"}) = Charges(A)[r]
<1> DEFINE S == Builds(A)
           g == Costs(A, r)
           Value(s) == BuildingCost(Pick(s).command.building, Pick(s).command.target)[r]
           P(F) == F = [s \in SUBSET S |-> IF s = {} THEN 0 ELSE Value(s) + F[s \ {Pick(s)}]]
<1>1. IsFiniteSet(S) /\ DOMAIN g = S
      BY FS_Subset DEF Builds, Costs
<1>2. \A s \in SUBSET S : s # {} => g[Pick(s)] = Value(s)
  <2>1. \A s \in SUBSET S : s # {} => Pick(s) \in S
        BY PickIn
  <2> HIDE DEF Pick
  <2> QED BY <2>1 DEF Costs, CostIn
<1> HIDE DEF S, g
<1>3. ASSUME NEW F PROVE P(F) <=> Sums(F, S, g)
  <2>1. [s \in SUBSET S |-> IF s = {} THEN 0 ELSE Value(s) + F[s \ {Pick(s)}]]
         = [s \in SUBSET S |-> IF s = {} THEN 0 ELSE g[Pick(s)] + F[s \ {Pick(s)}]]
    <3> HIDE DEF Value
    <3> QED BY <1>2
  <2> QED BY <2>1 DEF Sums
<1>4. \E F : P(F)
      BY <1>1, <1>3, SumExists
<1>5. MapThenSumSet(LAMBDA e : BuildingCost(e.command.building, e.command.target)[r], S)
        = (CHOOSE F : P(F))[S]
      BY Zenon DEF MapThenSumSet, MapThenFoldSet, Pick
<1> HIDE DEF P
<1>6. P(CHOOSE F : P(F))
      BY <1>4
<1>7. Total(g) = (CHOOSE F : P(F))[S]
      BY <1>1, <1>3, <1>6, TotalIs
<1>8. Charges(A)[r] = Total(g)
      BY DEF Charges, g
<1> QED BY <1>5, <1>7, <1>8 DEF S, Builds

(* Nothing is credited twice, lost or charged twice, whatever commands, reads *)
(* and timers settle the journeys, and in whichever order workers come home   *)
(* (both reconciliations, recallWorker04 and startBuilding04).                *)
THEOREM ConservationAlways == Spec => []Conservation
<1>1. MoneyInv => Conservation
  <2> SUFFICES ASSUME MoneyInv, NEW r \in Resource
               PROVE  LET credited(o) == o.outcome.credited
                          cost(e) == BuildingCost(e.command.building, e.command.target)[r]
                      IN  db.balance[r] =
                              MapThenSumSet(credited, {o \in returned : o.outcome.resource = r}) -
                              MapThenSumSet(cost, {e \in accepted : e.command.kind = "build"})
      BY DEF Conservation
  <2>1. db.balance[r] = Total(Credits(returned, r)) - Charges(accepted)[r]
        BY DEF MoneyInv, BalancePaid
  <2>2. IsFiniteSet(returned) /\ IsFiniteSet(accepted)
        BY DEF MoneyInv
  <2> QED BY <2>1, <2>2, MapThenCredits, MapThenCosts
<1>2. MoneyInv /\ [Next]_vars => MoneyInv'
      BY MoneyStep
<1> QED BY <1>1, <1>2, MoneyInit, PTL DEF Spec
=============================================================================
