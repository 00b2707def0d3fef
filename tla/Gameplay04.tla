----------------------------- MODULE Gameplay04 -----------------------------
(* One player's keep in the gameplay 0.4 realm database: the core in          *)
(* src/spacetimedb/gameplay04 behind the procedures and the scheduled         *)
(* reducer in src/spacetimedb/ptr/src.                                        *)
(*                                                                            *)
(* Every procedure runs in one database transaction, so each is one action    *)
(* over db, the rows of the keep.  A procedure that fails rolls everything    *)
(* back: a rejected command is a stuttering step, and the guards of an        *)
(* action are the conditions under which the code does not fail.              *)
EXTENDS Journey04, Commands04, FiniteSets, Sequences, FiniteSetsExt

CONSTANTS
    None,           \* undefined, null or no such row
    WorkerCount,    \* GAMEPLAY04_WORKER_COUNT, 4
    Node,           \* the resource nodes of the atlas
    Location,       \* where the nodes are
    NodesAt,        \* the nodes of a location in ordinal order
    ResourceAt,     \* the resource a location holds
    EdgesTo,        \* the length of the route to a location
    Site,           \* places in the keep where buildings do not overlap
    RequestKey,     \* the nonces of clients
    MaxSequence,    \* BOUND on the sequences clients use
    MaxTime,        \* the largest timestamp (I64_MAX)
    MaxLost,        \* BOUND on wakeups the platform loses
    MaySuspend      \* whether the owner may be suspended

Worker == 0..(WorkerCount - 1)

ASSUME GameplayAssumption ==
    /\ WorkerCount \in 1..4
    /\ NodesAt \in [Location -> Seq(Node)]
    /\ ResourceAt \in [Location -> Resource]
    /\ EdgesTo \in [Location -> 0..MaxEdges]
    /\ MaxSequence \in Nat
    /\ MaxTime \in Nat
    /\ MaxLost \in Nat
    /\ MaySuspend \in BOOLEAN

VARIABLES
    now,        \* the transaction timestamp
    anchor,     \* the owner's anchor row: absent, enabled or suspended
    db,         \* the rows of the keep; revision 0 is no keep
    accepted,   \* history: every command ever accepted, with its revision
    returned,   \* history: every outcome a worker came home with
    lost        \* how many wakeups were lost

vars == <<now, anchor, db, accepted, returned, lost>>

-----------------------------------------------------------------------------
(* Commands and rows. *)
Time == 0..MaxTime
Revision == 0..U64Max
Positive == Nat \ {0}

Envelope(kind) == [kind : {kind}, sequence : 1..MaxSequence,
                   requestKey : RequestKey, expectedRevision : Revision]

InitializeCommand == Envelope("initialize")

DispatchCommand == [kind : {"dispatch"}, sequence : 1..MaxSequence,
                    requestKey : RequestKey, expectedRevision : Revision,
                    worker : Worker, location : Location, duration : GatherDuration]

RecallCommand == [kind : {"recall"}, sequence : 1..MaxSequence,
                  requestKey : RequestKey, expectedRevision : Revision,
                  worker : Worker]

(* The quoted cost is a fixed table, the quoted duration depends on the state *)
(* the client saw.                                                            *)
Quote == {BuildingDuration(target, [b \in Building |-> level]) :
             target \in TargetLevel, level \in Level}

BuildCommand == [kind : {"build"}, sequence : 1..MaxSequence,
                 requestKey : RequestKey, expectedRevision : Revision,
                 building : Building, target : TargetLevel, site : Site,
                 duration : Quote]

Command == InitializeCommand \cup DispatchCommand \cup RecallCommand \cup BuildCommand

Assignment == [node : Node, journey : Journey]

Outcome == [assignmentRevision : Positive, resource : Resource, returnedAt : Nat,
            earned : Nat, credited : Nat, overflow : Nat]

WorkerRow == [assignmentRevision : Nat,
              assignment : Assignment \cup {None},
              lastReturn : Outcome \cup {None}]

Claim == [worker : Worker, revision : Positive]

Wakeup == [worker : Worker, revision : Positive, due : Nat]

BuildingRow == [site : Site, completedLevel : Level, revision : Positive]

Project == [building : Building, targetLevel : TargetLevel, revision : Positive,
            startedAt : Nat, completesAt : Nat, cost : Amounts, duration : Positive]

ProjectWakeup == [building : Building, revision : Positive, due : Nat]

Keep == [revision       : Nat,
         lastAccepted   : Nat,
         balance        : [Resource -> 0..BalanceCap],
         workers        : [Worker -> WorkerRow],
         reservations   : [Node -> Claim \cup {None}],
         wakeups        : SUBSET Wakeup,
         buildings      : [Building -> BuildingRow \cup {None}],
         project        : Project \cup {None},
         projectWakeups : SUBSET ProjectWakeup,
         receipts       : SUBSET [command : Command, revision : Nat]]

(* What stands for no row is no row. *)
ASSUME NoneAssumption ==
    /\ None \notin Assignment
    /\ None \notin Outcome
    /\ None \notin Claim
    /\ None \notin BuildingRow
    /\ None \notin Project

IdleWorker == [assignmentRevision |-> 0, assignment |-> None, lastReturn |-> None]

NoKeep == [revision       |-> 0,
           lastAccepted   |-> 0,
           balance        |-> [r \in Resource |-> 0],
           workers        |-> [w \in Worker |-> IdleWorker],
           reservations   |-> [n \in Node |-> None],
           wakeups        |-> {},
           buildings      |-> [b \in Building |-> None],
           project        |-> None,
           projectWakeups |-> {},
           receipts       |-> {}]

-----------------------------------------------------------------------------
(* What the core demands of stored rows before it touches them; a keep that   *)
(* fails this is refused by every procedure (GAMEPLAY04_STORED_STATE_INVALID).*)
Away(d) == {w \in Worker : d.workers[w].assignment # None}

JourneyOf(d, w) == d.workers[w].assignment.journey

ClaimedBy(d, w) ==
    {n \in Node : d.reservations[n] # None /\ d.reservations[n].worker = w}

WakeupsOf(d, w) == {s \in d.wakeups : s.worker = w}

WorkerRowValid(row) ==
    /\ row.assignment # None =>
          JourneyValid(row.assignment.journey) /\ row.assignmentRevision > 0
    /\ row.lastReturn # None =>
          /\ row.lastReturn.credited + row.lastReturn.overflow = row.lastReturn.earned
          /\ row.lastReturn.assignmentRevision <= row.assignmentRevision
          /\ row.assignment # None =>
                row.lastReturn.assignmentRevision # row.assignmentRevision

ClaimsValid(d, w) ==
    IF w \in Away(d)
    THEN LET node == d.workers[w].assignment.node
         IN  /\ ClaimedBy(d, w) = {node}
             /\ d.reservations[node].revision = d.workers[w].assignmentRevision
    ELSE ClaimedBy(d, w) = {}

WakeupsValid(d, w, t) ==
    IF w \in Away(d)
    THEN LET j == JourneyOf(d, w)
         IN  /\ Observable(j, t)
             /\ ~Complete(j, t) => NextDueAt(j, t) > t
             /\ \A s, u \in WakeupsOf(d, w) : s = u
             /\ \A s \in WakeupsOf(d, w) :
                   /\ s.revision = d.workers[w].assignmentRevision
                   /\ s.due \in {ArrivesAt(j), Stop(j), ReturnsAt(j)}
                   /\ s.due > t => Complete(j, t) \/ s.due = NextDueAt(j, t)
    ELSE WakeupsOf(d, w) = {}

WorkersValid(d, t) ==
    \A w \in Worker : /\ WorkerRowValid(d.workers[w])
                      /\ ClaimsValid(d, w)
                      /\ WakeupsValid(d, w, t)

CompletedLevelsOf(d) ==
    [b \in Building |-> IF d.buildings[b] = None THEN 0
                        ELSE d.buildings[b].completedLevel]

Built(d) == {b \in Building : d.buildings[b] # None}

Finished(row) == row.completedLevel > 0 /\ row.revision = row.completedLevel

WakeupOfProject(p) ==
    [building |-> p.building, revision |-> p.revision, due |-> p.completesAt]

ProjectValid(d, p) ==
    /\ p.building \in Built(d)
    /\ p.targetLevel = d.buildings[p.building].completedLevel + 1
    /\ p.revision = d.buildings[p.building].revision
    /\ p.revision = p.targetLevel
    /\ p.completesAt = p.startedAt + p.duration
    /\ p.cost = BuildingCost(p.building, p.targetLevel)
    /\ p.duration = BuildingDuration(p.targetLevel, CompletedLevelsOf(d))

ConstructionValid(d) ==
    /\ \A b, c \in Built(d) : d.buildings[b].site = d.buildings[c].site => b = c
    /\ d.project # None => ProjectValid(d, d.project)
    /\ \A b \in Built(d) :
          (d.project = None \/ d.project.building # b) => Finished(d.buildings[b])
    /\ \A s \in d.projectWakeups : d.project # None /\ s = WakeupOfProject(d.project)

StoredStateValid(d, t) ==
    /\ ReceiptsValid(d, d.receipts)
    /\ WorkersValid(d, t)
    /\ ConstructionValid(d)

-----------------------------------------------------------------------------
(* Reconciliation: bring the rows up to the clock.  Construction comes first, *)
(* then the workers in the order of their ordinals.                           *)
Due(p, t) == p.completesAt <= t

WithProjectWakeup(d, p) ==
    [d EXCEPT !.projectWakeups = @ \cup {WakeupOfProject(p)}]

ReconcileConstruction(d, t) ==
    IF d.project = None THEN d
    ELSE IF Due(d.project, t)
    THEN [d EXCEPT
            !.buildings[d.project.building].completedLevel = d.project.targetLevel,
            !.project = None,
            !.projectWakeups = @ \ {WakeupOfProject(d.project)}]
    ELSE WithProjectWakeup(d, d.project)

Home(d, t) == {w \in Away(d) : Complete(JourneyOf(d, w), t)}

CreditOf(balance, d, w, t) ==
    Credit(balance[JourneyOf(d, w).resource], Earned(JourneyOf(d, w), t))

(* The balance after worker w was visited, from the balance before it. *)
AfterVisit(balance, d, w, t) ==
    IF w \in Worker /\ w \in Home(d, t)
    THEN [balance EXCEPT ![JourneyOf(d, w).resource] = CreditOf(balance, d, w, t).balance]
    ELSE balance

(* Mutant: each visit starts from the stored balance, the last one wins. *)
AccumulatedLast(d, w, t) ==
    IF w < 4 \/ Home(d, t) = {} THEN d.balance
    ELSE AfterVisit(d.balance, d, CHOOSE v \in Home(d, t) : \A u \in Home(d, t) : u <= v, t)

(* The balance the loop over at most four workers has accumulated when it     *)
(* comes to worker w; w = 4 is after the loop.                                *)
Accumulated(d, w, t) ==
    LET b1 == AfterVisit(d.balance, d, 0, t)
        b2 == AfterVisit(b1, d, 1, t)
        b3 == AfterVisit(b2, d, 2, t)
        b4 == AfterVisit(b3, d, 3, t)
    IN  CASE w = 0 -> d.balance [] w = 1 -> b1 [] w = 2 -> b2 [] w = 3 -> b3 [] OTHER -> b4

OutcomeOf(d, w, t) ==
    LET j == JourneyOf(d, w)
        c == CreditOf(Accumulated(d, w, t), d, w, t)
    IN  [assignmentRevision |-> d.workers[w].assignmentRevision,
         resource   |-> j.resource,
         returnedAt |-> ReturnsAt(j),
         earned     |-> Earned(j, t),
         credited   |-> c.credited,
         overflow   |-> c.overflow]

WakeupOf(d, w, due) ==
    [worker |-> w, revision |-> d.workers[w].assignmentRevision, due |-> due]

BackHome(row, outcome) == [row EXCEPT !.assignment = None, !.lastReturn = outcome]

(* Mutant: no wakeup is inserted for the way home. *)
CurrentWakeupsOutward(d, t) ==
    {WakeupOf(d, w, NextDueAt(JourneyOf(d, w), t)) :
        w \in {v \in Away(d) : t < Stop(JourneyOf(d, v))}}

(* A wakeup of the next due time is kept or inserted, any other one of the    *)
(* worker is deleted.                                                         *)
CurrentWakeups(d, t) ==
    {WakeupOf(d, w, NextDueAt(JourneyOf(d, w), t)) : w \in Away(d) \ Home(d, t)}

ReconcileWorkers(d, t) ==
    [d EXCEPT
       !.balance = Accumulated(d, 4, t),
       !.workers = [w \in Worker |->
           IF w \in Home(d, t)
           THEN BackHome(d.workers[w], OutcomeOf(d, w, t))
           ELSE d.workers[w]],
       !.reservations = [n \in Node |->
           IF \E w \in Home(d, t) : d.workers[w].assignment.node = n
           THEN None ELSE d.reservations[n]],
       !.wakeups = CurrentWakeups(d, t)]

(* reconcileGameplayWithoutRevision04 *)
Reconcile(d, t) == ReconcileWorkers(ReconcileConstruction(d, t), t)

(* Mutant: the revision advances for workers only. *)
SettledForWorkers(d, t) ==
    LET r == Reconcile(d, t)
    IN  IF r.workers = d.workers THEN r ELSE [r EXCEPT !.revision = @ + 1]

(* reconcileGameplay04: the revision advances when anything changed. *)
Settled(d, t) ==
    LET r == Reconcile(d, t)
    IN  IF r = d THEN d ELSE [r EXCEPT !.revision = @ + 1]

CanSettle(d, t) == Reconcile(d, t) # d => d.revision < U64Max

-----------------------------------------------------------------------------
(* Commands. *)
Committed(d, command) ==
    [d EXCEPT !.revision = @ + 1,
              !.lastAccepted = command.sequence,
              !.receipts = WithReceipt(@, command, d.revision + 1)]

Fresh(d, t, command) ==
    /\ d.revision > 0
    /\ Preflight(d, d.receipts, command) = "fresh"
    /\ StoredStateValid(d, t)
    /\ d.revision < U64Max

(* Mutant: a busy worker counts as idle. *)
AlwaysIdle(d, w) == TRUE

Idle(d, w) == w \notin Away(d)

(* Mutant: the wakeups of a worker stay. *)
KeepWakeups(d, w) == d

WithoutWakeups(d, w) == [d EXCEPT !.wakeups = @ \ WakeupsOf(d, w)]

WithWakeup(d, w, due) == [d EXCEPT !.wakeups = @ \cup {WakeupOf(d, w, due)}]

(* The first node of the location, in ordinal order, that nobody reserved. *)
FirstFree(d, location, node) ==
    \E i \in DOMAIN NodesAt[location] :
        /\ node = NodesAt[location][i]
        /\ d.reservations[node] = None
        /\ \A k \in 1..(i - 1) : d.reservations[NodesAt[location][k]] # None

JourneyFor(d, t, command) ==
    DispatchJourney(ResourceAt[command.location], t, EdgesTo[command.location],
                    command.duration, CompletedLevelsOf(d))

DispatchAccepted(d, t, command, node) ==
    /\ Idle(d, command.worker)
    /\ d.workers[command.worker].assignmentRevision < U64Max
    /\ FirstFree(d, command.location, node)
    /\ ReturnsAt(JourneyFor(d, t, command)) <= MaxTime

Dispatched(d, t, command, node) ==
    LET w == command.worker
        j == JourneyFor(d, t, command)
        revision == d.workers[w].assignmentRevision + 1
        r == [d EXCEPT
                !.workers[w] = [@ EXCEPT !.assignmentRevision = revision,
                                         !.assignment = [node |-> node, journey |-> j]],
                !.reservations[node] = [worker |-> w, revision |-> revision]]
    IN  WithWakeup(r, w, NextDueAt(j, t))

(* Mutant: a recalled worker walks at the speed of what was built meanwhile. *)
RecalledAtPresentSpeed(d, t, w) ==
    LET speed == TravelPerEdge(CompletedLevelsOf(d))
        j == [RecallJourney(JourneyOf(d, w), t) EXCEPT !.travelPerEdge = speed]
        r == WithoutWakeups([d EXCEPT !.workers[w].assignment.journey = j], w)
    IN  IF Idle(d, w) \/ j = JourneyOf(d, w) THEN d
        ELSE IF Complete(j, t) THEN ReconcileWorkers(r, t)
        ELSE WithWakeup(r, w, NextDueAt(j, t))

(* A recall that changes the journey replaces the wakeup; when the worker is  *)
(* home at once the workers are reconciled a second time.                     *)
Recalled(d, t, w) ==
    LET j == RecallJourney(JourneyOf(d, w), t)
        r == WithoutWakeups([d EXCEPT !.workers[w].assignment.journey = j], w)
    IN  IF Idle(d, w) \/ j = JourneyOf(d, w) THEN d
        ELSE IF Complete(j, t) THEN ReconcileWorkers(r, t)
        ELSE WithWakeup(r, w, NextDueAt(j, t))

(* Mutant: the builder is never busy. *)
BuilderAlwaysFree(d) == TRUE

BuilderFree(d) == d.project = None

BuildAccepted(d, t, command) ==
    LET row  == d.buildings[command.building]
        cost == BuildingCost(command.building, command.target)
    IN  /\ BuilderFree(d)
        /\ IF row = None
           THEN /\ command.target = 1
                /\ \A b \in Built(d) : d.buildings[b].site # command.site
           ELSE /\ command.target = row.completedLevel + 1
                /\ command.site = row.site
        /\ command.duration = BuildingDuration(command.target, CompletedLevelsOf(d))
        /\ t + command.duration <= MaxTime
        /\ \A r \in Resource : d.balance[r] >= cost[r]

BuildStarted(d, t, command) ==
    LET b    == command.building
        row  == d.buildings[b]
        rev  == IF row = None THEN 1 ELSE row.revision + 1
        cost == BuildingCost(b, command.target)
        p    == [building |-> b, targetLevel |-> command.target, revision |-> rev,
                 startedAt |-> t, completesAt |-> t + command.duration,
                 cost |-> cost, duration |-> command.duration]
        r    == [d EXCEPT
                   !.buildings[b] =
                      [site |-> command.site, revision |-> rev,
                       completedLevel |-> IF row = None THEN 0 ELSE row.completedLevel],
                   !.project = p,
                   !.balance = [q \in Resource |-> d.balance[q] - cost[q]]]
    IN  WithProjectWakeup(r, p)

-----------------------------------------------------------------------------
Init ==
    /\ now = 0
    /\ anchor = "absent"
    /\ db = NoKeep
    /\ accepted = {}
    /\ returned = {}
    /\ lost = 0

(* The histories follow the rows. *)
Outcomes(d) == {[worker |-> w, outcome |-> d.workers[w].lastReturn] :
                   w \in {v \in Worker : d.workers[v].lastReturn # None}}

Store(d) ==
    /\ db' = d
    /\ returned' = returned \cup Outcomes(db')

Accept(command, d) ==
    /\ Store(Committed(d, command))
    /\ accepted' = accepted \cup {[command |-> command, revision |-> d.revision + 1]}
    /\ UNCHANGED <<now, anchor, lost>>

Initialize(command) ==
    /\ anchor = "enabled"
    /\ db.revision = 0
    /\ command.sequence = 1
    /\ command.expectedRevision = 0
    /\ Accept(command, NoKeep)

DispatchWorker(command) ==
    /\ anchor = "enabled"
    /\ Fresh(db, now, command)
    /\ LET d == Reconcile(db, now)
       IN  \E node \in Node :
              /\ DispatchAccepted(d, now, command, node)
              /\ Accept(command, Dispatched(d, now, command, node))

RecallWorker(command) ==
    /\ anchor = "enabled"
    /\ Fresh(db, now, command)
    /\ Accept(command, Recalled(Reconcile(db, now), now, command.worker))

StartBuilding(command) ==
    /\ anchor = "enabled"
    /\ Fresh(db, now, command)
    /\ LET d == Reconcile(db, now)
       IN  /\ BuildAccepted(d, now, command)
           /\ Accept(command, BuildStarted(d, now, command))

(* Mutant: the read procedure only reads. *)
GetKeepUnsettled ==
    /\ anchor = "enabled"
    /\ db.revision > 0
    /\ StoredStateValid(db, now)
    /\ UNCHANGED vars

(* The read procedure settles what is due before it answers. *)
GetKeep ==
    /\ anchor = "enabled"
    /\ db.revision > 0
    /\ StoredStateValid(db, now)
    /\ CanSettle(db, now)
    /\ Store(Settled(db, now))
    /\ UNCHANGED <<now, anchor, accepted, lost>>

(* Mutant: a timer settles the keep of a suspended owner. *)
RunsAnyway(current) ==
    current /\ StoredStateValid(db, now) /\ CanSettle(db, now)

(* The platform runs the scheduled reducer for a due row and drops the row:   *)
(* the reducer has no effect when the row no longer fits the keep.            *)
Runs(current) ==
    anchor = "enabled" /\ current /\ StoredStateValid(db, now) /\ CanSettle(db, now)

RunWorkerWakeup(s) ==
    /\ s \in db.wakeups
    /\ s.due <= now
    /\ LET current == s.worker \in Away(db)
                      /\ db.workers[s.worker].assignmentRevision = s.revision
           d == IF Runs(current) THEN Settled(db, now) ELSE db
       IN  Store([d EXCEPT !.wakeups = @ \ {s}])
    /\ UNCHANGED <<now, anchor, accepted, lost>>

RunProjectWakeup(s) ==
    /\ s \in db.projectWakeups
    /\ s.due <= now
    /\ LET current == db.project # None /\ s = WakeupOfProject(db.project)
           d == IF Runs(current) THEN Settled(db, now) ELSE db
       IN  Store([d EXCEPT !.projectWakeups = @ \ {s}])
    /\ UNCHANGED <<now, anchor, accepted, lost>>

(* The platform may drop a scheduled row without a run that succeeded. *)
LoseWakeup ==
    /\ lost < MaxLost
    /\ \/ \E s \in db.wakeups : db' = [db EXCEPT !.wakeups = @ \ {s}]
       \/ \E s \in db.projectWakeups : db' = [db EXCEPT !.projectWakeups = @ \ {s}]
    /\ lost' = lost + 1
    /\ UNCHANGED <<now, anchor, accepted, returned>>

ProvisionOwner ==
    /\ anchor = "absent"
    /\ anchor' = "enabled"
    /\ UNCHANGED <<now, db, accepted, returned, lost>>

SuspendOwner ==
    /\ MaySuspend
    /\ anchor = "enabled"
    /\ anchor' = "suspended"
    /\ UNCHANGED <<now, db, accepted, returned, lost>>

Tick ==
    /\ now < MaxTime
    /\ now' = now + 1
    /\ UNCHANGED <<anchor, db, accepted, returned, lost>>

Next ==
    \/ \E c \in InitializeCommand : Initialize(c)
    \/ \E c \in DispatchCommand : DispatchWorker(c)
    \/ \E c \in RecallCommand : RecallWorker(c)
    \/ \E c \in BuildCommand : StartBuilding(c)
    \/ GetKeep
    \/ \E s \in db.wakeups : RunWorkerWakeup(s)
    \/ \E s \in db.projectWakeups : RunProjectWakeup(s)
    \/ LoseWakeup
    \/ ProvisionOwner
    \/ SuspendOwner
    \/ Tick

Spec == Init /\ [][Next]_vars

(* Time passes. *)
FairSpec == Spec /\ WF_vars(Tick)

(* The platform runs what is due; nobody needs to be online.                  *)
Timers ==
    /\ WF_vars(\E s \in db.wakeups : RunWorkerWakeup(s))
    /\ WF_vars(\E s \in db.projectWakeups : RunProjectWakeup(s))

(* An open client reads the keep every five seconds (useGameplay04Controller). *)
Polling == WF_vars(GetKeep)

-----------------------------------------------------------------------------
TypeOK ==
    /\ now \in Time
    /\ anchor \in {"absent", "enabled", "suspended"}
    /\ db \in Keep
    /\ accepted \subseteq [command : Command, revision : Nat]
    /\ returned \subseteq [worker : Worker, outcome : Outcome]
    /\ lost \in 0..MaxLost

(* No history of commands, timers, reads and lost timers leads to rows the    *)
(* core itself refuses as GAMEPLAY04_STORED_STATE_INVALID: there is no        *)
(* repair procedure, so one such state would end the keep for good            *)
(* (reconcileWorkersWithoutRevision04, validateConstructionState04).          *)
NeverRefused == db.revision > 0 => StoredStateValid(db, now)

(* Nothing is credited twice, lost or charged twice: the balance is what all  *)
(* the journeys that came home brought under the cap, less the cost of every  *)
(* accepted building (the keep threaded through dispatchWorker04,             *)
(* recallWorker04, startBuilding04 and both reconciliations).                 *)
Conservation ==
    \A r \in Resource :
        LET credited(o) == o.outcome.credited
            cost(e)     == BuildingCost(e.command.building, e.command.target)[r]
        IN  db.balance[r] =
                MapThenSumSet(credited, {o \in returned : o.outcome.resource = r}) -
                MapThenSumSet(cost, {e \in accepted : e.command.kind = "build"})

(* Every dispatch of a worker comes home exactly once, in order, and only the *)
(* last one can be still away (assignmentRevision and lastReturn of the       *)
(* worker rows).                                                              *)
EveryJourneyAccounted ==
    \A w \in Worker :
        LET home == {o.outcome : o \in {p \in returned : p.worker = w}}
        IN  /\ {o.assignmentRevision : o \in home} =
                   1..(db.workers[w].assignmentRevision - (IF w \in Away(db) THEN 1 ELSE 0))
            /\ \A o, p \in home : o.assignmentRevision = p.assignmentRevision => o = p

(* The terms of a journey and of a project are fixed when it is accepted: no  *)
(* later building changes them, and a recall only adds its own instant, once. *)
CapturedTerms ==
    [][/\ \A w \in Away(db) \cap Away(db)' :
             db.workers[w].assignmentRevision = db'.workers[w].assignmentRevision =>
                 \/ db'.workers[w].assignment = db.workers[w].assignment
                 \/ /\ JourneyOf(db, w).recalledAt = NotRecalled
                    /\ now < Stop(JourneyOf(db, w))
                    /\ db'.workers[w].assignment =
                          [db.workers[w].assignment EXCEPT !.journey.recalledAt = now]
       /\ db.project # None /\ db'.project # None
             /\ db.project.completesAt > now => db'.project = db.project]_vars

(* A level is completed by its own project, one at a time and not before its  *)
(* time, and a project that was paid for is never dropped (startBuilding04    *)
(* and the reconciliations inside other commands).                            *)
LevelsByProject ==
    [][\A b \in Building :
         LET built == CompletedLevelsOf(db)[b] + 1 = CompletedLevelsOf(db')[b]
             due   == db.project # None /\ db.project.building = b /\ db.project.completesAt <= now
         IN  /\ CompletedLevelsOf(db')[b] # CompletedLevelsOf(db)[b] => built /\ due
             /\ db.project # None /\ db.project.building = b /\ db'.project # db.project =>
                   built /\ due]_vars

(* Two reads at one revision show the same keep: whatever a client can see    *)
(* changes only together with the revision its next command must quote.       *)
View(d) == [d EXCEPT !.revision = 0, !.wakeups = {}, !.projectWakeups = {}, !.receipts = {}]

RevisionPinsView ==
    [][View(db') # View(db) => db'.revision = db.revision + 1]_vars

(* After the suspension, which has no inverse, timers and reads change        *)
(* nothing a player owns (planPtrOwnerSuspension, runGameplay04ScheduleV1).   *)
SuspensionFreezes ==
    [][anchor = "suspended" => anchor' = "suspended" /\ View(db') = View(db)
                               /\ db'.revision = db.revision]_vars

(* A keep is one command log: at most once, in order, at the quoted revision. *)
Log == INSTANCE CommandLog04
       WITH revision <- db.revision, lastAccepted <- db.lastAccepted, log <- accepted

ImplementsCommandLog == Log!Spec

CommandsInOrder == Log!AtMostOnce /\ Log!InOrder

(* Whoever is sent out comes home, and what is being built is finished,       *)
(* although no client is online: as long as no timer is lost, the timers      *)
(* alone settle a journey to its end; only a suspension may stop it           *)
(* (runGameplay04ScheduleV1).                                                 *)
TimersFinish ==
    Timers =>
        /\ \A w \in Worker :
              (w \in Away(db)) ~> (w \notin Away(db) \/ anchor = "suspended" \/ lost > 0)
        /\ (db.project # None) ~> (db.project = None \/ anchor = "suspended" \/ lost > 0)

(* An open client makes up for any timer: reading the keep is enough          *)
(* (getGameplay04KeepV1 settles and stores what is due).                      *)
PollingBringsHome ==
    Polling => \A w \in Worker :
        (w \in Away(db)) ~> (w \notin Away(db) \/ anchor = "suspended")
=============================================================================
