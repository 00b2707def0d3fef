------------------------------ MODULE Policy04 ------------------------------
(* The pure economic policy of gameplay 0.4 (gameplay04/policy.ts): what a   *)
(* building costs and how long it takes, what a gathering worker yields, how  *)
(* fast it travels, and how cargo is credited against the balance cap.        *)
(* Amounts and times are naturals; the code's tables are constants, so that   *)
(* TLC can use small ones and the proofs can speak of all of them.            *)
EXTENDS Integers

CONSTANTS
    Resource,        \* food, wood, stone, gold
    Building,        \* the six building kinds
    MaxLevel,        \* 5
    BaseCost,        \* BASE_COSTS: building, then resource
    CostMultiplier,  \* COST_MULTIPLIERS: by target level
    BuildDuration,   \* BUILD_DURATIONS_MICROS: by target level
    GatherDuration,  \* GAMEPLAY04_GATHER_DURATIONS_MICROS
    GatherQuantum,   \* GAMEPLAY04_GATHER_QUANTUM_MICROS
    BalanceCap,      \* GAMEPLAY04_BALANCE_CAP
    Matching,        \* MATCHING_ECONOMY_BUILDING: by resource
    Barracks,        \* 'city-barracks'
    Cathedral,       \* 'grand-covenant-cathedral'
    BaseYield,       \* 10
    YieldPerLevel,   \* 2
    BaseTravel,      \* 2_000_000 microseconds per edge
    BpsPerLevel      \* 500 basis points of travel or build time per level

Level == 0..MaxLevel
TargetLevel == 1..MaxLevel
Amounts == [Resource -> Nat]
CompletedLevels == [Building -> Level]

ASSUME PolicyAssumption ==
    /\ MaxLevel \in Nat \ {0}
    /\ BaseCost \in [Building -> Amounts]
    /\ CostMultiplier \in [TargetLevel -> Nat \ {0}]
    /\ BuildDuration \in [TargetLevel -> Nat \ {0}]
    /\ GatherDuration \subseteq Nat \ {0}
    /\ GatherQuantum \in Nat \ {0}
    /\ BalanceCap \in Nat
    /\ Matching \in [Resource -> Building]
    /\ Barracks \in Building
    /\ Cathedral \in Building
    /\ BaseYield \in Nat \ {0}
    /\ YieldPerLevel \in Nat
    /\ BaseTravel \in Nat \ {0}
    /\ BpsPerLevel \in Nat
    /\ MaxLevel * BpsPerLevel < 10000

-----------------------------------------------------------------------------
(* A time shortened by some basis points, rounded up (ceilBps). *)
CeilBps(base, bps) == (base * bps + 9999) \div 10000

BuildingCost(kind, target) ==
    [r \in Resource |-> BaseCost[kind][r] * CostMultiplier[target]]

BuildingDuration(target, completed) ==
    CeilBps(BuildDuration[target], 10000 - completed[Cathedral] * BpsPerLevel)

YieldAt(level) == BaseYield + level * YieldPerLevel

GatheringYield(resource, completed) == YieldAt(completed[Matching[resource]])

TravelAt(level) == CeilBps(BaseTravel, 10000 - level * BpsPerLevel)

TravelPerEdge(completed) == TravelAt(completed[Barracks])

(* Mutant: the cap is checked against the cargo alone. *)
CreditPerCargo(balance, earned) ==
    LET credited == IF earned < BalanceCap THEN earned ELSE BalanceCap
    IN  [balance  |-> balance + credited,
         credited |-> credited,
         overflow |-> earned - credited]

(* creditResource04: what fits under the cap is credited, the rest is lost. *)
Credit(balance, earned) ==
    LET available == BalanceCap - balance
        credited  == IF earned < available THEN earned ELSE available
    IN  [balance  |-> balance + credited,
         credited |-> credited,
         overflow |-> earned - credited]
=============================================================================
