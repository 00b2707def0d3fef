SPECIFICATION Spec
CONSTANTS
  None = None
  food = food
  hall = hall
  mine = mine
  field = field
  n1 = n1
  n2 = n2
  Resource = {food}
  Building = {hall}
  Node = {n1, n2}
  Location = {mine}
  Site = {s1}
  RequestKey = {k1}
  MaxLevel = 1
  BaseCost <- MCBaseCost
  CostMultiplier <- MCCostMultiplier
  BuildDuration <- MCBuildDuration
  GatherDuration = {2}
  GatherQuantum = 1
  BalanceCap = 1
  Matching <- MCMatching
  Barracks = hall
  Cathedral = hall
  BaseYield = 1
  YieldPerLevel = 1
  BaseTravel = 2
  BpsPerLevel = 5000
  MaxEdges = 1
  MaxReceipts = 2
  U64Max = 20
  WorkerCount = 2
  NodesAt <- MCTwoNodes
  ResourceAt <- MCResourceAt
  EdgesTo <- MCEdgesTo
  MaxSequence = 4
  MaxTime = 8
  MaxLost = 1
  MaySuspend = TRUE
INVARIANTS TypeOK NeverRefused Conservation EveryJourneyAccounted
PROPERTIES SuspensionFreezes
CHECK_DEADLOCK FALSE
