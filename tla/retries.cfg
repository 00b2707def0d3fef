SPECIFICATION Spec
CONSTANTS
  None = None
  food = food
  hall = hall
  mine = mine
  field = field
  n1 = n1
  n2 = n2
  Resource = {food}
  Building = {hall}
  Node = {n1, n2}
  Location = {field}
  Site = {s1}
  RequestKey = {k1, k2}
  MaxLevel = 1
  BaseCost <- MCBaseCost
  CostMultiplier <- MCCostMultiplier
  BuildDuration <- MCBuildDuration
  GatherDuration = {1}
  GatherQuantum = 1
  BalanceCap = 3
  Matching <- MCMatching
  Barracks = hall
  Cathedral = hall
  BaseYield = 1
  YieldPerLevel = 1
  BaseTravel = 2
  BpsPerLevel = 5000
  MaxEdges = 1
  MaxReceipts = 1
  U64Max = 20
  WorkerCount = 1
  NodesAt <- MCTwoNodes
  ResourceAt <- MCResourceAt
  EdgesTo <- MCEdgesTo
  MaxSequence = 5
  MaxTime = 4
  MaxLost = 0
  MaySuspend = FALSE
PROPERTIES ImplementsCommandLog
