SPECIFICATION Spec
CONSTANTS
  food = food
  hall = hall
  Resource = {food}
  Building = {hall}
  MaxLevel = 1
  BaseCost <- MCZeroCost
  CostMultiplier <- MCByLevel
  BuildDuration <- MCByLevel
  GatherDuration = {1, 2, 4, 5}
  GatherQuantum = 2
  BalanceCap = 10
  Matching <- MCMatching
  Barracks = hall
  Cathedral = hall
  BaseYield = 1
  YieldPerLevel = 2
  BaseTravel = 2
  BpsPerLevel = 5000
  MaxEdges = 3
  Terms <- MCTerms
  MaxTime = 20
PROPERTY FormulasFollowWalk
