SPECIFICATION FairSpec
CONSTANTS
  None = None
  a1 = a1
  a2 = a2
  t1 = t1
  t2 = t2
  t3 = t3
  App = {a1}
  Token = {t1, t2}
  AppOf <- MCAppOf
  RecoveryId = {i1}
  MaxRequest = 1
  MaxAttempts = 2
  MaxFailures = 1
  MaxSeen = 1
  MaxRevoked = 2
  DeliveryLife = 2
  SubscriptionLife = 3
  RetryDelays <- OneDelay
  Skew = 1
  LastCall = 1
  MaxTime = 4
  MaxDeploys = 1
  MaxCrashes = 1
INVARIANT TypeOK
PROPERTIES OneLiveTarget ReceiptsWin NothingStays
CHECK_DEADLOCK FALSE
