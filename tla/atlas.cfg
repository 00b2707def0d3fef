SPECIFICATION FairSpec
CONSTANTS
  None = None
  o1 = o1
  o2 = o2
  b1 = b1
  b2 = b2
  Operator = {o1, o2}
  Artifact = {b1, b2}
  Content <- MCContent
  BatchRows <- MCBatchRows
  MaxFlight = 1
  MaxLost = 1
  MaxManual = 1
INVARIANT VerifiedOnce
INVARIANT ReadyIsApproved
PROPERTY ImportGetsReady
CHECK_DEADLOCK FALSE
