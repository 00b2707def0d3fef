SPECIFICATION FairSpec
CONSTANTS
  None = None
  Kinds = {"issue", "claim", "finish"}
  r1 = r1
  r2 = r2
  c1 = c1
  c2 = c2
  Request = {r1}
  Call = {c1}
  MaxEpoch = 1
  IssuingTimeout = 1
  AuthorizationLife = 2
  ClaimWindow = 2
  ReceiptLife = 1
  RetryDelays <- OneDelay
  LastIssue = 0
  MaxTime = 6
  MaxCrashes = 1
INVARIANTS TypeOK AlarmScheduled OutcomeIsTrue
PROPERTY RowsMoveOn
