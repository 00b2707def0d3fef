SPECIFICATION Spec
SYMMETRY Symmetry
CONSTANTS
  None = None
  Kinds = {"issue", "claim", "prepare"}
  r1 = r1
  r2 = r2
  c1 = c1
  c2 = c2
  Request = {r1, r2}
  Call = {c1, c2}
  MaxEpoch = 2
  IssuingTimeout = 1
  AuthorizationLife = 1
  ClaimWindow = 1
  ReceiptLife = 1
  RetryDelays <- OneDelay
  LastIssue = 0
  MaxTime = 0
  MaxCrashes = 0
INVARIANTS OneClaimPerEpoch PreparedOnce
