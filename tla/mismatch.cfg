SPECIFICATION Spec

CONSTANTS
  None = None
  r1 = r1
  r2 = r2
  Request = {r1, r2}
  Ttl = 2
  Grace = 1
  MaxGeneration = 3
  MaxEpoch = 2
  MaxTime = 2
  MaxLost = 1
PROPERTY RevokedOnMismatch
CHECK_DEADLOCK FALSE
