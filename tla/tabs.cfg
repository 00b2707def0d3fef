SPECIFICATION Spec
SYMMETRY Symmetry
CONSTANTS
  None = None
  r1 = r1
  r2 = r2
  Request = {r1, r2}
  Ttl = 3
  Grace = 1
  MaxGeneration = 3
  MaxEpoch = 2
  MaxTime = 3
  MaxLost = 1
INVARIANTS TypeOK OneBehindAtMost
PROPERTIES OneSuccessor EpochWasHeld OnlyForward
CHECK_DEADLOCK FALSE
