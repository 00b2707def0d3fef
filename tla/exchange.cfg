SPECIFICATION Spec
SYMMETRY Symmetry
CONSTANTS
  a1 = a1
  a2 = a2
  a3 = a3
  Attempt = {a1, a2, a3}
  ExpiresAt = 2
  MaxTime = 3
INVARIANTS OneClaim NotForgotten
PROPERTY SessionsConfirmed
CHECK_DEADLOCK FALSE
