SPECIFICATION FairSpec
CONSTANTS
  None = None
  s1 = s1
  s2 = s2
  Session = {s1, s2}
  Ordered = {s1}
  MaxReceipts = 1
  U64Max = 20
  MaxIntents = 2
  MaxRevision = 2
  MaxFaults = 2
  MaxQueue = 2
INVARIANTS TypeOK OncePerIntent ConfirmedIsDone ReadyIsCurrent RefusedIsNever
PROPERTIES PendingResolves PlayerCanAct
CHECK_DEADLOCK FALSE
