CONSTANTS
  Attempt = {a1, a2}
  Poll = {p1, p2}
  Call = {c1, c2}
  None = None
  Faults = {"network", "store", "cognito", "crash", "stale"}
  WaitTimeout = 1
  TransactionTtl = 1
  MaxCodes = 2
SPECIFICATION MCSpec
INVARIANTS SigningInIsLive NoErrorAfterSession
PROPERTIES SessionStays Settles
CHECK_DEADLOCK FALSE
