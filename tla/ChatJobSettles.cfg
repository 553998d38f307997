CONSTANTS
  Worker = {w1, w2}
  None = None
  Faults = {"stale"}
  Paths = {"fast"}
  WorkerFunction = TRUE
  LeaseSeconds = 1
  WorkerTimeout = 9
  ApiTimeout = 20
  EventMaxAge = 20
  TtlSeconds = 20
  MessageLimit = 3
  MaxRetries = 1
  MaxDuplicates = 1
  MaxClock = 2
SPECIFICATION FairSpec
INVARIANT ProgressInOrder
PROPERTY Settles
CHECK_DEADLOCK FALSE
