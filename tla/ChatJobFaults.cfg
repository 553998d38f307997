CONSTANTS
  Worker = {w1, w2}
  None = None
  Faults = {"crash", "invoke", "store"}
  Paths = {"fast"}
  WorkerFunction = TRUE
  LeaseSeconds = 1
  WorkerTimeout = 2
  ApiTimeout = 0
  EventMaxAge = 2
  TtlSeconds = 4
  MessageLimit = 2
  MaxRetries = 1
  MaxDuplicates = 1
  MaxClock = 5
SYMMETRY WorkerSymmetry
SPECIFICATION Spec
INVARIANTS ResultIsSaved NeverBare
CHECK_DEADLOCK FALSE
