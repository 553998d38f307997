CONSTANTS
  Worker = {w1, w2}
  None = None
  Faults = {"crash"}
  Paths = {"fast", "metadata", "generated"}
  WorkerFunction = TRUE
  LeaseSeconds = 1
  WorkerTimeout = 1
  ApiTimeout = 1
  EventMaxAge = 2
  TtlSeconds = 4
  MessageLimit = 2
  MaxRetries = 1
  MaxDuplicates = 1
  MaxClock = 4
SYMMETRY WorkerSymmetry
SPECIFICATION Spec
INVARIANTS SingleRunner AtMostOneTurn
PROPERTY ImplementsLifecycle
CHECK_DEADLOCK FALSE
