CONSTANTS
  Request = {r1, r2, r3}
  Grant = {g1}
  None = None
  Faults = {"lost", "stale"}
  Kinds = {"callback", "save", "disconnect"}
  Alone = {}
  Rotation = {TRUE}
  Defaults = 2
SYMMETRY Interchangeable
SPECIFICATION Spec
INVARIANTS NewestTokenKept OneIdeaOnePage
CHECK_DEADLOCK FALSE
