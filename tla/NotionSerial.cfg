CONSTANTS
  Request = {r1, r2, r3}
  Grant = {g1, g2}
  None = None
  Faults = {"notion", "crash", "store", "late"}
  Kinds = {"callback", "save", "settings", "disconnect"}
  Alone = {"save", "callback", "disconnect"}
  Rotation = {TRUE, FALSE}
  Defaults = 1
SYMMETRY Interchangeable
SPECIFICATION Spec
INVARIANT NoNeedlessReconnect
PROPERTY OnlyCallbackConnects
CHECK_DEADLOCK FALSE
