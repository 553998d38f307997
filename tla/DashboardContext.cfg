SPECIFICATION Spec
CONSTANTS
  Mark = {m1}
  None = None
  Faults = {"init", "read", "attach", "name"}
  MaxMoments = 3
  MaxQuestions = 1
INVARIANTS
  ShownFollowsSelection
  QuestionMeetsSelection
PROPERTY NameReturns
CHECK_DEADLOCK FALSE
