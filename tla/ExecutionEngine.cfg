CONSTANTS
  MaxSteps = 3
  Offers = {"no_tool", "unnamed", "missing", "unbound", "ready"}
  Budgets = {1, 2}
  Usages = {0, 1}
  None = None
SPECIFICATION FairSpec
INVARIANTS BudgetHeld NothingAfterStop OutcomeIsHonest
PROPERTY Settles
CHECK_DEADLOCK FALSE
