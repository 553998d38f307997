SPECIFICATION LookupSpec
CONSTANTS
  d1 = d1
  d2 = d2
  Luids = {d1, d2}
  Questions <- MCQuestions
  Dashboards <- MCDashboards
  Servers <- MCServers
  HttpContexts <- MCHttpContexts
  MaxToolCalls = 3
  PlanLength = 1
  MaxThrows = 1
  None = None
INVARIANT CallsWithinBudget
CHECK_DEADLOCK FALSE
