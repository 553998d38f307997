SPECIFICATION Spec
CONSTANTS
  d1 = d1
  d2 = d2
  Luids = {d1, d2}
  Questions <- MCQuestions
  Dashboards <- MCDashboards
  Servers <- MCServers
  HttpContexts <- MCHttpContexts
  MaxToolCalls = 3
  PlanLength = 1
  MaxThrows = 1
  MaxPasses = 2
  PlannedIntents = {"data_analysis"}
  None = None
INVARIANTS
  NoToolAnswersTwice
  BudgetOverrun
  
  QueryTried
  RankingBacked
  EstablishedIsTold
PROPERTIES
  AnswerSettles
CHECK_DEADLOCK FALSE
