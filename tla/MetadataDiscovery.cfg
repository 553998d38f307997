SPECIFICATION Spec
CONSTANTS
  Requests <- MCRequests
  Settings <- MCSettings
  Services <- MCServices
  Replies <- MCReplies
  MaxRuns = 4
  None = None
INVARIANTS
  HostedOnlyWhenAgreed
  ContentIsLabelled
  OptionsLead
PROPERTIES
  Settles
CHECK_DEADLOCK FALSE
