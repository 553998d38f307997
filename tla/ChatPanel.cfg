CONSTANTS
  MaxQuestions = 2
  MaxSession = 2
  None = None
  Faults = {"post", "poll", "stale", "reload"}
  Sites = {{"together"}, {"auth"}, {"auth", "together"}, {"alone", "together"}}
  NotionFaults = {"blocked", "start", "refused", "read"}
  MaxClicks = 2
  MaxReadings = 1
SPECIFICATION MCSpec
INVARIANTS
  ConversationInOrder LoadingIsLive SavesWhatIsShown AnswersArrive
  ConnectedIsShown AttemptIsWatched
PROPERTY Settles
CHECK_DEADLOCK FALSE
