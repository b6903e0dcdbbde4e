CONSTANTS
  p = p
  Project = {p}
  MaxConversations = 2
  MaxSessions = 2
  MaxSubmits = 3
  MaxLost = 1
  MaxRepairs = 1
  MaxRejections = 1
  Nothing = Nothing
SPECIFICATION FairSpec
INVARIANTS TranscriptKept AnswersItsQuestion
PROPERTIES BusyEnds SessionsEnd
CHECK_DEADLOCK FALSE
