CONSTANTS
  Threads = {p1, p2}
  Timeout = 2
  MaxCalls = 3
  MaxTime = 2
  NoCall = NoCall
  MaxTasks = 3
  MaxSessions = 2
  HttpTimeout = 1
  NoTask = NoTask
  Paths = {"a", "b"}
  Patterns = {{"a", "b"}, {"b"}}
  Servlets = {s1, s2}
  ServerSids = {1}
  MaxRequests = 2
  MaxChanges = 3
  None = None
SPECIFICATION FairAll
CHECK_DEADLOCK FALSE
INVARIANTS OneOutcome AnswersMatch RespondsOnce
PROPERTIES AnswerCompletes
