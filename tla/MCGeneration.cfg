CONSTANTS
  Callers = {"main", "turner"}
  Requests = {"initialize", "config", "account", "thread", "turn"}
  Notices = {"initialized"}
  QueueSize = 1
  EventSize = 1
  WebSearch = TRUE
  MaxEvents = 3
SPECIFICATION Spec
INVARIANTS AnswerIsWhole NothingLeftBehind
PROPERTIES Ends
CHECK_DEADLOCK FALSE
