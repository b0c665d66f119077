SPECIFICATION Spec
CONSTANTS
  EventTasks = {e1, e2}
  Threads = {t1, t2}
  NoTask = NoTask
  Handlers = {h1}
  NoHandler = NoHandler
  MayFail = {"listen", "task", "register"}
  EarlyEvents = TRUE
  QueueLength = 2
INVARIANTS TypeOK ServerSafe
PROPERTIES UsesServerSerially
