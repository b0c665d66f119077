SPECIFICATION FairSpec
CONSTANTS
  EventTasks = {e1}
  Threads = {t1, t2}
  NoTask = NoTask
  Handlers = {h1}
  NoHandler = NoHandler
  MayFail = {}
  EarlyEvents = FALSE
  QueueLength = 3
PROPERTIES FollowsNetwork HandlersReturn
