SPECIFICATION FairSerialSpec
CONSTANTS
  Callers = {c1, c2, c3}
  Threads = {t1, t2}
  NoTask = NoTask
  Handlers = {h1, h2}
  NoHandler = NoHandler
  MayFail = {"listen", "task"}
INVARIANTS TypeOK ManagerExclusive ManagerLifetime StopMeansStopped NoFault AllOrNothing NoStrayNotification
PROPERTIES StopReturns ImplementsOwnership
