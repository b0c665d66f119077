SPECIFICATION CarefulSpec
CONSTANTS
  Tasks = {p1, p2}
  Nodes = {n1}
  Sinks = {s1}
  NULL = NULL
  AssertsEnabled = FALSE
  Levels = {3}
  DefaultLevel = 3
  MaxTime = 1
  SinksChange = FALSE
INVARIANTS TimestampCorrect
