SPECIFICATION CarefulSpec
CONSTANTS
  Tasks = {p1, p2}
  Nodes = {n1, n2, n3}
  Sinks = {s1, s2, s3}
  NULL = NULL
  AssertsEnabled = FALSE
  Levels = {1, 5}
  DefaultLevel = 3
  MaxTime = 1
  SinksChange = TRUE
INVARIANTS TypeOK SinkListSafe Delivered
SYMMETRY Symmetry
