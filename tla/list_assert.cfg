SPECIFICATION SerialSpec
CONSTANTS
  Procs = {p1}
  Nodes = {n1, n2}
  Items = {a, b}
  Indices = {0}
  Ops = {"add", "remove"}
  NULL = NULL
  AssertsEnabled = TRUE
INVARIANTS NoFault
