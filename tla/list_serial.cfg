SPECIFICATION SerialSpec
CONSTANTS
  Procs = {p1, p2}
  Nodes = {n1, n2, n3}
  Items = {a, b}
  Indices = {0, 1, 3}
  Ops = {"add", "remove", "remove_at", "delete"}
  NULL = NULL
  AssertsEnabled = FALSE
INVARIANTS TypeOK NoFault WellFormed CountCorrect NoLeak InPlace
PROPERTIES ImplementsList MissesNone
