SPECIFICATION Spec
CONSTANTS
  Keys = {k1, k2, k3}
  Values = {v1, v2}
  NULL = NULL
  MaxLen = 3
  MayFail = FALSE
  AbsentKeys = TRUE
  AssertsEnabled = FALSE
INVARIANTS SearchReturns
