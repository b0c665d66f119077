SPECIFICATION Spec
CONSTANTS
  Length = 3
  Colors <- MCColors
  Given = {1}
  Sequences = {2}
  Chips = {"SK6812RGBW"}
  MayFail = FALSE
INVARIANTS StaysInBuffer
CHECK_DEADLOCK FALSE
