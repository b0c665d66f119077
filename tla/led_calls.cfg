SPECIFICATION FairSpec
CONSTANTS
  Length = 4
  Colors <- MCColors
  Given = {0, 1, 5}
  Sequences = {1, 2, 5}
  Chips = {"WS2812", "SK6812RGBW"}
  MayFail = TRUE
INVARIANTS TypeOK StaysInBuffer ShowsGoal
PROPERTIES BufferStable CallsReturn
CHECK_DEADLOCK FALSE
