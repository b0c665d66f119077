SPECIFICATION Spec
CONSTANTS
  Days = {0, 58, 365, 424, 36524}
  Seconds = {35999, 46799, 86398}
  MaxElapsed = 2
  Cuts = {0, 3, 7}
  Addresses = {7, 63, 64}
  Lengths = {1, 2}
  Bytes = {18}
  MayFail = TRUE
INVARIANTS TypeOK ClockRuns RamKept
PROPERTIES TimeKept
