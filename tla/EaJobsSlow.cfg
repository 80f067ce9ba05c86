SPECIFICATION Spec
CONSTANTS
  w1 = w1
  w2 = w2
  Workers = {w1, w2}
  Jobs = {1, 2}
  Batch = 1
  MaxAttempts = 2
  MaySlow = TRUE
  MaxCrashes = 0
  MaxRetries = 1
SYMMETRY Symmetry
PROPERTY OverlapsKeepDone
CHECK_DEADLOCK FALSE
