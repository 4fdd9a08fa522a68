\* A buffer of three points, batches of two; the timer and one more flush at a time.
CONSTANTS
  Runner = runner
  Flushers = {f1}
  BatchSize = 2
  MaxLines = 3
  MaxPoints = 5
  MaxOutages = 2
  MaxEdits = 1
SPECIFICATION Spec
CHECK_DEADLOCK FALSE
PROPERTIES
  CapDropsOldest
  PointsArrive
