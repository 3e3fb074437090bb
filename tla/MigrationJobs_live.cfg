SPECIFICATION LiveSpec
CONSTANTS
  Workers = {w1, w2}
  Jobs = {j1, j2}
  None = None
  MaxBatches = 2
  MaxForeign = 0
  Polling = FALSE
PROPERTIES
  EveryJobConcludes
CHECK_DEADLOCK FALSE
