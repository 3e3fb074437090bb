SPECIFICATION Spec
CONSTANTS
  Workers = {w1}
  Jobs = {j1}
  None = None
  MaxBatches = 1
  MaxForeign = 0
  Polling = FALSE
PROPERTIES
  AckedMeansHandled
CHECK_DEADLOCK FALSE
