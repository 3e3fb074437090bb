SPECIFICATION LiveSpec
CONSTANTS
  Callers = {p1, p2}
  Keys = {k1}
  Attempts = {a1}
  None = None
  MaxVersion = 2
  Pipelined = FALSE
  RollbackProven = TRUE
  MaxFaults = 2
PROPERTIES
  ExecutionSettles
