SPECIFICATION Spec
CONSTANTS
  Callers = {p1}
  Keys = {k1}
  Attempts = {a1}
  None = None
  MaxVersion = 2
  Pipelined = TRUE
  RollbackProven = TRUE
PROPERTIES
  ClaimUsesLatestPlan
