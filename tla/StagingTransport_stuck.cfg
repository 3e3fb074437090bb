SPECIFICATION LiveSpec
CONSTANTS
  Callers = {p1, p2}
  Keys = {k1}
  Attempts = {a1, a2}
  None = None
  Batches = 2
  MaxVersion = 3
  Pipelined = FALSE
  LateStatements = FALSE
  MayCrash = FALSE
PROPERTIES
  ProvedCleanupReturns
