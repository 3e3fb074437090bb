SPECIFICATION Spec
CONSTANTS
  Workers = {w1, w2}
  Jobs = {j1, j2}
  None = None
  MaxBatches = 1
  MaxForeign = 1
  Polling = TRUE
SYMMETRY Symmetry
INVARIANTS
  TypeOK
  JobDiscipline
  RowMatchesJobs
PROPERTIES
  ImplementsLedger
CHECK_DEADLOCK FALSE
