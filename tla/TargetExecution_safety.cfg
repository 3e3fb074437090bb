SPECIFICATION Spec
CONSTANTS
  Callers = {p1, p2}
  Keys = {k1, k2}
  Attempts = {a1, a2}
  None = None
  MaxVersion = 3
  Pipelined = FALSE
  RollbackProven = TRUE
SYMMETRY Symmetry
INVARIANTS
  TypeOK
  ClaimDiscipline
  AtMostOneCommit
  RowMatchesAttempts
PROPERTIES
  ImplementsWriteOnce
  ClaimUsesLatestPlan
