SPECIFICATION Spec
CONSTANTS
  Callers = {p1, p2}
  Keys = {k1, k2}
  Runs = {r1, r2}
  None = None
  MaxVersion = 3
  Pipelined = FALSE
  Cleaners = 1
SYMMETRY Symmetry
INVARIANTS
  TypeOK
  VerdictDiscipline
  RowMatchesRuns
PROPERTIES
  ImplementsOneVerdict
