SPECIFICATION Spec
CONSTANTS
  Callers = {p1, p2}
  Keys = {k1, k2}
  Attempts = {a1, a2}
  None = None
  Batches = 2
  MaxVersion = 3
  Pipelined = FALSE
  LateStatements = TRUE
  MayCrash = TRUE
SYMMETRY Symmetry
INVARIANTS
  TypeOK
  LoadDiscipline
  RowMatchesLoads
PROPERTIES
  ImplementsCertifiedCopy
  ClaimsLatestApproval
