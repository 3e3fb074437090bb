SPECIFICATION Spec
CONSTANTS
  Callers = {p1, p2}
  Keys = {k1}
  None = None
  Asked = {"DISCOVERED", "CANCELLED"}
  AppendKinds = {"SOURCE_DISCOVERY", "APPROVED_MAPPING_PLAN"}
  MaxCommits = 4
  Pipelined = FALSE
SYMMETRY Symmetry
INVARIANTS
  TypeOK
  AuditIsHistory
PROPERTIES
  LegalTransitions
  MadeFromLatest
  DiscoveryAdvances
  ExecutesStagedPlan
  ImplementsCommandLog
