SPECIFICATION Spec
CONSTANTS
  Names <- MCNames
  Spelling <- MCSpelling
  SourceTables <- MCSourceTables
  TargetTables <- MCTargetTables
  Expressions <- MCExpressions
  Catalogs <- MCCatalogs
  TargetCatalog = 1
  MaxRediscoveries = 1
INVARIANT LowConfidenceIsOverridden
CHECK_DEADLOCK FALSE
