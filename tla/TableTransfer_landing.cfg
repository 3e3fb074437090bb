SPECIFICATION Spec
CONSTANTS
  Keys <- MCKeys
  Vals <- MCVals
  NoRow = NoRow
  NoTable = NoTable
  Unknown = Unknown
  Unsupported = Unsupported
  Tables <- MCTables
  Setups <- MCViewSetups
  MinimumSourceRows = 2
  Partitions = 2
  TaskAttempts = 2
  MaxWrites = 2
INVARIANT LandingIsLossless
CHECK_DEADLOCK FALSE
