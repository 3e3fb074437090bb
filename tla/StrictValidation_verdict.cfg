SPECIFICATION Spec
CONSTANTS
  Keys <- MCKeys
  Cells <- MCCells
  Cell = Cell
  Other = Other
  Cast <- MCCast
  Null = Null
  Absent = Absent
  Unavailable = Unavailable
  Sources <- MCSources
  Setups <- MCSetups
  MaxWrites = 2
INVARIANTS TypeOK QuietVerdictIsRight AppendedTablesAreReadWhole
CHECK_DEADLOCK FALSE
