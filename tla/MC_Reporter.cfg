CONSTANTS
  BUFFER_CAPACITY = 3
  BUILDER_CAPACITY = 5
  RESERVE = 2
  RowSizes = {2, 3}
  Notes = {n1}
  NoNote = NoNote
  MaxEvents <- MC_MaxEvents
  MaxReports = 2
SPECIFICATION Spec
INVARIANTS
  TypeOK
  EventsAreReportedOnce
  FinishedReportIsWhole
  SmallRowsAreWhole
  SafeTraceIsDurable
PROPERTIES
  ImplementsReportFiles
CHECK_DEADLOCK FALSE
