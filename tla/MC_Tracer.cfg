CONSTANTS
  a = a
  b = b
  c = c
  NoEntry = NoEntry
  Functions <- MC_Functions
  StackCapacity = 4
  MaxDepthSetting = 3
  FuncCapacity = 2
  Deltas <- MC_Deltas
  MaxCalled = 4
  MaxNesting = 4
SPECIFICATION Spec
SYMMETRY MC_Symmetry
INVARIANTS
  TypeOK
  WritesInBounds
  EventsAreBracketed
PROPERTIES
  ImplementsLedger
  ImplementsExclusive
CHECK_DEADLOCK FALSE
