CONSTANTS
  Steps <- MC_Steps
  EnabledSets <- MC_EnabledSets
  FixedNoises = {0, 1}
  NotMemoized = NotMemoized
  MaxSource = 4
  MaxCharged = 2
SPECIFICATION Spec
INVARIANTS
  MemoryIsExact
  TimeIsBounded
PROPERTIES
  ReadingsHardlyGoBack
CHECK_DEADLOCK FALSE
