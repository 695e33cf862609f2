CONSTANTS
  Steps <- MC_Steps
  EnabledSets <- MC_EnabledSets
  FixedNoises = {0}
  NotMemoized = NotMemoized
  MaxSource = 3
  MaxCharged = 2
SPECIFICATION Spec
INVARIANTS
  BytesReadAreMeasured
CHECK_DEADLOCK FALSE
