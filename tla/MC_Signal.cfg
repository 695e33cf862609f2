CONSTANTS
  Builtins = TRUE
  MaxUserDepth = 2
  MaxSignals = 2
SPECIFICATION FairSpec
INVARIANTS
  AbortedReportIsWhole
PROPERTIES
  ProfilerIsNotInterrupted
  SignalEndsProcess
CHECK_DEADLOCK FALSE
