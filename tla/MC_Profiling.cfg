CONSTANTS
  UserFunctions = {f}
  InternalFunctions = {}
  ProfilerStart = ProfilerStart
  ProfilerStop = ProfilerStop
  EngineRuns = {gc}
  RequestShutdown = RequestShutdown
  NoName = NoName
  StackCapacity = 3
  CanBail = TRUE
  MaxRequests = 2
  MaxReports = 2
  MaxSpans = 2
  MaxNesting = 3
SPECIFICATION Spec
INVARIANTS
  TypeOK
  EveryPopHasAPush
  ProfilerFollowsStack
  SpansAreWhole
PROPERTIES
  ReportsAreFinished
  OnlyErrorsMisname
CHECK_DEADLOCK FALSE
