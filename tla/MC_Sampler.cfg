CONSTANTS
  a = a
  b = b
  c = c
  NoEntry = NoEntry
  Functions <- MC_Functions
  Hash <- MC_Hash
  StackCapacity = 2
  MaxDepthSetting = 1
  FuncCapacity = 1
  Deltas <- MC_Deltas
  SamplerCapacity = 2
  MaxCalled = 3
  MaxNesting = 2
SPECIFICATION SamplerFairSpec
INVARIANTS
  SamplerTypeOK
  StackIsFollowed
PROPERTIES
  SamplingResumes
  DestroyCompletes
CHECK_DEADLOCK FALSE
