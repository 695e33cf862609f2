CONSTANTS
  Metrics <- MC_Metrics
  WallTime = "wt"
  ZeMemory = "zm"
  Names <- MC_Names
  Null = Null
  Bits <- MC_Bits
  Hosts <- MC_Hosts
  Taken <- MC_Taken
  Blocks = {b1, b2}
  Sizes = {1, 6}
  IntMax = 3
  MaxHeapSteps = 3
  MaxCompiled = 1
  MaxDeclared = 1
  MaxErrors = 1
  ZTS = FALSE
  Inis <- MC_Inis
  Environments <- MC_Environments
  Clients <- MC_Clients
SYMMETRY MC_Symmetry
SPECIFICATION Spec
INVARIANTS
  TypeOK
  ConfigIsAsked
  EngineIsGivenBack
  OnlyUiStopsScript
  AllocationsAreCounted
