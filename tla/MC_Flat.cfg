CONSTANTS
  a = a
  b = b
  c = c
  d = d
  Functions = {a, b, c, d}
  NoEntry = NoEntry
  NoFunction = NoFunction
  CAPACITY = 3
  BUCKET_SIZE = 1
  POOL_BLOCK_SIZE = 5
  Hash <- MC_Hash
  Sizes <- MC_Sizes
  Limits = {1, 2}
  MetricCounts = {1, 2}
  Costs <- MC_Costs
  ROW_MAX_CELLS = 4
  MaxReports = 2
  MaxCalls <- MC_MaxCalls
  MaxWrites = 2
SPECIFICATION Spec
INVARIANTS
  TypeOK
  NamesAreDisjoint
  ScreenShowsReports
  StdioIsGivenBack
  MostCostlyIsFirst
PROPERTY
  ImplementsEntryTable
CHECK_DEADLOCK FALSE
