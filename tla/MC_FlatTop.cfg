CONSTANTS
  a = a
  b = b
  c = c
  d = d
  Functions = {a, b, c}
  NoEntry = NoEntry
  NoFunction = NoFunction
  CAPACITY = 4
  BUCKET_SIZE = 4
  POOL_BLOCK_SIZE = 8
  Hash <- MC_Hash
  Sizes <- MC_Sizes
  Limits = {2}
  MetricCounts = {2}
  Costs <- MC_CostsTop
  ROW_MAX_CELLS = 16
  MaxReports = 1
  MaxCalls <- MC_MaxCallsTop
  MaxWrites = 0
SPECIFICATION Spec
INVARIANT
  TopIsListed
CHECK_DEADLOCK FALSE
