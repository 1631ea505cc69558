\* The build of the dev node, which leaves the feature memory_limit out.  Four
\* words are the limit, and the gas of a transaction pays for more, as 30 million
\* gas pays for more than 8 MB.  The transaction ends with its first frame.
CHECK_DEADLOCK FALSE
SPECIFICATION MemorySpec
CONSTANTS
  Operands = {0, 65, 200}
  USIZE_MAX = 199
  MemoryLimit = 128
  LimitFeature = FALSE
  GasLimit = 3
  Costs = {0, 1}
  MaxDepth = 3
INVARIANTS
  PoolWithinLimit
