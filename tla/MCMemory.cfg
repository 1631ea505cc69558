\* Six words of memory for three frames, and two units of gas.  A range of 49
\* bytes is two words, so that a frame with arguments in memory leaves its
\* callee room to copy them; a range that begins at byte 49 ends in the fourth
\* word.  One frame can pay for five words, two for six and three for seven, so
\* that gas and the limit both bind.  The price of an opcode itself is 0: a call
\* already passes on any amount of gas.  The transaction ends with its first
\* frame.
CHECK_DEADLOCK FALSE
SPECIFICATION MemorySpec
CONSTANTS
  Operands = {0, 49, 112, 200}
  USIZE_MAX = 199
  MemoryLimit = 192
  LimitFeature = TRUE
  GasLimit = 2
  Costs = {0}
  MaxDepth = 3
INVARIANTS
  PoolWithinLimit
  AccessInBounds
  ExpansionPaid
  PoolPaidFor
