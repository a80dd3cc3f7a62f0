\* Two buffers of binary bytes: enough for growth, compaction and swap.
CONSTANTS
  Radix = 2
  HeaderLen = 2
  Buffers = {x, y}
  InitialSize = 2
  MaxLen = 2
  MaxSize = 4
SPECIFICATION Spec
INVARIANT TypeOK
INVARIANT AppendAbortsOnlyOnCompaction
PROPERTY FIFOSpec
\* An aborted process takes no further step.
CHECK_DEADLOCK FALSE
