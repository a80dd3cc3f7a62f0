\* The assertion of makeSpace(), asked of every request that reaches it.
CONSTANTS
  Radix = 2
  HeaderLen = 2
  Buffers = {x}
  InitialSize = 2
  MaxLen = 2
  MaxSize = 4
SPECIFICATION Spec
INVARIANT MakeSpaceKeepsReadable
\* An aborted process takes no further step.
CHECK_DEADLOCK FALSE
