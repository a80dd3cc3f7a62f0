\* Two sessions, read buffers larger than the block at both ends.
CONSTANTS
  s1 = s1
  Sessions = {s1, s2}
  block_size = 1
  ReadSize = 2
  buf_size = 2
  Rounds = 2
  MaxWritten <- MCMaxWritten
  None = None
SPECIFICATION FairSpec
INVARIANT TypeOK
INVARIANT Conserved
INVARIANT ResultLost
PROPERTY Ends
\* A client that has ended, or waits for a lost session, takes no step.
CHECK_DEADLOCK FALSE
