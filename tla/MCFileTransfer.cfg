CONSTANTS
  Clients = {a, b}
  FILE_BUF = 2
  f = f
  g = g
  h = h
  File <- MCFile
  NUL = NUL
  JUNK = JUNK
SPECIFICATION FairSpec
INVARIANT TypeOK
INVARIANT OneRequest
INVARIANT CleanUnlessFailed
INVARIANT SentInOrder
PROPERTY Finishes
\* The server waits for ever once every client was served.
CHECK_DEADLOCK FALSE
