CONSTANTS
  Clients = {a, b}
  Blank = Blank
  BufCells = 2
  MaxCells = 2
  MaxBlocks = 2
  Sessions = {s1, s2}
  blocksize = 1
  BufSize = 2
  MaxWritten = 2
  None = None
  FileSize = 4
  BufSizes = {0, 1, 2}
  Errno = 2
  SizeT = 16
  IntMax = 3
  Size = 4096
  kMaxNumericSize = 32
  PathLen = 22
  Slashes = {4, 9}
  Line = 42
  StrLens <- MCStrLens
  Ints <- MCInts
  Doubles = {1, 19}
  MaxPieces = 3
  Names <- MCNames
  OtherNames <- MCOtherNames
  Payloads <- MCPayloads
SPECIFICATION FairSpec
INVARIANT TypeOK
INVARIANT LossAccounted
INVARIANT SharedBufferIntact
INVARIANT ResultSound
INVARIANT PrintedIsSize
INVARIANT LineSound
INVARIANT FrameReadable
PROPERTY GetsThere
\* Every program but chargen's timer comes to an end.
CHECK_DEADLOCK FALSE
