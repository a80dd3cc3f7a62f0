CONSTANTS
  Radix = 3
  HeaderLen = 1
  kMaxMessageSize = 1
  Clients = {a, b}
  Scripts <- MCScripts
  MaxRead = 2
  CodecSize = 4
  EncodeSize = 2
  SendSize = 4
  me = a
  Typed <- MCTyped
  Junk <- MCJunk
  ClientBuf = 2
  MaxTexts = 2
SPECIFICATION FairSession
INVARIANT ClientTypeOK
INVARIANT WireIntact
INVARIANT PrintedInOrder
INVARIANT FirstLineEchoes
PROPERTY LinesComeBack
PROPERTY EndsWithServer
\* Both processes may end, or wait for ever for a user who types no more.
CHECK_DEADLOCK FALSE
