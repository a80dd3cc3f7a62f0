CONSTANTS
  Radix = 3
  HeaderLen = 2
  kMaxMessageSize = 1
  Clients = {a, b}
  Scripts <- MCScripts
  MaxRead = 3
  CodecSize = 7
  EncodeSize = 3
  SendSize = 4
SPECIFICATION FairSpec
INVARIANT TypeOK
INVARIANT ConnsMatchHandles
INVARIANT SendsIntact
INVARIANT InOrder
PROPERTY FrameCodecSpec
PROPERTY EveryClientServed
\* The server waits for events for ever once every peer is silent.
CHECK_DEADLOCK FALSE
