CONSTANTS
  t1 = t1
  Tunnels = {t1, t2}
  MAXSIZE = 3
  HandleSize = 1
  ClientCells <- MCClientCells
  ServerCells <- MCServerCells
SPECIFICATION Spec
INVARIANT TypeOK
INVARIANT Lifecycle
INVARIANT ForwardExact
\* Nothing happens once both peers are silent or the process is gone.
CHECK_DEADLOCK FALSE
