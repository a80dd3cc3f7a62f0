CONSTANTS
  t1 = t1
  Tunnels = {t1}
  MAXSIZE = 4
  HandleSize = 1
  ClientCells <- ShortCells
  ServerCells <- TwoAnswers
SPECIFICATION Spec
INVARIANT RelayInOrder
\* Nothing happens once both peers are silent or the process is gone.
CHECK_DEADLOCK FALSE
