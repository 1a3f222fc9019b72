CONSTANTS
  u = u
  v = v
  Byte <- MCByte
  Size = 3
  MaxCall = 2
  Writer = {u, v}
  DmaSize = 2
  MaxMsg = 2
  HandlerLogs = TRUE
  MaxBytes = 4
SPECIFICATION LogSpec
INVARIANTS
  Delivered
PROPERTIES
  IsByteFifo
  Drains
CHECK_DEADLOCK FALSE
