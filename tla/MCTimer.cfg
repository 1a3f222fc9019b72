CONSTANTS
  x = x
  y = y
  z = z
  Timer = {x, y, z}
  TimerPriority <- MCPriority
  TickMax = 3
  U64Max = 11
  InitTicks = {1, 2, 3}
  Horizon = 7
SPECIFICATION Spec
INVARIANTS
  BoundedLateness
PROPERTIES
  Countdown
  ServedInOrder
