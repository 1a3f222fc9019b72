CONSTANTS
  a = a
  b = b
  c = c
  i = i
  NoTask = NoTask
  Task = {a, b, c, i}
  Idle = i
  MaxPriority = 3
  InitPriority <- MCInitPriority
  Timer = {a, b, c, i}
  TimerPriority <- MCInitPriority
  InitTick <- MCInitTick
  SleepTicks = {1}
  MaxNest = 0
  User = {a, b}
  QueueOwner = {a, b, c}
SPECIFICATION MCSpec
INVARIANTS
  InsideOwns
  
