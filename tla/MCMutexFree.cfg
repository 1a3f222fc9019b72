CONSTANTS
  a = a
  b = b
  c = c
  i = i
  NoTask = NoTask
  Task = {a, b, i}
  Idle = i
  MaxPriority = 2
  InitPriority <- MCSamePriority
  Timer = {a, b, i}
  TimerPriority <- MCSamePriority
  InitTick <- MCInitTick
  SleepTicks = {1}
  MaxNest = 0
  User = {a, b}
  QueueOwner = {}
SPECIFICATION MutexSpec
INVARIANTS
  OutsideOwnsNot
