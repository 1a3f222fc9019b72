CONSTANTS
  a = a
  b = b
  c = c
  i = i
  NoTask = NoTask
  Task = {a, b, c, i}
  Idle = i
  MaxPriority = 3
  InitPriority <- MCInitPriority
  Timer = {a, b, c, i}
  TimerPriority <- MCInitPriority
  InitTick <- MCInitTick
  SleepTicks = {1, 2}
  MaxNest = 1
SPECIFICATION Spec
INVARIANTS
  TypeOK
  QueuesExact
  BitmapIsExact
  HighestRuns
  NoRunWhileBlocked
  TimeoutFindsWaiter
  ReaperSafe
PROPERTIES
  FifoService
  LockPins
