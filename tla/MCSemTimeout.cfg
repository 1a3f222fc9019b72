CONSTANTS
  a = a
  b = b
  c = c
  i = i
  NoTask = NoTask
  Task = {a, b, i}
  Idle = i
  MaxPriority = 3
  InitPriority <- MCInitPriority
  Timer = {a, b, i}
  TimerPriority <- MCInitPriority
  InitTick <- MCInitTick
  SleepTicks = {}
  MaxNest = 0
  Consumer = {a}
  Sender = {b}
  Timeouts = {1, 2}
  Untimed = TRUE
  CountMod = 256
  MaxSends = 3
  MaxTaken = 3
SPECIFICATION SemSpec
INVARIANTS
  NoUnitMade
  WaitersInside
  QueuesExact
