CONSTANTS
  a = a
  b = b
  c = c
  i = i
  NoTask = NoTask
  Task = {a, b, i}
  Idle = i
  MaxPriority = 2
  InitPriority <- MCSamePriority
  Timer = {a, b, i}
  TimerPriority <- MCSamePriority
  InitTick <- MCInitTick
  SleepTicks = {1, 2}
  MaxNest = 1
SPECIFICATION FairSpec
PROPERTIES
  SleepersWake
  RoundRobin
