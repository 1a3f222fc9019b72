CONSTANTS
  a = a
  b = b
  c = c
  i = i
  NoTask = NoTask
  Task = {a, b, c, i}
  Idle = i
  MaxPriority = 3
  InitPriority <- MCInitPriority
  Timer = {a, b, c, i}
  TimerPriority <- MCInitPriority
  InitTick <- MCInitTick
  SleepTicks = {}
  MaxNest = 0
  Consumer = {a, b}
  Sender = {b, c}
  Timeouts = {}
  Untimed = TRUE
  CountMod = 4
  MaxSends = 3
  MaxTaken = 4
SPECIFICATION SemSpec
INVARIANTS
  Conserved
PROPERTIES
  Spec
