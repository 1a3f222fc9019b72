CONSTANTS
  r = r
  s = s
  i = i
  b1 = b1
  b2 = b2
  NoTask = NoTask
  Task = {r, s, i}
  Idle = i
  MaxPriority = 2
  InitPriority <- MCInitPriority
  Timer = {r, s, i}
  TimerPriority <- MCInitPriority
  InitTick <- MCInitTick
  SleepTicks = {}
  MaxNest = 0
  User = {r, s}
  QueueOwner = {s}
  Owner = r
  Sender = {s}
  Block = {b1, b2}
  Timeouts = {0, 1}
  IsrSends = TRUE
  MaxPosts = 4
SPECIFICATION MCSpec
INVARIANTS
  BlocksKept
  InOrderOnce
  MarkIsFresh
  LateOnlyIfMissed
PROPERTY TasksKeepOut
