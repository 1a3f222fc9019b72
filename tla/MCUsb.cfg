CONSTANTS
  Mps = 2
  Blocks = 2
  Desc = {3, 4}
  Wanted = {2, 6}
  MaxSetups = 3
  MaxResets = 1
  MaxData = 1
SPECIFICATION UsbSpec
INVARIANTS
  LatestHandled
  BufferOwned
  ExactData
  EndpointServed

  
CHECK_DEADLOCK FALSE
