SPECIFICATION Spec
CONSTANTS
  N = 5
  BlockSize = 8
  Header = 2
  Sizes = {6, 7, 15}
  Pid = {0, 1, 2}
INVARIANT Tiled
PROPERTY IsHeap
CHECK_DEADLOCK FALSE
