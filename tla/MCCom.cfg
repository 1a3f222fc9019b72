CONSTANTS
  N = 2
  Chunks = 2
  Images <- MCImages
  Partition <- MCPartition
  Index <- MCIndex
  MaxCmds = 3
  MaxUnplugs = 1
  MaxTimeouts = 1
  MaxFaults = 1
SPECIFICATION ComSpec
INVARIANTS
  ImageInPlace
  UnitsBounded
  NoStray
CHECK_DEADLOCK FALSE
