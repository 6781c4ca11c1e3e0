CONSTANTS
  None = None
  Byte = {0, 1}
  Frames <- MCFrames
  Dicts <- MCDicts
  WindowMax = 4
  BufSizes = {0, 1, 3}
  MaxBlockSize = 3
  MaxBlocks = 2
  Windows = {2, 4}
  Ids = {0, 7}
  Unlimited = 99
SPECIFICATION MCSpec
INVARIANT EvictedUnreachable
CHECK_DEADLOCK FALSE
