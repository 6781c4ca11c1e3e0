CONSTANTS
  None = None
  Byte = {0, 1}
  Frames <- MCFrames
  Dicts <- MCDicts
  WindowMax = 4
  BufSizes = {0, 1, 3}
  MaxBlockSize = 3
  MaxBlocks = 3
  Windows = {2, 4}
  Ids = {0, 7}
  Unlimited = 99
SPECIFICATION MCSpec
INVARIANTS TypeOK NoUnderflow MemoryBounded HistoryKept DeliveredIsHashed
PROPERTIES EventuallyEnds ReadContract
CHECK_DEADLOCK FALSE
