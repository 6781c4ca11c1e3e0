CONSTANTS
  None = None
  MaxBlockSize = 8
  Offsets = {2, 3, 4}
  Tables = {t1, t2}
  Channels = {of}
  InitStates <- MCInitStates
  MaxSeqs = 2
  MaxBlocks = 2
  MaxChunks = 4
SPECIFICATION Spec
CONSTRAINT OneAtATime
SYMMETRY AnyTable
INVARIANTS TypeOK Faithful Reconverged SameTables
CHECK_DEADLOCK FALSE
