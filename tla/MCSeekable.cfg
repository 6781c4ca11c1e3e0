CONSTANTS
  Datas <- MCDatas
  FrameSizes = {0, 2}
  FrameLens = {1, 2, 14}
  MaxU32 = 13
  MaxJobs = 3
  JobCounts = {0, 2, 3}
  Ceilings = {2, 9}
  Damage = {1, 3}
  MaxFaults = 2
  None = None
SPECIFICATION Spec
INVARIANTS
  RoundTrip
  RandomAccess
  ParallelDecode
PROPERTY ScopeEnds
