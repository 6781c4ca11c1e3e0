CONSTANTS
  Datas <- MCDatas
  Dicts <- MCDicts
  Windows = {2, 4}
  MaxBlockSize = 2
  MinJobSize = 2
  MaxJobs = 3
  JobCounts = {0, 2, 5}
  MaxMatch = 2
  LdmMinMatch = 2
  Usize = 65536
  None = None
SPECIFICATION Spec
INVARIANTS
  RoundTrip
  PlanSound
PROPERTY FrameReturned
