CONSTANTS
  Byte = {1, 2, 3}
  Corpora <- MCCorpora
  D = 2
  SegmentLen = 3
  MaxSizes = {0, 2, 4, 9}
  Headers = {3, 6}
  LargestRep = 2
SPECIFICATION Spec
INVARIANTS
  SearchExact
  SegmentsWithin
  NewCoverage
  DictFits
CHECK_DEADLOCK FALSE
