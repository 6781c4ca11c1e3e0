CONSTANTS
  LevelArgs = {0, 1, 4, 12, 13, 17, 22}
  Sizes <- MCSizes
  DictSizes <- MCDictSizes
  DictIds <- MCDictIds
  WindowArgs = {0, 17, 25, 99}
  None = None
SPECIFICATION Spec
INVARIANTS
  HeaderRoundTrip
  WindowCovers
  FinderCovered
