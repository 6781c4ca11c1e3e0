CONSTANTS
  Keys = {k1, k2}
  LdmKeys = {k1}
  Configs <- MCConfigs
  MaxInput = 8
SPECIFICATION Spec
CONSTRAINT LongBounds
INVARIANTS TypeOK SlideTransparent IndexMatchesInput ChunkIndependent RetentionBounded
CHECK_DEADLOCK FALSE
