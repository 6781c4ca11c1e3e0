CONSTANTS
  None = None
  Literals <- MCLiterals
  Histograms <- MCHistograms
  Foreign <- MCForeign
  Sizes <- MCSizes
  Blocks = 2
SPECIFICATION Spec
INVARIANTS
  CodesComplete
  TablesAgree
  RoundTrip
  SizesExact
CHECK_DEADLOCK FALSE
