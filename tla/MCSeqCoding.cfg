CONSTANTS
  None = None
  Sections <- MCSections
  Training <- MCTraining
  Foreign <- MCForeign
  Counts <- MCCounts
  Damages = 40
  MaxBlocks = 2
SPECIFICATION Spec
INVARIANTS
  SectionRoundTrip
  TablesSound
  Cheapest
  DictServes
CHECK_DEADLOCK FALSE
