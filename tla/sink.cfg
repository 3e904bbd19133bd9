SPECIFICATION FairSpec
CONSTANTS
  MaxPics = 1
  MaxCalls = 2
  MaxDrains = 2
  MaxCycles = 1
  WindowVanishes = TRUE
INVARIANTS
  PictureHeld
  DrainReleases
  WindowKept
PROPERTIES
  JoinReturns
CHECK_DEADLOCK FALSE
