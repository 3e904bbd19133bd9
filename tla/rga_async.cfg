SPECIFICATION FairSpec
CONSTANTS
  NBufs = 2
  MaxFlushes = 1
  MaxStops = 1
  StopPolls = 1
  MaxToggles = 1
  Calm = TRUE
INVARIANTS
  RefsCounted
  SlotsFree
PROPERTIES
  
  StopReturns
CHECK_DEADLOCK FALSE
