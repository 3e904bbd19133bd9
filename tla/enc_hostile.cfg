SPECIFICATION Spec
CONSTANTS
  MaxPending = 2
  MppDepth = 1
  RestartBudget = 1
  PushOutcomes <- Failing
  Refusable = TRUE
  MppTimely = FALSE
  RestartMayFail = TRUE
  OverlapResets = FALSE
  MaxFrames = 3
  MaxFaults = 2
  MaxResChanges = 1
  MaxResets = 1
  MaxSessions = 1
INVARIANTS
  IndInv
