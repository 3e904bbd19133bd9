SPECIFICATION Spec
CONSTANTS
  MaxPending = 2
  MppDepth = 1
  RestartBudget = 1
  PushOutcomes <- Healthy
  Refusable = TRUE
  MppTimely = TRUE
  RestartMayFail = FALSE
  OverlapResets = FALSE
  MaxFrames = 3
  MaxFaults = 0
  MaxResChanges = 0
  MaxResets = 0
  MaxSessions = 1
INVARIANTS
  OldestIsCoded
