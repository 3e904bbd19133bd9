SPECIFICATION FairSpec
CONSTANTS
  MaxPending = 1
  MppDepth = 1
  RestartBudget = 1
  PushOutcomes <- Failing
  Refusable = FALSE
  MppTimely = TRUE
  RestartMayFail = FALSE
  OverlapResets = FALSE
  MaxFrames = 2
  MaxFaults = 2
  MaxResChanges = 0
  MaxResets = 1
  MaxSessions = 1
PROPERTIES
  
  SinkResetEnds
  TeardownEnds
