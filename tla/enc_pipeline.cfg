SPECIFICATION Spec
CONSTANTS
  MaxPending = 2
  MppDepth = 2
  RestartBudget = 1
  PushOutcomes <- Failing
  Refusable = FALSE
  MppTimely = TRUE
  RestartMayFail = FALSE
  OverlapResets = FALSE
  MaxFrames = 3
  MaxFaults = 1
  MaxResChanges = 1
  MaxResets = 1
  MaxSessions = 2
INVARIANTS
  CodedInOrder
  EosComplete
  FramesConserved
PROPERTIES
  Paired
  DrainedBeforeReconfigure
  FlushedInTeardown
  LateFramesRefused
