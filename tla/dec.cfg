SPECIFICATION FairSpec
CONSTANTS
  NFrames = 2
  FramePts <- MCPts
  ParamSets = {}
  MaxPending = 1
  DecodeOnly = 1
  QueueSize = 2
  MaxDrains = 1
  MaxFlushes = 1
  MaxStops = 1
  InfoAt = {1}
INVARIANTS
  ClearedAlone
PROPERTIES
  DrainedBeforeReset
  NothingStale
  
CHECK_DEADLOCK FALSE
