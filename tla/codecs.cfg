SPECIFICATION CodecsSpec
CONSTANTS
  Threshold = 2
  FaultWindow = 3
  PollInterval = 1
  Budget = 2
  RestartWindow = 4
  MaxTime = 8
  MaxFaults = 4
  MaxErrors = 2
  PictureSizes = {1, 2}
  Outputs = {0, 2}
  Strides = {1, 2}
  Aligned = 1
  Rates = {1, 2}
  Layers = {0, 2}
  Limits = {2}
  MaxQueue = 1
  MaxStarts = 2
  LevelSizes <- MCLevelSizes
  FrameRates <- MCFrameRates
  Bitrates = {0, 64000, 64001, 128000, 4000001, 60000000, 1000000000}
  Pieces <- MCPieces
  MaxPieces <- MCMaxPieces
INVARIANTS
  CrossingJustified
  WedgeNoticed
  RestartsBounded
  
  LevelCarries
  AccountedExactly
CHECK_DEADLOCK FALSE
