SPECIFICATION Spec
CONSTANTS
  OutputSizes <- MCSizes
  Customs <- MCCustoms
  Dynamic = FALSE
  Flushes = 1
  Foreign <- Upstream
  ObjectsOf <- MCObjectsOf
  MaxDumbs = 2
  Refuses = FALSE
  Fbs = {"f1", "f2"}
  PlanesOf <- MCPlanesOf
  Gaps = FALSE
  SyncFb = TRUE
  MaxOut = 2
  MaxFiles = 2
INVARIANTS
  ComposedWhole
  
  CacheExact
  

  
CHECK_DEADLOCK FALSE
