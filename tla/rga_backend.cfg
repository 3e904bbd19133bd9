SPECIFICATION Spec
CONSTANTS
  Users = {conv, comp}
  Caching = {conv}
  Keys = {k}
  Threshold = 2
  Retry = 1
  CacheMax = 2
  Fds = {a, b, c}
  Idents = {x, y}
  FrameIds = {f}
INVARIANTS
  LeasesExact
  RefusalsBounded
SYMMETRY Symmetry
CHECK_DEADLOCK FALSE
