SPECIFICATION Spec
CONSTANTS
  Mine = {m1, m2}
  Siblings = {b1}
  Foreign = {f1}
  Queues = {q1}
  MapSize = 2
  MaxOwned = 2
  DoneTraced = TRUE
  Evicts = FALSE
  MaxLost = 1
  MaxTasks = 3
  QueueOf <- OneQueue
  CoresOf <- OneQueueCores
  m1 = m1
  m2 = m2
  m3 = m3
  b1 = b1
  f1 = f1
  f2 = f2
  f3 = f3
  q1 = q1
  q2 = q2
  q3 = q3
INVARIANTS
  CurrentOwned
  Detected
CHECK_DEADLOCK FALSE
