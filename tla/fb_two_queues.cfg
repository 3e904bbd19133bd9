SPECIFICATION Spec
CONSTANTS
  Mine = {m1, m2}
  Siblings = {}
  Foreign = {f1, f2}
  Queues = {q1, q2}
  MapSize = 3
  MaxOwned = 2
  DoneTraced = FALSE
  Evicts = FALSE
  MaxLost = 0
  MaxTasks = 2
  QueueOf <- TwoQueues
  CoresOf <- TwoQueuesCores
  m1 = m1
  m2 = m2
  m3 = m3
  b1 = b1
  f1 = f1
  f2 = f2
  f3 = f3
  q1 = q1
  q2 = q2
  q3 = q3
INVARIANTS
  OnlyOursCharged
  NeverDisowned
CHECK_DEADLOCK FALSE
