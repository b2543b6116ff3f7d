SPECIFICATION NoClockSpec
CONSTANTS
  t1 = t1
  t2 = t2
  q1 = q1
  q2 = q2
  w1 = w1
  w2 = w2
  NoQueue = NoQueue
  Threads = {t1}
  Queues = {q1, q2}
  Capacity <- Unbounded
  Bulk = {2}
  Swaps <- NoSwap
  MaxItems = 1
  Consumers = {w1}
  AtStart <- Both
  MayDestroy = FALSE
PROPERTY
  WakesForData
CHECK_DEADLOCK FALSE
