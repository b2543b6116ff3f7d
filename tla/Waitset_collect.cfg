SPECIFICATION ClockSpec
CONSTANTS
  t1 = t1
  t2 = t2
  q1 = q1
  q2 = q2
  w1 = w1
  w2 = w2
  NoQueue = NoQueue
  Threads = {t1, t2}
  Queues = {q1, q2}
  Capacity <- Equal
  Bulk = {0, 2, 3}
  Swaps <- SwapBoth
  MaxItems = 4
  Consumers = {w1}
  AtStart <- FirstOnly
  MayDestroy = TRUE
INVARIANTS
  WTypeOK
  ReturnedHasData
  CapacityBound
  RoundCollects
PROPERTIES
  DataCollected
  ImplementsFifo
CHECK_DEADLOCK FALSE
