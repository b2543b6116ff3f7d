SPECIFICATION FairSpec
CONSTANTS
  t1 = t1
  t2 = t2
  t3 = t3
  t4 = t4
  q1 = q1
  NoQueue = NoQueue
  Threads = {t1, t2, t3, t4}
  Queues = {q1}
  Capacity <- OneOfTwo
  Bulk = {0, 1}
  Swaps <- NoSwap
  MaxItems = 4
INVARIANTS
  TypeOK
  NewestInOrder
  WakeupsCover
PROPERTIES
  DataReachesWaiter
  ImplementsFifo
