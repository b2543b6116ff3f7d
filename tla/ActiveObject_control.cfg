SPECIFICATION FairSpec
CONSTANTS
  c1 = c1
  c2 = c2
  Controllers = {c1}
  MaxJobs = 4
  MaxStarts = 3
  MayDestroy = TRUE
INVARIANTS
  TypeOK
  JobsInOrder
  StopFinishes
  NoTerminate
PROPERTIES
  EveryJobRuns
  StopReturns
CHECK_DEADLOCK FALSE
