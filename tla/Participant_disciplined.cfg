CONSTANTS
  a = a
  b = b
  Threads <- MCThreads
  Names <- MCNames
  Types <- MCTypes
  Calls <- DisciplinedCalls
  MaxCalls = 4
  MaxWork = 1
  Disciplined = TRUE
  Nobody = Nobody
  NoTopic = NoTopic
SPECIFICATION Spec
INVARIANTS TypeOK OneTypePerTopic ListenersAlive NothingStale KeptRequesterHears HolderGoesOn
PROPERTY CallsReturn
CHECK_DEADLOCK FALSE
