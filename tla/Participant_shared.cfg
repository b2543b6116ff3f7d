CONSTANTS
  a = a
  b = b
  Threads <- MCThreads
  Names <- MCNames
  Types <- MCTypes
  Calls <- SharedCalls
  MaxCalls = 2
  MaxWork = 1
  Disciplined = FALSE
  Nobody = Nobody
  NoTopic = NoTopic
SPECIFICATION Spec
INVARIANT RefusedOnlyIfUnfit
CHECK_DEADLOCK FALSE
