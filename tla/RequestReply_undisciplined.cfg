SPECIFICATION Spec
CONSTANTS
  r1 = r1
  r2 = r2
  t1 = t1
  t2 = t2
  s1 = s1
  p1 = p1
  Half = 2
  Requesters = {r1}
  Callers = {t1, t2}
  RequesterOf <- SharedRequester
  Services = {s1}
  Repliers = {p1}
  MaxCalls = 2
  MaxRestarts = 1
  WriteMayFail = TRUE
  MayAbandon = TRUE
  MayDestroy = TRUE
INVARIANT
  PromisesOpen
PROPERTY
  PromiseSetOnce
CHECK_DEADLOCK FALSE
