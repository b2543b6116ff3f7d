SPECIFICATION Spec
CONSTANTS
  r1 = r1
  r2 = r2
  t1 = t1
  t2 = t2
  s1 = s1
  p1 = p1
  Half = 4
  Requesters = {r1}
  Callers = {t1, t2}
  RequesterOf <- SharedRequester
  Services = {s1}
  Repliers = {}
  MaxCalls = 2
  MaxRestarts = 0
  WriteMayFail = FALSE
  MayAbandon = FALSE
  MayDestroy = FALSE
INVARIANT
  RightAnswer
CHECK_DEADLOCK FALSE
