SPECIFICATION FairSpec
CONSTANTS
  r1 = r1
  r2 = r2
  t1 = t1
  t2 = t2
  s1 = s1
  p1 = p1
  Half = 4
  Requesters = {r1, r2}
  Callers = {t1, t2}
  RequesterOf <- OwnRequester
  Services = {}
  Repliers = {p1}
  MaxCalls = 3
  MaxRestarts = 1
  WriteMayFail = FALSE
  MayAbandon = FALSE
  MayDestroy = FALSE
INVARIANTS
  TypeOK
  RightAnswer
  Correlation
PROPERTIES
  EveryCallAnswered
  ImplementsService
CHECK_DEADLOCK FALSE
