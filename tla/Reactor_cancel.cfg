SPECIFICATION Spec
CONSTANTS
  UserMarks <- HalfAndDone
  MaxSessions = 1
  MaxCommands = 1
  MaxEvents = 1
INVARIANT
  CancelSeen
CHECK_DEADLOCK FALSE
