SPECIFICATION FairSpec
CONSTANTS
  UserMarks <- HalfAndDone
  MaxSessions = 2
  MaxCommands = 0
  MaxEvents = 1
PROPERTY
  ReplyKept
CHECK_DEADLOCK FALSE
