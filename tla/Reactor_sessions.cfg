SPECIFICATION FairSpec
CONSTANTS
  UserMarks <- StartedAndHalf
  MaxSessions = 2
  MaxCommands = 1
  MaxEvents = 2
INVARIANTS
  TypeOK
  
  CancelSticks
PROPERTIES
  GoneStaysGone
  
CHECK_DEADLOCK FALSE
