SPECIFICATION FairSpec
CONSTANTS
  MaxAttempts = 2
  MaxReplies = 2
  Timeout = 2
  NULL = NULL
INVARIANTS
  TypeOK
  SocketsMatchResult
PROPERTIES
  WaitEnds
CHECK_DEADLOCK FALSE
