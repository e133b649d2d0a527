SPECIFICATION Spec
CONSTANTS
  MaxAttempts = 2
  MaxReplies = 2
  Timeout = 2
  NULL = NULL
INVARIANTS
  FetchedIsCallers
CHECK_DEADLOCK FALSE
