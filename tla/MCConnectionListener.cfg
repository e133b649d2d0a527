SPECIFICATION FairSpec
CONSTANTS
  Conns = {c1, c2, c3}
  NoSocket = NoSocket
INVARIANTS
  TypeOK
  NeverNull
PROPERTIES
  ImplementsQueue
  DestructorReturns
  EveryoneHandedOut
CHECK_DEADLOCK FALSE
