SPECIFICATION Spec
CONSTANTS
  Conns = {c1, c2, c3}
  MAX_PLAYERS = 3
  IdMod = 4
  FirstPackets = {"request", "other", "unreadable"}
  NoSocket = NoSocket
INVARIANTS
  LeavesAreQueued
CHECK_DEADLOCK FALSE
