SPECIFICATION FairSpec
CONSTANTS
  Conns = {c1, c2}
  MAX_PLAYERS = 2
  IdMod = 4
  FirstPackets = {"request", "other", "unreadable"}
  NoSocket = NoSocket
PROPERTIES
  DepartureNoticed
CHECK_DEADLOCK FALSE
