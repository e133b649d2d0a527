SPECIFICATION Spec
CONSTANTS
  Conns = {c1, c2, c3, c4}
  MAX_PLAYERS = 3
  IdMod = 4
  FirstPackets = {"request", "unreadable"}
  NoSocket = NoSocket
SYMMETRY Symmetry
INVARIANTS
  TypeOK
  RosterSound
  UniqueIds
  ResponseFirst
  ViewsAgree
  FlushPassesNobody
PROPERTIES
  JoinKeepsBalance
CHECK_DEADLOCK FALSE
