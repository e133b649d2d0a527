SPECIFICATION JoinFairSpec
CONSTANTS
  m1 = m1
  m2 = m2
  Conns = {m1, m2, o1}
  MAX_PLAYERS = 2
  IdMod = 4
  FirstPackets = {"request"}
  NoSocket = NoSocket
  MaxAttempts = 2
  MaxReplies = 5
  Timeout = 1
  Mine <- Attempts
  NULL = NULL
INVARIANTS
  ConnectedIsSeated
  AnswerComesFirst
PROPERTIES
  InTimeIsSeated
  QueuesDrain
  RequestInTimeAnswered
CHECK_DEADLOCK FALSE
