SPECIFICATION FairSpec
CONSTANTS
  ByteBase = 8
  Settings <- AllSettings
  Trials <- CodecTrials
INVARIANTS
  RoundTrip
  QueuedWasSent
  NoByteLost
  DatagramsIntact
  DisconnectAfterAll
PROPERTIES
  CloseNoticed
CHECK_DEADLOCK FALSE
