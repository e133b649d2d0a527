SPECIFICATION Spec
CONSTANTS
  ByteBase = 8
  Settings <- OnePacket
  Trials <- CodecTrials
INVARIANTS
  ReturnedAsSent
CHECK_DEADLOCK FALSE
