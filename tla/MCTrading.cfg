SPECIFICATION Spec
CONSTANTS
  Streams = {"equity"}
  MaxTrades = 1
  NoPacket = NoPacket
CHECK_DEADLOCK FALSE
INVARIANTS
  StorageClosedLast
  TapeComplete
PROPERTIES
  FallbackSafety
  LanesReconnect
  PollsAgain
  ShutdownEnds
