CONSTANTS
  Unary = {}
  Streams = {1}
  Unserved = {3}
  StreamingClient = {1}
  StreamingServer = {}
  WithPayload = {1}
  Oversized = {}
  RecvBuf = 1
  ClientKinds = {"request", "data"}
  MaxIn = 3
  MaxInFlight = 1
  MaxSends = 0
  ShutdownBy = {"idle"}
SPECIFICATION FairSpec
PROPERTIES
  ReturnReleasesGoroutines
  NoHeadOfLineBlocking
  ClientGoneEndsRun
  ShutdownEndsRun
CHECK_DEADLOCK FALSE
