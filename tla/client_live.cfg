CONSTANTS
  u1 = u1
  u2 = u2
  s1 = s1
  s2 = s2
  NoCall = NoCall
  Unary = {u1}
  Streams = {s1}
  StreamingClient = {}
  StreamingServer = {s1}
  Oversized = {}
  SidLimit = 6
  RecvBuf = 1
  ServerKinds = {"ok"}
  MaxFrames = 3
  MaxInFlight = 1
  MaxSends = 0
SPECIFICATION FairSpec
PROPERTIES
  CloseReleasesCallers
  HangUpClosesClient
  NoHeadOfLineBlocking
CHECK_DEADLOCK FALSE
