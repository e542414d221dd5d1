CONSTANTS
  u1 = u1
  u2 = u2
  s1 = s1
  s2 = s2
  NoCall = NoCall
  Unary = {}
  Streams = {s1}
  StreamingClient = {s1}
  StreamingServer = {s1}
  Oversized = {}
  SidLimit = 6
  RecvBuf = 1
  ServerKinds = {"ok", "err", "data", "dataClose", "close", "big"}
  MaxFrames = 3
  MaxInFlight = 2
  MaxSends = 1
SPECIFICATION Spec
INVARIANTS
  TypeOK
  DeliveredIsPrefix
  BufferedBeforeError
CHECK_DEADLOCK FALSE
