CONSTANTS
  u1 = u1
  u2 = u2
  s1 = s1
  s2 = s2
  NoCall = NoCall
  Unary = {}
  Streams = {s1}
  StreamingClient = {}
  StreamingServer = {s1}
  Oversized = {}
  SidLimit = 6
  RecvBuf = 1
  ServerKinds = {"ok", "err"}
  MaxFrames = 1
  MaxInFlight = 1
  MaxSends = 0
SPECIFICATION Spec
INVARIANTS
  ResponseTerminatesStream
CHECK_DEADLOCK FALSE
