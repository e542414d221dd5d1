CONSTANTS
  u1 = u1
  u2 = u2
  s1 = s1
  s2 = s2
  NoCall = NoCall
  Unary = {u1, u2}
  Streams = {s2}
  StreamingClient = {s2}
  StreamingServer = {}
  Oversized = {u2}
  SidLimit = 8
  RecvBuf = 1
  ServerKinds = {"ok", "data"}
  MaxFrames = 1
  MaxInFlight = 1
  MaxSends = 1
SPECIFICATION Spec
INVARIANTS
  CallbackSeesClosedClient
  NoCallForgotten
  FinishedUnaryUnregistered
  WireIdsIncrease
  WireWellFormed
CHECK_DEADLOCK FALSE
