CONSTANTS
  Unary = {3}
  Streams = {1}
  Unserved = {4, 5}
  StreamingClient = {1}
  StreamingServer = {1}
  WithPayload = {}
  Oversized = {3}
  RecvBuf = 1
  ClientKinds = {"request", "data"}
  MaxIn = 3
  MaxInFlight = 1
  MaxSends = 0
  ShutdownBy = {"forced", "idle"}
SPECIFICATION Spec
INVARIANTS
  HandlersStartInIdOrder
  NoPhantomActivity
CHECK_DEADLOCK FALSE
