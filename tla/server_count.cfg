CONSTANTS
  Unary = {3}
  Streams = {1}
  Unserved = {}
  StreamingClient = {1}
  StreamingServer = {}
  WithPayload = {}
  Oversized = {}
  RecvBuf = 1
  ClientKinds = {"request", "data"}
  MaxIn = 3
  MaxInFlight = 1
  MaxSends = 0
  ShutdownBy = {}
SPECIFICATION Spec
INVARIANTS
  IdleMeansNoRequest
CHECK_DEADLOCK FALSE
