CONSTANTS
  Unary = {}
  Streams = {1}
  Unserved = {}
  StreamingClient = {1}
  StreamingServer = {1}
  WithPayload = {1}
  Oversized = {}
  RecvBuf = 1
  ClientKinds = {"request", "data", "dataClose", "close", "big", "other"}
  MaxIn = 3
  MaxInFlight = 1
  MaxSends = 1
  ShutdownBy = {}
SPECIFICATION Spec
INVARIANTS
  TypeOK
  HandlerReadsInOrder
  EOFAfterLastMessage
CHECK_DEADLOCK FALSE
