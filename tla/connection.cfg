CONSTANTS
  s1 = s1
  NoCall = NoCall
  Unary = {}
  Streams = {s1}
  StreamingClient = {s1}
  StreamingServer = {s1}
  Oversized = {}
  SidLimit = 6
  RecvBuf = 1
  MaxInFlight = 1
  MaxSends = 1
  MaxReplies = 1
  SidOf <- MCSidOf
  WithPayload = {s1}
  LongAnswers = {s1}
SPECIFICATION FairSpec
PROPERTIES
  ImplementsRpc
  NoMutualWait
ACTION_CONSTRAINT LocalStepsFirst
CHECK_DEADLOCK FALSE
