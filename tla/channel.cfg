CONSTANTS
  c1 = c1
  c2 = c2
  m1 = m1
  m2 = m2
  m3 = m3
  m4 = m4
  m5 = m5
  Channels = {c1, c2}
  Messages = {m1, m2, m3, m4, m5}
  ChannelOf <- MCChannelOf
  SizeOf <- MCSizeOf
  Unchecked = {m2}
  HeaderLength = 2
  LengthMax = 2
  Buffers = {1, 2}
  NoOne = NoOne
  Fragile = {c1}
SPECIFICATION FairSpec
INVARIANTS
  FramesInOrder
  MessagesIntact
PROPERTIES
  SentIsReceived
CHECK_DEADLOCK FALSE
