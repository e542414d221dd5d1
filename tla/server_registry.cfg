CONSTANTS
  l1 = l1
  c1 = c1
  c2 = c2
  d1 = d1
  d2 = d2
  k1 = k1
  NoConn = NoConn
  Listeners = {l1}
  Conns = {c1, c2}
  Shutdowns = {d1, d2}
  Closers = {k1}
  MaxRequests = 2
SPECIFICATION FairSpec
INVARIANTS
  TypeOK
  NoConnOutOfReach
  ShutdownReachesAll
  DoneStopsAccepting
PROPERTIES
  ServeEnds
  ShutdownEnds
CHECK_DEADLOCK FALSE
