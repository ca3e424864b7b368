SPECIFICATION FairSpec
CONSTANTS
  Identity = {c1}
  NoClient = NoClient
  DUMMY_SESSION_ID = 99
  MaxSessions = 1
  InboundBound = 1
  OutboundBound = 1
  FeedBound = 1
  EnableDummyGenerator = TRUE
  OrdersPerSecond = 1
  MaxStarts = 2
INVARIANTS
  TypeOK
  NothingLeftRunning
  Drained
  SocketsOutliveThreads
PROPERTIES
  StartAndStopReturn
CHECK_DEADLOCK FALSE
