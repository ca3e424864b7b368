SPECIFICATION Spec
CONSTANTS
  Identity = {c1}
  NoClient = NoClient
  DUMMY_SESSION_ID = 99
  MaxSessions = 1
  InboundBound = 1
  OutboundBound = 1
  FeedBound = 1
  EnableDummyGenerator = FALSE
  OrdersPerSecond = 0
  MaxStarts = 1
INVARIANTS
  ResponsesDrained
CHECK_DEADLOCK FALSE
