SPECIFICATION FairSpec
CONSTANTS
  MaxOrders = 2
  Session = {s1, DUMMY}
  DUMMY_SESSION_ID = DUMMY
  RequestSide = {"BUY", "SELL"}
  RequestType = {"LIMIT", "MARKET"}
  RequestPrice = {0, 1, 2}
  RequestQuantity = {0, 1, 2}
  QMod = 16
  None = None
INVARIANTS
  TickIsCurrent
PROPERTIES
  BookSpec
  RequestAnswered
