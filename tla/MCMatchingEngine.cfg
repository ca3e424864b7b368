SPECIFICATION Spec
CONSTANTS
  MaxOrders = 3
  Session = {s1, s2, DUMMY}
  DUMMY_SESSION_ID = DUMMY
  RequestSide = {"BUY", "SELL", "DEFAULT"}
  RequestType = {"LIMIT", "IOC"}
  RequestPrice = {1}
  RequestQuantity = {1, 2}
  QMod = 16
  None = None
SYMMETRY SessionSymmetry
INVARIANTS
  TypeOK
  LiveOrdersTracked
  AckMatchesBook
PROPERTIES
  OwnerOnly
  FillsReported
