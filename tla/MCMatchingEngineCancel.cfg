SPECIFICATION Spec
CONSTANTS
  MaxOrders = 3
  Session = {DUMMY}
  DUMMY_SESSION_ID = DUMMY
  RequestSide = {"BUY", "SELL"}
  RequestType = {"LIMIT"}
  RequestPrice = {1, 2}
  RequestQuantity = {1, 2}
  QMod = 16
  None = None
INVARIANTS
  CancelAckMeansCancelled
