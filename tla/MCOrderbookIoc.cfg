SPECIFICATION Spec
CONSTANTS
  OrderId = {o1, o2}
  Price = {1, 2}
  RequestQty = {1}
  QMod = 16
  None = None
INVARIANT IocPriceRespected
CHECK_DEADLOCK FALSE
