\* Two orders for the same product at once.
\* A shop whose orders are all placed and finished has nothing left to ask.
SPECIFICATION Spec
CHECK_DEADLOCK FALSE
CONSTANTS
  s1 = s1
  s2 = s2
  o1 = o1
  o2 = o2
  None = None
  Product <- OneProduct
  Order <- TwoOrders
  Session <- TwoSessions
  InitialStock <- OneEach
  Cart <- SingleCart
  StatusMove <- Nothing
  Patch <- Nothing
  Put <- Nothing
  DeleteList <- Nothing
  Restorable <- Nothing
  Isolation = "REPEATABLE READ"
  MaxStock = 2
PROPERTIES ReserveIsExact
