\* Two requests at a time through every handler, on MySQL's isolation.
SPECIFICATION Spec
CONSTANTS
  s1 = s1
  s2 = s2
  o1 = o1
  o2 = o2
  None = None
  Product <- TwoProducts
  Order <- OneOrder
  Session <- TwoSessions
  InitialStock <- TwoAndOne
  Cart <- CartsOfAllShapes
  StatusMove <- ConcurrentMoves
  Patch <- SomePatches
  Put <- SomePuts
  DeleteList <- SomeDeletes
  Restorable <- OneProduct
  Isolation = "REPEATABLE READ"
  MaxStock = 2
INVARIANTS TypeOK LockedReadsStayFresh CommitsDoNotDeadlock
PROPERTIES OnlyLiveProductsSold NoCollateralWrites ReleaseIsExact
