\* One request at a time, status changes that follow the workflow, catalogue edits.
SPECIFICATION LedgerSpec
CONSTANTS
  s1 = s1
  s2 = s2
  o1 = o1
  o2 = o2
  None = None
  Product <- TwoProducts
  Order <- TwoOrders
  Session <- OneSession
  InitialStock <- TwoEach
  Cart <- CartsOfAllShapes
  StatusMove <- WorkflowMoves
  Patch <- SomePatches
  Put <- SomePuts
  DeleteList <- Nothing
  Restorable <- Nothing
  Isolation = "REPEATABLE READ"
  MaxStock = 2
PROPERTIES UnitsConserved ImplementsInventory
