\* Two requests at a time: registrations, the bootstrap script, administrators.
SPECIFICATION Spec
\* Both users may be registered and nothing left to do.
CHECK_DEADLOCK FALSE
CONSTANTS
  a = a
  b = b
  r1 = r1
  r2 = r2
  None = None
  Email <- TwoEmails
  Scripted <- OnlyA
  Name <- Names
  Code <- Codes
  OtherCode <- OtherCodes
  DefaultCodes <- Defaults
  Request <- TwoRequests
  AdminOp <- AdminOps
  Copies = 2
  MaxEdits = 1
  MaxCrashes = 1
INVARIANTS TypeOK RolelessOnlyAfterFailure CatalogueComplete NoManagerBeforeBootstrap
