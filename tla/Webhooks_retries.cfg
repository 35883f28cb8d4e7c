\* Two overlapping jobs, a user at POST /webhooks/retry, one crash.
SPECIFICATION FairSpec
\* Every event may be settled and every sender silent.
CHECK_DEADLOCK FALSE
CONSTANTS
  e1 = e1
  e2 = e2
  a = a
  b = b
  r1 = r1
  r2 = r2
  j1 = j1
  j2 = j2
  u1 = u1
  Event <- TwoEvents
  Endpoint <- WithEndpoint
  Message <- Messages
  Body <- Bodies
  Receiver <- TwoReceivers
  Job <- TwoJobs
  Clerk <- OneClerk
  MAX_RETRIES = 2
  Limit = 2
  MaxCrashes = 1
INVARIANTS TypeOK AttemptsWithinBudget OneJobPerAttempt FailedOnlyAfterBudget StrandedOnlyIfDisturbed
PROPERTIES RepeatChangesNothing EventSettles
