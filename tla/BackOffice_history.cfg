\* Two requests write two columns of one profile.
SPECIFICATION MCSpec
CONSTANTS
  f1 = f1
  f2 = f2
  doc = doc
  t1 = t1
  t2 = t2
  u1 = u1
  u2 = u2
  r1 = r1
  r2 = r2
  r3 = r3
  j1 = j1
  j2 = j2
  x = x
  y = y
  a = a
  b = b
  old = old
  new = new
  s1 = s1
  s2 = s2
  s3 = s3
  n1 = n1
  n2 = n2
  None = None
  Absent = Absent
  File <- TwoFiles
  Report <- OneReport
  Task <- TwoTasks
  Title <- TwoTitles
  User <- TwoUsers
  Request <- ThreeRequests
  Job <- TwoJobs
  LastDay = 1
  MaxCrashes = 1
  Profile <- OneProfile
  Column <- TwoColumns
  Value <- TwoValues
  Patch <- Patches
  Editor <- TwoUsers
  Socket <- ThreeSockets
  Owner <- OwnerOf
  Notice <- TwoNotices
  Reader <- ReaderOf
INVARIANTS HistoryTellsTheRow
