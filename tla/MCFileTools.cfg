SPECIFICATION MCSpec
CONSTANTS
  c1 = c1
  c2 = c2
  p1 = p1
  p2 = p2
  l1 = l1
  l2 = l2
  NoLock = NoLock
  NoCaller = NoCaller
  NoPath = NoPath
  NoJob = NoJob
  NoFile = NoFile
  Paths <- MCPaths
  Locks <- MCLocks
  Fragments <- MCFragments
  Files0 <- MCFiles0
  Callers <- MCCallers
  Jobs <- AllTools
  CtxCancels = TRUE
  DiskFails = TRUE
INVARIANTS
  TypeOK
  QueueSafe
  NoCircularWait
PROPERTIES
  EditsSerialized
  ImplementsSerializer
