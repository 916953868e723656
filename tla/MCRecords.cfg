SPECIFICATION MCSpec
CONSTANTS
  k1 = k1
  k2 = k2
  w1 = w1
  u1 = u1
  u2 = u2
  f1 = f1
  MaxTasks = 2
  MaxDepth = 2
  MaxSubs = 3
  Waiters <- OneWaiter
  NoKey = NoKey
  Keys <- TwoKeys
  Writers <- OneWriter
  MaxAppends = 3
  MaxTears = 2
  MaxLines = 5
  MaxPairings = 2
  MaxFaults = 2
  Updaters <- TwoUpdaters
  DataFiles <- OneFile
  Chunks = 2
  Published <- TwoVersions
  MaxUpdates = 2
  MaxWrites = 1
INVARIANTS
  RecordsTypeOK
  NdApprovalsKept
PROPERTIES
  TasksTold
  DelegationBounded
  TranscriptsKept
  UpdateSafe
  RecordsEnd
