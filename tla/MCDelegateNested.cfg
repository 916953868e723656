INIT DInit
NEXT DNext
CONSTANTS
  MaxTasks = 3
  MaxDepth = 2
  MaxSubs = 3
  Waiters = {}
INVARIANTS
  NestingCapped
