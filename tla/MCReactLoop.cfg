SPECIFICATION FairSpec
CONSTANTS
  MaxSteps = 4
  MaxCalls = 2
  KeepLast = 8
  MaxHeals = 2
  MaxTries = 2
  MaxFlips = 1
  MaxMissed = 1
  Policies <- AllPolicies
INVARIANTS
  TypeOK
  ExecutedRightly
PROPERTIES
  EndsKept
  RunEnds
