INIT TgInit
NEXT TgNext
CONSTANTS
  TgKinds = {"voice"}
  TgMax = 1
  TgFaults = 0
  TgChunks = 1
CHECK_DEADLOCK FALSE
INVARIANTS
  TgHandledOnce
