INIT DcInit
NEXT DcNext
CONSTANTS
  DcEvents = 0
  DcInFlight = 2
  DcFaults = 0
  DcMaxAttempts = 2
CHECK_DEADLOCK FALSE
INVARIANTS
  DcLiveKept
