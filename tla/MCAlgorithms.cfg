CONSTANTS
  RtDepth = 3
  SmLines = 3
  MaPatterns = 4
  MaTargets = 3
  AgEntries = 2
  WiFrames = 4
  WiText = 6
  DiBytes = 5
  TtHorizon = 24
  SkLines = 5
INIT MCInit
NEXT MCNext
CHECK_DEADLOCK FALSE
INVARIANTS
  ModelsRight
  NextRight
  AccessRight
  PatternsRight
  TextsRight
