SPECIFICATION FairSpec
CONSTANTS
  Conns = {c1, c2}
  Terms = {t1}
  Leavers = {c2}
  MaxTurns = 2
  Answers <- AnswersTried
  MaxRuns = 2
  MaxLines = 1
CHECK_DEADLOCK FALSE
INVARIANTS
  TypeOK
  CallsSettled
  Truthful
PROPERTIES
  ChatAnswered
