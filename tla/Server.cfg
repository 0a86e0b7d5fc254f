SPECIFICATION FairSpec
CONSTANTS
  first = first
  second = second
  Client = {first, second}
  Run = Run
  Sched = Sched
  Hung = {first}
  MaySend <- MCMaySend
  MaxLines <- MCMaxLines
  Leaver = {second}
CHECK_DEADLOCK FALSE
INVARIANTS
  TypeOK
  AnswersInOrder
  StoppedTogether
PROPERTIES
  NobodyBlocked
  StopsUnlessMissed
