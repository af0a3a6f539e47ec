SPECIFICATION Spec
CONSTANTS
  Callers = {c1, c2}
  Ranks = {low, high}
  OpenStatuses = {open, investigating}
  Closed = resolved
  Times = {1, 2, 3}
  Origin = 2
  Null = Null
INVARIANTS
  LifecycleHolds
PROPERTIES
  StatusAndStampOfOneCaller
  OthersColumnsSurvive
  ReturnsWhatItCommits
  EveryUpdateEnds
CHECK_DEADLOCK FALSE
