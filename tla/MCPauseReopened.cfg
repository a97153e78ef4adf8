SPECIFICATION Spec
CONSTANTS
  Budget = 2
  MaxPauses <- MCOnlyTwo
  MaxClock = 2
  RoundScenes = 2
  MaxScenes = 2
  MaxFailures = 1
  MaxRestarts = 0
INVARIANTS
  ResumedPauseStaysClosed
CHECK_DEADLOCK FALSE
