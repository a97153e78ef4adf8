SPECIFICATION Spec
CONSTANTS
  Budget = 2
  MaxPauses <- MCOnlyTwo
  MaxClock = 2
  RoundScenes = 2
  MaxScenes = 2
  MaxFailures = 0
  MaxRestarts = 0
INVARIANTS
  BudgetIsForTheMatch
CHECK_DEADLOCK FALSE
