SPECIFICATION PartsSpec
CONSTANTS
  Budget = 2
  MaxPauses <- MCOnlyTwo
  MaxClock = 4
  RoundScenes = 1
  MaxScenes = 2
  MaxFailures = 1
  MaxRestarts = 1
  MaxSessions = 3
  MaxMatches = 2
  MaxTime = 2
  MaxFaults = 1
  MaxActs = 3
  SessionLease = 2
  SessionSeconds = 2
  QueueLease = 1
INVARIANTS
  TypesOK
  OpenTimeIsCharged
  ForfeitSpentTheBudget
  LeaseOpensOnce
  AssignmentFollowsSession
  OneUnfinishedMatch
PROPERTIES
  SpentPauseHeldInPlay
  AdmittedOnlyAfterLease
  ShownMatchNeverGoesBack
CHECK_DEADLOCK FALSE
