SPECIFICATION Spec
CONSTANTS
  RoundSeconds = 1
  FinalAttemptWindowSeconds = 1
  LastAttemptWindowSeconds = 1
  ClearTarget = 2
  QualifyingPercent = 50
  Reports <- MCReports
  TransportGrace = 1
  LeaseTtl = 2
  HandlerLag = 1
  Present <- MCBoth
  MaxRuns <- MCOneRun
  MaxClock = 3
INVARIANTS
  LeaseIsNeverLost
CHECK_DEADLOCK FALSE
