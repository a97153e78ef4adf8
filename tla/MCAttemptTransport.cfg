SPECIFICATION Spec
CONSTANTS
  RoundSeconds = 1
  FinalAttemptWindowSeconds = 1
  LastAttemptWindowSeconds = 1
  ClearTarget = 2
  QualifyingPercent = 50
  Reports <- MCClear
  TransportGrace = 1
  LeaseTtl = 2
  HandlerLag = 1
  Present <- MCBoth
  MaxRuns <- MCMaxRuns
  MaxClock = 3
INVARIANTS
  RunsCountOnce
  ScoredAsPlayed
  LeaseSpentForItsRun
PROPERTIES
  OnlyTimelyRunsCount
  PollNeverLosesALease
CHECK_DEADLOCK FALSE
