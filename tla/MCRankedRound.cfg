SPECIFICATION Spec
CONSTANTS
  RoundSeconds = 1
  FinalAttemptWindowSeconds = 1
  LastAttemptWindowSeconds = 1
  ClearTarget = 3
  QualifyingPercent = 50
  Reports <- MCReports
  MaxAttempts = 3
  MaxTime = 2
INVARIANTS
  TypeOK
  WinnerHasTheEvidence
  LedgerMatchesAttempts
PROPERTIES
  ClosedStartsStayClosed
  LateStartNeverCounts
CHECK_DEADLOCK FALSE
