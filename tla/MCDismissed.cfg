SPECIFICATION AdmissionSpec
CONSTANTS
  MaxSessions = 1
  MaxMatches = 1
  MaxTime = 1
  MaxFaults = 0
  MaxActs = 4
  SessionLease = 2
  SessionSeconds = 2
  QueueLease = 1
INVARIANTS
  DismissedMatchStaysGone
CHECK_DEADLOCK FALSE
