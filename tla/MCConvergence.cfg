SPECIFICATION PartsSpec
CONSTANTS
  RoundSeconds = 1
  FinalAttemptWindowSeconds = 0
  LastAttemptWindowSeconds = 0
  ClearTarget = 2
  QualifyingPercent = 50
  Reports <- MCOneReport
  TransportGrace = 1
  LeaseTtl = 1
  HandlerLag = 0
  Present <- MCOnlyB
  MaxRuns <- MCOneRun
  MaxClock = 3
  Rounds = {r1, r2}
  MaxTries = 2
  Quiet = 2
  MaxChanges = 2
  MaxMishaps = 1
  Events = {e1, e2}
  MaxAttempts = 2
  BatchSize = 1
  MaxCrashes = 2
  MaxPlays = 2
  MaxPoses <- MCPoses
  QueueCap = 1
  BatchMax = 2
  Page = 1
  LateWindow = 1
  FailureLimit = 4
  MaxFaults = 1
  Humans = {h1, h2}
  Bots = {}
  Targets <- MCNoCut
  TiebreakAttempts = 1
  MaxRerolls = 1
  NoOne = none
  Scores = {2}
  MapFailureLimit = 1
  MaxRounds = 1
INVARIANTS
  TypesOK
  AnswerIsItsOwn
  PresentedInOrder
PROPERTIES
  RoundsAreDecided
  AllJournalsDrain
  PreparationsConverge
  ScenesComeBack
  AllEventsAreTried
  PicturesConverge
  SurvivalRoundsOpen
CHECK_DEADLOCK FALSE
