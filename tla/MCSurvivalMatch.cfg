SPECIFICATION Spec
CONSTANTS
  Humans = {h1, h2}
  Bots = {b1}
  Targets <- MCTargets
  TiebreakAttempts = 1
  MaxRerolls = 1
  NoOne = none
  Reports = {2}
  MapFailureLimit = 1
  MaxRounds = 2
SYMMETRY MCSymmetry
INVARIANTS
  StandingsFollowPlay
  NobodyLockedOut
  MapIsForItsRound
PROPERTIES
  PrizeStands
  PlayedOut
CHECK_DEADLOCK FALSE
