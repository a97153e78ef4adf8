SPECIFICATION FairSpec
CONSTANTS
  Terms <- MCTerms
  ReadyTicks = 1
  BanTicks = 1
  EntryTicks = 1
  CountdownTicks = 1
  ResultTicks = 1
  ReconnectGrace = 2
  DeathmatchAttempts = 1
  MaxDeathmatches = 2
  MaxSurrenders = 1
  Stayers <- MCStayer
INVARIANTS
  TypeOK
  GoNeedsBothScenes
  ConcessionCostsItsScene
PROPERTIES
  ImplementsSeries
  NoBarrierHoldsForever
  LeaverNeverHoldsMatch
CHECK_DEADLOCK FALSE
