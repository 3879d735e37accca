SPECIFICATION MCFairFlowSpec
CONSTANTS
  s1 = s1
  s2 = s2
  NoSession = NoSession
  Sessions = {s1, s2}
  MaxClients = 2
  CycleTime <- MCCycleTime
  StartCountdown = 2
  MidGameCountdown = 1
  WordCounts = {1, 2}
  DbFails = TRUE
  MaxRequests = 2
  MinTime <- MCMinTime
INVARIANTS
  TimersMatchTheState
  CuesMatchTheCycle
  CountdownIsHonest
  EveryWordIsPlayed
PROPERTIES
  ImplementsLifecycle
  GameEnds
  IdleRoomsAreDisposed
CHECK_DEADLOCK FALSE
