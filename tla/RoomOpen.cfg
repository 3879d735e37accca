SPECIFICATION Spec
CONSTANTS
  s1 = s1
  s2 = s2
  NoSession = NoSession
  Sessions = {s1, s2}
  MaxClients = 2
  CycleTime <- MCCycleTime
  StartCountdown = 1
  MidGameCountdown = 1
  WordCounts = {0, 1}
  DbFails = TRUE
  MaxRequests = 2
  MinTime <- MCMinTime
SYMMETRY Symmetry
INVARIANTS
  TypeOK
  ScoresNest
  OneScorerPerRound
  CountdownIsBacked
  TimersKeepTheGameGoing
  PlayingMeansUnpaused
  LobbyIsWatched
PROPERTIES
  AwardsCloseRounds
  DisposedRoomIsInert
CHECK_DEADLOCK FALSE
