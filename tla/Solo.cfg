SPECIFICATION FairSpec
CONSTANTS
  s1 = s1
  s2 = s2
  NoSession = NoSession
  Sessions = {s1, s2}
  CycleTime <- MCCycleTime
  StartCountdown = 1
  MidGameCountdown = 2
  WordCounts = {0, 1, 3}
  MaxGuesses = 4
  MinTime <- MCMinTime
INVARIANTS
  TypeOK
  CountdownIsBacked
  TimersKeepTheGameGoing
  NeverOverpaid
  RoundsDoNotOverlap
  CuesMatchTheCycle
  CountdownIsHonest
  EveryWordIsPlayed
  TotalIsSavedOnce
PROPERTIES
  TotalIsSaved
CHECK_DEADLOCK FALSE
