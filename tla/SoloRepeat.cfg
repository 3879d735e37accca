SPECIFICATION Spec
CONSTANTS
  s1 = s1
  NoSession = NoSession
  Sessions = {s1}
  CycleTime <- MCCycleTime
  StartCountdown = 1
  MidGameCountdown = 1
  WordCounts = {1}
  MaxGuesses = 2
  MinTime <- MCMinTime
PROPERTIES
  OnlyOpenRoundsArePaid
CHECK_DEADLOCK FALSE
