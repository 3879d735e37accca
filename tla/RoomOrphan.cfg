SPECIFICATION Spec
CONSTANTS
  s1 = s1
  NoSession = NoSession
  Sessions = {s1}
  MaxClients = 2
  CycleTime <- MCCycleTime
  StartCountdown = 1
  MidGameCountdown = 1
  WordCounts = {1, 2}
  DbFails = TRUE
  MaxRequests = 2
  MinTime <- MCMinTime
INVARIANTS
  NoOrphanedInterval
CHECK_DEADLOCK FALSE
