SPECIFICATION FairFlowSpec
CONSTANTS
  s1 = s1
  NoSession = NoSession
  Sessions = {s1}
  MaxClients = 2
  CycleTime <- MCCycleTime
  StartCountdown = 1
  MidGameCountdown = 1
  WordCounts = {1}
  DbFails = FALSE
  MaxRequests = 1
  MinTime <- MCMinTime
PROPERTIES
  AbandonedRoomsAreDisposed
CHECK_DEADLOCK FALSE
