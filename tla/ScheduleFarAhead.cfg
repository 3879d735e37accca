SPECIFICATION Spec
CONSTANTS
  r1 = r1
  Requests = {r1}
  i1 = i1
  Invitees = {i1}
  Delays = {1, 3}
  IdleTimeout = 2
  LeaveTimeout = 1
  MaxDelay = 4
  MaxRestarts = 0
INVARIANTS
  DisposedAfterStart
CHECK_DEADLOCK FALSE
