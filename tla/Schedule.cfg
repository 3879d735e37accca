SPECIFICATION FairSpec
CONSTANTS
  r1 = r1
  Requests = {r1}
  i1 = i1
  i2 = i2
  Invitees = {i1, i2}
  Delays = {1, 3}
  IdleTimeout = 2
  LeaveTimeout = 1
  MaxDelay = 4
  MaxRestarts = 1
INVARIANTS
  TypeOK
  LobbyWaitsForStart
  InvitationsAreReal
  AnsweredMeansInvited
  NoSpam
PROPERTIES
  LobbiesAreReclaimed
  InvitationsGoOut
CHECK_DEADLOCK FALSE
