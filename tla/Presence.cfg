SPECIFICATION OneRoomSpec
CONSTANTS
  Clients = {c1, c2, c3}
  Rooms = {x, y}
  NoRoom = NoRoom
SYMMETRY Symmetry
INVARIANTS
  NoUserLeaks
  NoGhosts
  MembersKnowEachOther
CHECK_DEADLOCK FALSE
