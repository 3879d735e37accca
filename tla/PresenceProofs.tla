--------------------------- MODULE PresenceProofs ---------------------------
(***************************************************************************)
(* What Presence promises, for any sockets and any rooms.                  *)
(*                                                                         *)
(* The first part is about clients that send anything in any order: the    *)
(* gateway lists exactly the connected sockets.  The second is about       *)
(* clients that keep to one room: a member of a room is a user listed for  *)
(* it, and a waiting message is about the room of its user (OneRoom); from *)
(* that the rosters told to the members are right.                         *)
(***************************************************************************)
EXTENDS Presence, TLAPS

Inv == TypeOK /\ NoUserLeaks /\ online \cap offline = {}

LEMMA RostersAreClients ==
  ASSUME DOMAIN connectedUsers \subseteq Clients
  PROVE  /\ \A r: returnUsersInTheRoom(r) \in SUBSET Clients
         /\ \A u: returnUsersInARoomWithUserRemoved(u) \in SUBSET Clients
  BY DEF returnUsersInTheRoom, returnUsersInARoomWithUserRemoved

LEMMA InvInit == Init => Inv
  BY DEF Init, Inv, TypeOK, NoUserLeaks

LEMMA InvStep == Inv /\ [Next]_vars => Inv'
<1> SUFFICES ASSUME Inv, [Next]_vars PROVE Inv'
  OBVIOUS
<1> USE DEF Inv, TypeOK, NoUserLeaks
<1>1. ASSUME NEW c \in Clients, Connect(c) PROVE Inv'
  BY <1>1 DEF Connect, RoomNames
<1>2. ASSUME NEW c \in Clients, Disconnect(c) PROVE Inv'
  <2>1. roster' \in [Clients -> SUBSET Clients]
    BY <1>2, RostersAreClients DEF Disconnect
  <2>2. /\ DOMAIN connectedUsers' = online'
        /\ connectedUsers' \in [DOMAIN connectedUsers' -> RoomNames]
        /\ (online \cap offline = {})'
        /\ online' \subseteq Clients /\ offline' \subseteq Clients
    BY <1>2 DEF Disconnect
  <2>3. members' \in [RoomNames -> SUBSET Clients] /\ waiting' \subseteq Messages
    BY <1>2 DEF Disconnect, LeavesAllRooms
  <2> QED BY <2>1, <2>2, <2>3
<1>3. ASSUME NEW c \in Clients, NEW r \in RoomNames, UserInformation(c, r)
      PROVE  Inv'
  <2>1. Message("user-information", c, r) \in Messages
    BY DEF Message, Messages
  <2> QED BY <1>3, <2>1 DEF UserInformation
<1>4. ASSUME NEW c \in Clients, NEW r \in RoomNames, Joined(c, r) PROVE Inv'
  BY <1>4, RostersAreClients DEF Joined, Told
<1>5. ASSUME NEW c \in Clients, NEW r \in RoomNames, LeaveRoom(c, r) PROVE Inv'
  <2>1. Message("leave-room", c, r) \in Messages
    BY DEF Message, Messages
  <2> QED BY <1>5, <2>1 DEF LeaveRoom
<1>6. ASSUME NEW c \in Clients, NEW r \in RoomNames, Left(c, r) PROVE Inv'
  BY <1>6, RostersAreClients DEF Left, Told
<1>7. CASE UNCHANGED vars
  BY <1>7 DEF vars
<1> QED BY <1>1, <1>2, <1>3, <1>4, <1>5, <1>6, <1>7 DEF Next

\* connectedUsers lists exactly the connected sockets, whatever clients send
\* and wherever their messages stand when they disconnect.
THEOREM NoUserLeaksAlways == Spec => [](TypeOK /\ NoUserLeaks)
<1>1. Inv => TypeOK /\ NoUserLeaks
  BY DEF Inv
<1> QED BY <1>1, InvInit, InvStep, PTL DEF Spec

-----------------------------------------------------------------------------
(* Clients that keep to one room *)

\* A waiting message is the only one of its user and about the room the user
\* announced; a user that is leaving is connected and no member any more.
WaitingFits ==
  /\ \A m, n \in waiting: m.from = n.from => m = n
  /\ \A m \in waiting:
       /\ m.room \in Rooms /\ m.from \in online \cup offline
       /\ m.from \in online => connectedUsers[m.from] = m.room
       /\ m.kind = "leave-room" => m.from \in online /\ m.from \notin members[m.room]

MembersAreUsers == \A r \in Rooms: members[r] \subseteq returnUsersInTheRoom(r)

OneRoom == WaitingFits /\ MembersAreUsers

OneRoomInv == Inv /\ OneRoom /\ NoGhosts /\ MembersKnowEachOther

LEMMA OneRoomInit == Init => OneRoomInv
<1> SUFFICES ASSUME Init PROVE OneRoomInv
  OBVIOUS
<1>1. Inv
  BY InvInit
<1>2. OneRoom
  BY DEF Init, OneRoom, WaitingFits, MembersAreUsers, RoomNames
<1>3. NoGhosts /\ MembersKnowEachOther
  BY DEF Init, NoGhosts, MembersKnowEachOther, RoomNames
<1> QED BY <1>1, <1>2, <1>3 DEF OneRoomInv

LEMMA OneRoomStep ==
  OneRoomInv /\ [Next /\ KeepsToOneRoom]_vars => OneRoomInv'
<1> SUFFICES ASSUME OneRoomInv, [Next /\ KeepsToOneRoom]_vars PROVE OneRoomInv'
  OBVIOUS
<1>0. Inv'
  BY InvStep DEF OneRoomInv
<1> USE DEF OneRoomInv, OneRoom, RoomNames
<1> DEFINE Rest == OneRoom /\ NoGhosts /\ MembersKnowEachOther
<1>1. ASSUME NEW c \in Clients, Connect(c) PROVE Rest'
  <2>1. \A r \in Rooms: returnUsersInTheRoom(r)' = returnUsersInTheRoom(r)
    BY <1>1, NoRoomAssumption DEF Connect, returnUsersInTheRoom, Inv, NoUserLeaks
  <2>2. WaitingFits'
    <3>1. \A m \in waiting: m.from # c
      BY <1>1 DEF Connect, WaitingFits
    <3> QED BY <1>1, <3>1 DEF Connect, WaitingFits, Inv, NoUserLeaks
  <2> QED BY <1>1, <2>1, <2>2
          DEF Connect, MembersAreUsers, NoGhosts, MembersKnowEachOther, Answered
<1>2. ASSUME NEW c \in Clients, Disconnect(c), KeepsToOneRoom PROVE Rest'
  <2>1. c \in DOMAIN connectedUsers
    BY <1>2 DEF Disconnect, Inv, NoUserLeaks
  <2>2. \A r \in Rooms: returnUsersInTheRoom(r)' = returnUsersInTheRoom(r) \ {c}
    BY <1>2 DEF Disconnect, returnUsersInTheRoom
  <2>3. \A r \in Rooms: members'[r] = members[r] \ {c}
    BY <1>2 DEF Disconnect, LeavesAllRooms
  <2>4. WaitingFits'
    <3>1. \A m \in waiting: m.kind = "leave-room" => m.from # c
      BY <1>2 DEF Disconnect, KeepsToOneRoom, Inv
    <3> QED BY <1>2, <2>3, <3>1 DEF Disconnect, WaitingFits, Inv, NoUserLeaks
  <2>5. MembersAreUsers'
    BY <2>2, <2>3 DEF MembersAreUsers
  <2>6. ASSUME NEW r \in Rooms, NEW d \in members'[r]
        PROVE  roster'[d] = IF connectedUsers[c] = r THEN returnUsersInTheRoom(r) \ {c}
                            ELSE roster[d]
    <3>1. d \in Clients /\ d # c /\ d \in members[r]
      BY <2>3, <2>6 DEF Inv, TypeOK
    <3>2. connectedUsers[d] = r
      BY <3>1 DEF MembersAreUsers, returnUsersInTheRoom
    <3>3. CASE connectedUsers[c] = r
      <4>1. roster'[d] = returnUsersInARoomWithUserRemoved(c)
        BY <1>2, <2>6, <3>1, <3>3, NoRoomAssumption DEF Disconnect
      <4> QED BY <2>1, <3>3, <4>1, NoRoomAssumption DEF returnUsersInARoomWithUserRemoved
    <3>4. CASE connectedUsers[c] # r /\ connectedUsers[c] # NoRoom
      <4>1. connectedUsers[c] \in Rooms
        BY <2>1, <3>4 DEF Inv, TypeOK
      <4>2. d \notin members'[connectedUsers[c]]
        BY <2>3, <3>2, <3>4, <4>1 DEF MembersAreUsers, returnUsersInTheRoom
      <4> QED BY <1>2, <3>1, <3>4, <4>2 DEF Disconnect
    <3>5. CASE connectedUsers[c] = NoRoom
      BY <1>2, <3>5, NoRoomAssumption DEF Disconnect
    <3> QED BY <3>3, <3>4, <3>5
  <2>7. \A d: Answered(d)' = Answered(d)
    BY <1>2 DEF Disconnect, Answered
  <2>8. NoGhosts'
    <3> SUFFICES ASSUME NEW r \in Rooms, NEW d \in members'[r], Answered(d)
                 PROVE  roster'[d] \subseteq returnUsersInTheRoom(r) \ {c}
      BY <2>2, <2>7 DEF NoGhosts
    <3>1. d \in members[r] /\ roster[d] \subseteq returnUsersInTheRoom(r)
      BY <2>3 DEF NoGhosts
    <3>2. connectedUsers[c] # r => c \notin returnUsersInTheRoom(r)
      BY DEF returnUsersInTheRoom
    <3> QED BY <2>6, <3>1, <3>2
  <2>9. MembersKnowEachOther'
    <3> SUFFICES ASSUME NEW r \in Rooms, NEW d \in members'[r], NEW e \in members'[r],
                        Answered(d), Answered(e)
                 PROVE  e \in roster'[d]
      BY <2>7 DEF MembersKnowEachOther
    <3>1. d \in members[r] /\ e \in members[r] /\ e # c
      BY <2>3
    <3> QED BY <2>6, <3>1 DEF MembersKnowEachOther, MembersAreUsers
  <2> QED BY <2>4, <2>5, <2>8, <2>9
<1>3. ASSUME NEW c \in Clients, NEW r \in RoomNames, UserInformation(c, r),
             KeepsToOneRoom
      PROVE  Rest'
  <2> DEFINE m == Message("user-information", c, r)
  <2>1. /\ m \in waiting' \ waiting /\ waiting' = waiting \cup {m}
        /\ m.room = r /\ m.from = c /\ m.kind = "user-information"
    BY <1>3 DEF UserInformation, Message
  <2>2. r \in Rooms /\ Answered(c) /\ connectedUsers[c] \in {NoRoom, r}
    BY <1>3, <2>1 DEF KeepsToOneRoom
  <2>3. c \in DOMAIN connectedUsers /\ c \in online
    BY <1>3 DEF UserInformation, Inv, NoUserLeaks
  <2>4. /\ \A q \in Rooms: members'[q] = IF q = r THEN members[q] \cup {c} ELSE members[q]
        /\ \A q \in Rooms: returnUsersInTheRoom(q) \subseteq returnUsersInTheRoom(q)'
        /\ c \in returnUsersInTheRoom(r)'
    BY <1>3, <2>2, <2>3, NoRoomAssumption
    DEF UserInformation, returnUsersInTheRoom, Inv, TypeOK
  <2>5. WaitingFits'
    <3>1. \A n \in waiting: n.from # c
      BY <2>2 DEF Answered
    <3>2. \A n \in waiting: n.from \in online => connectedUsers'[n.from] = connectedUsers[n.from]
      BY <1>3, <3>1 DEF UserInformation, Inv, NoUserLeaks
    <3> QED BY <1>3, <2>1, <2>2, <2>3, <2>4, <3>1, <3>2 DEF UserInformation, WaitingFits
  <2>6. MembersAreUsers'
    BY <2>4 DEF MembersAreUsers
  <2>7. \A d: Answered(d)' => Answered(d) /\ d # c
    BY <2>1 DEF Answered
  <2>8. NoGhosts' /\ MembersKnowEachOther'
    BY <1>3, <2>4, <2>7 DEF UserInformation, NoGhosts, MembersKnowEachOther
  <2> QED BY <2>5, <2>6, <2>8
<1>4. ASSUME NEW c \in Clients, NEW r \in RoomNames, Joined(c, r) PROVE Rest'
  <2> DEFINE m == Message("user-information", c, r)
  <2>1. /\ m \in waiting /\ waiting' = waiting \ {m}
        /\ m.room = r /\ m.from = c
    BY <1>4 DEF Joined, Message
  <2>2. r \in Rooms
    BY <2>1 DEF WaitingFits
  <2>3. WaitingFits'
    BY <1>4, <2>1 DEF Joined, WaitingFits
  <2>4. /\ \A q: returnUsersInTheRoom(q)' = returnUsersInTheRoom(q)
        /\ members' = members
    BY <1>4 DEF Joined, returnUsersInTheRoom
  <2>5. MembersAreUsers'
    BY <2>4 DEF MembersAreUsers
  <2>6. \A d: Answered(d)' => Answered(d) \/ d = c
    BY <2>1 DEF Answered
  <2>7. \A q \in Rooms: c \in members[q] => q = r
    BY <2>1 DEF WaitingFits, MembersAreUsers, returnUsersInTheRoom, Inv, NoUserLeaks
  <2>8. \A q \in Rooms: \A d \in members[q]:
          roster'[d] = IF q = r THEN returnUsersInTheRoom(r) ELSE roster[d]
    <3>1. \A q \in Rooms: \A d \in members[q]: d \in Clients /\ connectedUsers[d] = q
      BY DEF Inv, TypeOK, MembersAreUsers, returnUsersInTheRoom
    <3> QED BY <1>4, <2>2, <3>1 DEF Joined, Told
  <2>9. NoGhosts'
    BY <2>4, <2>6, <2>7, <2>8 DEF NoGhosts
  <2>10. MembersKnowEachOther'
    BY <2>4, <2>6, <2>7, <2>8 DEF MembersKnowEachOther, MembersAreUsers
  <2> QED BY <2>3, <2>5, <2>9, <2>10
<1>5. ASSUME NEW c \in Clients, NEW r \in RoomNames, LeaveRoom(c, r),
             KeepsToOneRoom
      PROVE  Rest'
  <2> DEFINE m == Message("leave-room", c, r)
  <2>1. /\ m \in waiting' \ waiting /\ waiting' = waiting \cup {m}
        /\ m.room = r /\ m.from = c /\ m.kind = "leave-room"
    BY <1>5 DEF LeaveRoom, Message
  <2>2. r \in Rooms /\ Answered(c) /\ connectedUsers[c] = r
    BY <1>5, <2>1 DEF KeepsToOneRoom
  <2>3. /\ \A q \in Rooms: members'[q] = IF q = r THEN members[q] \ {c} ELSE members[q]
        /\ \A q: returnUsersInTheRoom(q)' = returnUsersInTheRoom(q)
    BY <1>5 DEF LeaveRoom, returnUsersInTheRoom, Inv, TypeOK
  <2>4. WaitingFits'
    BY <1>5, <2>1, <2>2, <2>3 DEF LeaveRoom, WaitingFits, Answered
  <2>5. \A d: Answered(d)' => Answered(d)
    BY <2>1 DEF Answered
  <2> QED BY <1>5, <2>3, <2>4, <2>5
          DEF LeaveRoom, MembersAreUsers, NoGhosts, MembersKnowEachOther
<1>6. ASSUME NEW c \in Clients, NEW r \in RoomNames, Left(c, r) PROVE Rest'
  <2> DEFINE m == Message("leave-room", c, r)
  <2>1. /\ m \in waiting /\ waiting' = waiting \ {m}
        /\ m.room = r /\ m.from = c /\ m.kind = "leave-room"
    BY <1>6 DEF Left, Message
  <2>2. /\ r \in Rooms /\ c \in DOMAIN connectedUsers /\ connectedUsers[c] = r
        /\ c \notin members[r]
    BY <2>1 DEF WaitingFits, Inv, NoUserLeaks
  <2>3. WaitingFits'
    BY <1>6, <2>1 DEF Left, WaitingFits
  <2>4. /\ \A q: returnUsersInTheRoom(q)' = returnUsersInTheRoom(q)
        /\ members' = members
    BY <1>6 DEF Left, returnUsersInTheRoom
  <2>5. MembersAreUsers'
    BY <2>4 DEF MembersAreUsers
  <2>6. \A d: Answered(d)' => Answered(d) \/ d = c
    BY <2>1 DEF Answered
  <2>7. \A q \in Rooms: c \notin members[q]
    BY <2>2 DEF MembersAreUsers, returnUsersInTheRoom
  <2>8. \A q \in Rooms: \A d \in members[q]:
          roster'[d] = IF q = r THEN returnUsersInTheRoom(r) \ {c} ELSE roster[d]
    <3>1. \A q \in Rooms: \A d \in members[q]: d \in Clients /\ connectedUsers[d] = q
      BY DEF Inv, TypeOK, MembersAreUsers, returnUsersInTheRoom
    <3>2. returnUsersInARoomWithUserRemoved(c) = returnUsersInTheRoom(r) \ {c}
      BY <2>2, NoRoomAssumption DEF returnUsersInARoomWithUserRemoved
    <3> QED BY <1>6, <2>2, <3>1, <3>2 DEF Left, Told
  <2>9. NoGhosts'
    BY <2>4, <2>6, <2>7, <2>8 DEF NoGhosts
  <2>10. MembersKnowEachOther'
    BY <2>4, <2>6, <2>7, <2>8 DEF MembersKnowEachOther, MembersAreUsers
  <2> QED BY <2>3, <2>5, <2>9, <2>10
<1>7. CASE UNCHANGED vars
  BY <1>0, <1>7 DEF vars, WaitingFits, MembersAreUsers, NoGhosts, MembersKnowEachOther,
     Answered, returnUsersInTheRoom
<1> QED BY <1>0, <1>1, <1>2, <1>3, <1>4, <1>5, <1>6, <1>7 DEF Next

\* Clients that keep to one room: whoever disconnects, while whatever messages of
\* others are waiting, is on no roster of an answered member any more.
THEOREM NoGhostsInOneRoom == OneRoomSpec => []NoGhosts
<1>1. OneRoomInv => NoGhosts
  BY DEF OneRoomInv
<1> QED BY <1>1, OneRoomInit, OneRoomStep, PTL DEF OneRoomSpec

\* Clients that keep to one room: a member of it is told of connected users of
\* that room only, and of all the members that have been answered.
THEOREM RostersAreRightInOneRoom ==
  OneRoomSpec => [](NoGhosts /\ MembersKnowEachOther)
<1>1. OneRoomInv => NoGhosts /\ MembersKnowEachOther
  BY DEF OneRoomInv
<1> QED BY <1>1, OneRoomInit, OneRoomStep, PTL DEF OneRoomSpec
=============================================================================
