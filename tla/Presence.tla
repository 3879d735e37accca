------------------------------ MODULE Presence ------------------------------
(***************************************************************************)
(* Who is in which room, as the Socket.IO gateway                          *)
(* (src/websocket/websocket.gateway.ts) keeps it and tells it to clients.  *)
(*                                                                         *)
(* The gateway keeps connectedUsers, from which it computes the rosters it *)
(* sends; Socket.IO keeps the members of its rooms, to whom they are sent. *)
(* A message that waits for Socket.IO (await client.join, await            *)
(* client.leave) is two steps, with any others in between.  The names and  *)
(* flags of a user are relayed and never looked at: a user is the room it  *)
(* announced.  The voice message changes no state and is left out.  A      *)
(* definition X_Slip is X with a plausible slip in it.                     *)
(***************************************************************************)
CONSTANTS
  Clients,  \* sockets; one that has disconnected never comes back
  Rooms,
  NoRoom    \* undefined, which Socket.IO takes for the name of a room

ASSUME NoRoomAssumption == NoRoom \notin Rooms

VARIABLES
  connectedUsers,  \* the room each user announced, NoRoom before it does
  online,          \* the sockets connected now
  offline,         \* those that have disconnected
  members,         \* the sockets in each room of Socket.IO
  waiting,         \* the messages waiting for Socket.IO
  roster           \* the users last told to each client

vars == <<connectedUsers, online, offline, members, waiting, roster>>

RoomNames == Rooms \cup {NoRoom}
Messages == [kind: {"user-information", "leave-room"}, from: Clients, room: RoomNames]

\* Every variable has its type.
TypeOK ==
  /\ DOMAIN connectedUsers \subseteq Clients
  /\ connectedUsers \in [DOMAIN connectedUsers -> RoomNames]
  /\ online \subseteq Clients /\ offline \subseteq Clients
  /\ members \in [RoomNames -> SUBSET Clients]
  /\ waiting \subseteq Messages
  /\ roster \in [Clients -> SUBSET Clients]

Init ==
  /\ connectedUsers = [c \in {} |-> NoRoom]
  /\ online = {} /\ offline = {}
  /\ members = [r \in RoomNames |-> {}]
  /\ waiting = {}
  /\ roster = [c \in Clients |-> {}]

\* emit to a room: all its members are told.
Told(r, users) == [c \in Clients |-> IF c \in members[r] THEN users ELSE roster[c]]

returnUsersInTheRoom(r) == {c \in DOMAIN connectedUsers: connectedUsers[c] = r}

\* The room is the one the user announced last, whatever it has left since.
returnUsersInARoomWithUserRemoved(u) ==
  IF u \in DOMAIN connectedUsers /\ connectedUsers[u] # NoRoom
  THEN returnUsersInTheRoom(connectedUsers[u]) \ {u}
  ELSE {}

-----------------------------------------------------------------------------
(* The handlers *)

Connect(c) ==
  /\ c \notin online \cup offline
  /\ online' = online \cup {c}
  /\ connectedUsers' = [d \in DOMAIN connectedUsers \cup {c} |->
                         IF d = c THEN NoRoom ELSE connectedUsers[d]]
  /\ UNCHANGED <<offline, members, waiting, roster>>

Message(kind, c, r) == [kind |-> kind, from |-> c, room |-> r]

\* user-information: the user is listed at once and joins its room.  The room
\* it announced before is neither left nor told.
UserInformation(c, r) ==
  /\ c \in online
  /\ Message("user-information", c, r) \notin waiting  \* bound: one at a time
  /\ connectedUsers' = [connectedUsers EXCEPT ![c] = r]
  /\ members' = [members EXCEPT ![r] = @ \cup {c}]
  /\ waiting' = waiting \cup {Message("user-information", c, r)}
  /\ UNCHANGED <<online, offline, roster>>

Joined_ListsAgain(c, r) ==
  /\ Message("user-information", c, r) \in waiting
  /\ waiting' = waiting \ {Message("user-information", c, r)}
  /\ connectedUsers' = [d \in DOMAIN connectedUsers \cup {c} |->
                         IF d = c THEN r ELSE connectedUsers[d]]
  /\ roster' = Told(r, returnUsersInTheRoom(r))
  /\ UNCHANGED <<online, offline, members>>
Joined_TellsTheOthers(c, r) ==
  /\ Message("user-information", c, r) \in waiting
  /\ waiting' = waiting \ {Message("user-information", c, r)}
  /\ roster' = [Told(r, returnUsersInTheRoom(r)) EXCEPT ![c] = roster[c]]
  /\ UNCHANGED <<connectedUsers, online, offline, members>>
\* The join is done: the room is told who is in it.
Joined(c, r) ==
  /\ Message("user-information", c, r) \in waiting
  /\ waiting' = waiting \ {Message("user-information", c, r)}
  /\ roster' = Told(r, returnUsersInTheRoom(r))
  /\ UNCHANGED <<connectedUsers, online, offline, members>>

\* leave-room: the user stays listed.
LeaveRoom(c, r) ==
  /\ c \in online
  /\ Message("leave-room", c, r) \notin waiting  \* bound: one at a time
  /\ members' = [members EXCEPT ![r] = @ \ {c}]
  /\ waiting' = waiting \cup {Message("leave-room", c, r)}
  /\ UNCHANGED <<connectedUsers, online, offline, roster>>

\* The leave is done: the room is told, of the room the user announced last.
Left(c, r) ==
  /\ Message("leave-room", c, r) \in waiting
  /\ waiting' = waiting \ {Message("leave-room", c, r)}
  /\ roster' = Told(r, returnUsersInARoomWithUserRemoved(c))
  /\ UNCHANGED <<connectedUsers, online, offline, members>>

-----------------------------------------------------------------------------
(* A socket closes: Socket.IO has it leave its rooms, then calls the gateway. *)

LeavesAllRooms(c) == members' = [r \in RoomNames |-> members[r] \ {c}]

Disconnect_DeletesFirst(c) ==
  /\ c \in online
  /\ online' = online \ {c} /\ offline' = offline \cup {c}
  /\ LeavesAllRooms(c)
  /\ connectedUsers' = [d \in DOMAIN connectedUsers \ {c} |-> connectedUsers[d]]
  /\ UNCHANGED <<waiting, roster>>
\* The room of the user, if it has announced one, is told; then it is deleted.
Disconnect(c) ==
  /\ c \in online
  /\ online' = online \ {c} /\ offline' = offline \cup {c}
  /\ LeavesAllRooms(c)
  /\ roster' = IF connectedUsers[c] = NoRoom THEN roster
               ELSE [d \in Clients |->
                       IF d \in members'[connectedUsers[c]]
                       THEN returnUsersInARoomWithUserRemoved(c) ELSE roster[d]]
  /\ connectedUsers' = [d \in DOMAIN connectedUsers \ {c} |-> connectedUsers[d]]
  /\ UNCHANGED waiting

Next ==
  \E c \in Clients:
    \/ Connect(c)
    \/ Disconnect(c)
    \/ \E r \in RoomNames:
         UserInformation(c, r) \/ Joined(c, r) \/ LeaveRoom(c, r) \/ Left(c, r)

\* Clients may send anything in any order.
Spec == Init /\ [][Next]_vars

-----------------------------------------------------------------------------
(* Clients as the gateway expects them: a user announces one room, leaves no  *)
(* other, sends a message when the last one has been handled, and does not    *)
(* disconnect while it is leaving.                                            *)

Answered(c) == \A m \in waiting: m.from # c

KeepsToOneRoom ==
  /\ \A m \in waiting' \ waiting:
       /\ m.room # NoRoom /\ Answered(m.from)
       /\ IF m.kind = "leave-room" THEN connectedUsers[m.from] = m.room
          ELSE connectedUsers[m.from] \in {NoRoom, m.room}
  /\ \A m \in waiting: m.kind = "leave-room" => m.from \notin offline' \ offline

OneRoomSpec == Init /\ [][Next /\ KeepsToOneRoom]_vars

-----------------------------------------------------------------------------
(* What the gateway promises *)

\* connectedUsers lists exactly the sockets that are connected: nothing that
\* was waiting for Socket.IO while a socket closed brings its user back ("to
\* prevent memory leaks", handleDisconnect).
NoUserLeaks == DOMAIN connectedUsers = online

\* A member of a room whose messages have been answered was last told of
\* connected users of that room only: whoever disconnects while messages of
\* others are waiting is taken off every roster.
NoGhosts ==
  \A r \in Rooms: \A c \in members[r]:
    Answered(c) => roster[c] \subseteq returnUsersInTheRoom(r)

\* Members of a room whose messages have been answered know each other, in
\* whatever order they joined, left and disconnected, and whoever else is
\* joining or leaving.
MembersKnowEachOther ==
  \A r \in Rooms: \A c, d \in members[r]:
    Answered(c) /\ Answered(d) => d \in roster[c]
=============================================================================
