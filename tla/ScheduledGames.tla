--------------------------- MODULE ScheduledGames ---------------------------
(***************************************************************************)
(* From a request for a scheduled game to its invitations and to the lobby *)
(* they lead to: ScheduledGamesService.create                              *)
(* (src/logic/scheduled-games/scheduled-games.service.ts), the idle        *)
(* timeout of the room it creates (multiplayer.room.ts), MailService and   *)
(* MailConsumer (src/mail).                                                *)
(*                                                                         *)
(* Each request is a POST /scheduled-games; the room, the stored game and  *)
(* the mail jobs of a request are named by it.  Every await of the service *)
(* is a step of its own, which may fail, and several requests interleave.  *)
(* The rooms live in the memory of the process and are lost when it        *)
(* restarts; the stored games (PostgreSQL) and the queue (Bull on Redis)   *)
(* survive.  The matchmaker, the database, the queue and the mail server   *)
(* are modelled from how the services use them.                            *)
(*                                                                         *)
(* Times are relative and in a unit much longer than a message takes.  A   *)
(* room is followed while it is a lobby; once its game is started          *)
(* MultiplayerRoom says what becomes of it.  A definition X_Slip is X with *)
(* a plausible slip in it, as in MultiplayerRoom.                          *)
(***************************************************************************)
EXTENDS Integers, FiniteSets

CONSTANTS
  Requests,      \* POST /scheduled-games requests
  Invitees,      \* positions in invitedEmails, the host's own at the end
  Delays,        \* how far ahead a FUTURE game may be scheduled
  IdleTimeout,   \* IDLE_ROOM_AUTO_DISPOSE_TIMEOUT_MILLISECONDS
  LeaveTimeout,  \* ON_LEAVE_ROOM_AUTO_DISPOSE_TIMEOUT_MILLISECONDS
  MaxDelay,      \* the longest delay setTimeout takes: 2^31 - 1 milliseconds
  MaxRestarts    \* bound: restarts of the process

ASSUME SetsAssumption == IsFiniteSet(Invitees) /\ Invitees # {}
ASSUME DelaysAssumption ==
  /\ Delays \subseteq Nat \ {0}
  /\ IdleTimeout \in Nat \ {0} /\ LeaveTimeout \in Nat \ {0}
  /\ MaxDelay \in Nat /\ IdleTimeout <= MaxDelay /\ LeaveTimeout <= MaxDelay
  /\ MaxRestarts \in Nat

VARIABLES
  stage,       \* where create() stands for a request
  stored,      \* the requests whose scheduled game is in the database
  schedule,    \* INSTANT or FUTURE; unparsable: an INSTANT request whose
               \* startTime is no date
  untilStart,  \* time left until startTime; counted down to -IdleTimeout only
  room,        \* none, open (a lobby) or gone
  occupied,    \* whether somebody is in the lobby
  delay,       \* the delay onCreate asks the idle timeout for
  left,        \* time left until the idle timeout of the room fires
  job,         \* the mail job of an invitation
  mails,       \* how often the mail server has accepted an invitation
  restarts

requestVars == <<stage, schedule, stored>>
roomVars == <<room, occupied, delay, left>>
mailVars == <<job, mails>>
vars == <<requestVars, untilStart, roomVars, mailVars, restarts>>

InFlight == {"creatingRoom", "storing", "inviting"}
Stages == {"none", "answered", "failed"} \cup InFlight
Schedules == {"INSTANT", "FUTURE", "unparsable"}
JobStates == {"none", "adding", "lost", "waiting", "active", "mailed", "done", "failed"}

\* Every variable has its type.
TypeOK ==
  /\ stage \in [Requests -> Stages] /\ stored \subseteq Requests
  /\ schedule \in [Requests -> Schedules] /\ untilStart \in [Requests -> Int]
  /\ room \in [Requests -> {"none", "open", "gone"}]
  /\ occupied \in [Requests -> BOOLEAN]
  /\ delay \in [Requests -> Nat] /\ left \in [Requests -> Nat]
  /\ job \in [Requests -> [Invitees -> JobStates]]
  /\ mails \in [Requests -> [Invitees -> Nat]]
  /\ restarts \in 0..MaxRestarts

Init ==
  /\ stage = [r \in Requests |-> "none"] /\ stored = {}
  /\ schedule = [r \in Requests |-> "INSTANT"]
  /\ untilStart = [r \in Requests |-> 0]
  /\ room = [r \in Requests |-> "none"]
  /\ occupied = [r \in Requests |-> FALSE]
  /\ delay = [r \in Requests |-> 0] /\ left = [r \in Requests |-> 0]
  /\ job = [r \in Requests |-> [i \in Invitees |-> "none"]]
  /\ mails = [r \in Requests |-> [i \in Invitees |-> 0]]
  /\ restarts = 0

-----------------------------------------------------------------------------
(* ScheduledGamesService.create *)

\* What the validation lets through: a FUTURE game starts later (IsInTheFuture).
\* The startTime of an INSTANT game is not validated but used when it is there:
\* it may be any date, a past one too, or none at all.
Starts(type) ==
  CASE type = "FUTURE" -> Delays
    [] type = "INSTANT" -> {0} \cup Delays \cup {-d: d \in Delays}
    [] type = "unparsable" -> {0}

\* A valid request.  The service asks the matchmaker for a room first.
Create(r, type, ahead) ==
  /\ stage[r] = "none"
  /\ stage' = [stage EXCEPT ![r] = "creatingRoom"]
  /\ schedule' = [schedule EXCEPT ![r] = type]
  /\ untilStart' = [untilStart EXCEPT ![r] = ahead]
  /\ UNCHANGED <<stored, roomVars, mailVars, restarts>>

Longer(a, b) == IF a > b THEN a ELSE b

\* The delay of a date that is none: setTimeout treats it like one it cannot
\* represent.
NaN == MaxDelay + 1

autoDisposeTime_FromNow(r) == IdleTimeout
autoDisposeTime_Unclamped(r) == untilStart[r] + IdleTimeout
autoDisposeTime(r) ==
  IF schedule[r] = "unparsable" THEN NaN ELSE Longer(0, untilStart[r]) + IdleTimeout

\* setTimeout: a delay it cannot represent becomes one millisecond.
TimeoutAfter(d) == IF d <= MaxDelay THEN d ELSE 0

\* The room's onCreate has run and createRoom has resolved; toISOString throws if
\* the start is no date.
RoomCreated(r) ==
  /\ stage[r] = "creatingRoom"
  /\ stage' = [stage EXCEPT ![r] = IF schedule[r] = "unparsable" THEN "failed"
                                                               ELSE "storing"]
  /\ room' = [room EXCEPT ![r] = "open"]
  /\ delay' = [delay EXCEPT ![r] = autoDisposeTime(r)]
  /\ left' = [left EXCEPT ![r] = TimeoutAfter(autoDisposeTime(r))]
  /\ UNCHANGED <<schedule, stored, untilStart, occupied, mailVars, restarts>>

\* createRoom is rejected.
CreateRoomFails(r) ==
  /\ stage[r] = "creatingRoom"
  /\ stage' = [stage EXCEPT ![r] = "failed"]
  /\ UNCHANGED <<schedule, stored, untilStart, roomVars, mailVars, restarts>>

\* sendInvitationEmails hands every invitation to the mail service at once.
sendInvitationEmails(r) ==
  /\ stage' = [stage EXCEPT ![r] = "inviting"]
  /\ job' = [job EXCEPT ![r] = [i \in Invitees |-> "adding"]]

ScheduledGameStored(r) ==
  /\ stage[r] = "storing"
  /\ stored' = stored \cup {r}
  /\ sendInvitationEmails(r)
  /\ UNCHANGED <<schedule, untilStart, roomVars, mails, restarts>>

StoringFails_GoesOn(r) ==
  /\ stage[r] = "storing"
  /\ sendInvitationEmails(r)
  /\ UNCHANGED <<schedule, stored, untilStart, roomVars, mails, restarts>>
\* The row is rejected: nothing undoes the room.
StoringFails(r) ==
  /\ stage[r] = "storing"
  /\ stage' = [stage EXCEPT ![r] = "failed"]
  /\ UNCHANGED <<schedule, stored, untilStart, roomVars, mailVars, restarts>>

\* Promise.all: the request is answered when the last invitation was queued.
Settled_First(r) == \E i \in Invitees: job'[r][i] = "waiting"
Settled(r) == \A i \in Invitees: job'[r][i] # "adding"

\* sendMail: the job is in the queue.  The code it returns is not looked at.
JobAdded(r, i) ==
  /\ job[r][i] = "adding"
  /\ job' = [job EXCEPT ![r][i] = "waiting"]
  /\ stage' = IF stage[r] = "inviting" /\ Settled(r)
              THEN [stage EXCEPT ![r] = "answered"] ELSE stage
  /\ UNCHANGED <<schedule, stored, untilStart, roomVars, mails, restarts>>

AddFails_Ignored(r, i) ==
  /\ job[r][i] = "adding"
  /\ job' = [job EXCEPT ![r][i] = "lost"]
  /\ stage' = IF stage[r] = "inviting" /\ Settled(r)
              THEN [stage EXCEPT ![r] = "answered"] ELSE stage
  /\ UNCHANGED <<schedule, stored, untilStart, roomVars, mails, restarts>>
\* The queue refuses the job: the request fails at once, the game stays stored
\* and the other invitations go on.
AddFails(r, i) ==
  /\ job[r][i] = "adding"
  /\ job' = [job EXCEPT ![r][i] = "lost"]
  /\ stage' = [stage EXCEPT ![r] = "failed"]
  /\ UNCHANGED <<schedule, stored, untilStart, roomVars, mails, restarts>>

-----------------------------------------------------------------------------
(* The lobby *)

\* Players learn the room's id from the stored game (getById).
Join(r) ==
  /\ r \in stored /\ room[r] = "open"
  /\ ~occupied[r] /\ occupied' = [occupied EXCEPT ![r] = TRUE]
  /\ UNCHANGED <<requestVars, untilStart, room, delay, left, mailVars, restarts>>

LeaveLobby(r) ==
  /\ room[r] = "open"
  /\ occupied[r] /\ occupied' = [occupied EXCEPT ![r] = FALSE]
  /\ UNCHANGED <<requestVars, untilStart, room, delay, left, mailVars, restarts>>

\* inactivityTimeoutDisposal: a `left` of 0 belongs to a timeout that is due; one
\* that has fired is armed again while somebody is in the lobby.
Due(r) == room[r] = "open" /\ left[r] = 0

TimeoutFires_AlwaysRearms(r) ==
  /\ Due(r)
  /\ left' = [left EXCEPT ![r] = TimeoutAfter(LeaveTimeout)]
  /\ UNCHANGED <<requestVars, untilStart, room, occupied, delay, mailVars, restarts>>
TimeoutFires(r) ==
  /\ Due(r)
  /\ \/ /\ ~occupied[r]
        /\ room' = [room EXCEPT ![r] = "gone"]
        /\ UNCHANGED left
     \/ /\ occupied[r]
        /\ left' = [left EXCEPT ![r] = TimeoutAfter(LeaveTimeout)]
        /\ UNCHANGED room
  /\ UNCHANGED <<requestVars, untilStart, occupied, delay, mailVars, restarts>>

\* Time passes while there is a room to dispose of.
Tick ==
  /\ \E r \in Requests: room[r] = "open"
  /\ \A r \in Requests: ~Due(r)
  /\ left' = [r \in Requests |-> IF room[r] = "open" THEN left[r] - 1 ELSE left[r]]
  /\ untilStart' = [r \in Requests |->
       IF untilStart[r] > -IdleTimeout THEN untilStart[r] - 1 ELSE untilStart[r]]
  /\ UNCHANGED <<requestVars, room, occupied, delay, mailVars, restarts>>

-----------------------------------------------------------------------------
(* MailConsumer and the queue *)

Moves(r, i, from, to) ==
  /\ job[r][i] = from
  /\ job' = [job EXCEPT ![r][i] = to]
  /\ UNCHANGED <<requestVars, untilStart, roomVars, restarts>>

TakeJob(r, i) == Moves(r, i, "waiting", "active") /\ UNCHANGED mails

MailAccepted_KeepsJob(r, i) ==
  /\ Moves(r, i, "active", "waiting")
  /\ mails' = [mails EXCEPT ![r][i] = @ + 1]
\* The mail server has accepted the mail, the queue does not know yet.
MailAccepted(r, i) ==
  /\ Moves(r, i, "active", "mailed")
  /\ mails' = [mails EXCEPT ![r][i] = @ + 1]

JobCompletes(r, i) == Moves(r, i, "mailed", "done") /\ UNCHANGED mails

\* The mail server refuses; the queue makes one attempt by default.
JobFails(r, i) == Moves(r, i, "active", "failed") /\ UNCHANGED mails

\* The process ends and starts again.  Requests in flight are never answered,
\* rooms are lost, and the queue gives a job whose worker died to another.
Restart ==
  /\ restarts < MaxRestarts /\ restarts' = restarts + 1
  /\ stage' = [r \in Requests |-> IF stage[r] \in InFlight THEN "failed" ELSE stage[r]]
  /\ room' = [r \in Requests |-> IF room[r] = "open" THEN "gone" ELSE room[r]]
  /\ occupied' = [r \in Requests |-> FALSE]
  /\ job' = [r \in Requests |-> [i \in Invitees |->
               IF job[r][i] = "adding" THEN "lost"
               ELSE IF job[r][i] \in {"active", "mailed"} THEN "waiting"
               ELSE job[r][i]]]
  /\ UNCHANGED <<schedule, stored, untilStart, delay, left, mails>>

-----------------------------------------------------------------------------
(* Specification *)

ServiceStep(r) ==
  \/ RoomCreated(r) \/ CreateRoomFails(r)
  \/ ScheduledGameStored(r) \/ StoringFails(r)
QueueStep(r, i) ==
  \/ JobAdded(r, i) \/ AddFails(r, i)
  \/ TakeJob(r, i) \/ MailAccepted(r, i) \/ JobCompletes(r, i) \/ JobFails(r, i)
ClientStep(r) ==
  \/ \E type \in Schedules: \E ahead \in Starts(type): Create(r, type, ahead)
  \/ Join(r) \/ LeaveLobby(r)

Next ==
  \/ \E r \in Requests: ServiceStep(r) \/ TimeoutFires(r) \/ ClientStep(r)
  \/ \E r \in Requests, i \in Invitees: QueueStep(r, i)
  \/ Tick \/ Restart

Spec == Init /\ [][Next]_vars

\* Every call the service makes is answered somehow, the workers of the queue
\* keep working, time passes and due timeouts fire.
Fairness ==
  /\ \A r \in Requests: WF_vars(ServiceStep(r)) /\ WF_vars(TimeoutFires(r))
  /\ \A r \in Requests, i \in Invitees: WF_vars(QueueStep(r, i))
  /\ WF_vars(Tick)

FairSpec == Spec /\ Fairness

-----------------------------------------------------------------------------
(* Properties *)

\* A lobby is kept until IdleTimeout after the scheduled start, however early the
\* room was created, unless the process restarts or the delay is none that a timeout
\* can wait.
LobbyWaitsForStart ==
  \A r \in Requests:
    room[r] = "gone" /\ restarts = 0 /\ delay[r] <= MaxDelay =>
      untilStart[r] <= -IdleTimeout

\* Whoever gets an invitation finds the game it is about: create() stores the
\* game before it invites, and makes the room before it stores the game.
InvitationsAreReal ==
  \A r \in Requests:
    /\ (\E i \in Invitees: mails[r][i] > 0) => r \in stored
    /\ r \in stored => room[r] # "none"

\* A request for a FUTURE game that was answered has every one of its invitations
\* in the queue or beyond; one failed addition is enough for it not to be answered.
AnsweredMeansInvited ==
  \A r \in Requests: schedule[r] = "FUTURE" /\ stage[r] = "answered" =>
    \A i \in Invitees: job[r][i] \notin {"none", "adding", "lost"}

\* An invitation is mailed once, and once more at most for every restart that
\* catches the worker between the mail server and the queue.
NoSpam == \A r \in Requests, i \in Invitees: mails[r][i] <= 1 + restarts

\* A lobby that nobody is in is disposed of in the end, also when the request
\* that created it has failed and no game refers to it.
LobbiesAreReclaimed ==
  \A r \in Requests: room[r] = "open" ~> room[r] = "gone" \/ occupied[r]

\* Every invitation to a FUTURE game whose request was answered is mailed or
\* refused by the mail server.
InvitationsGoOut ==
  \A r \in Requests: schedule[r] = "FUTURE" /\ stage[r] = "answered" ~>
    \A i \in Invitees: mails[r][i] > 0 \/ job[r][i] = "failed"

\* The comment in onCreate says that a room is disposed of after the game's start
\* time.  A delay that setTimeout cannot represent is replaced by a millisecond:
\* the room of a game scheduled far ahead is gone before anybody is invited.
DisposedAfterStart ==
  \A r \in Requests: room[r] = "gone" /\ restarts = 0 => untilStart[r] <= 0

\* The README has invitations sent if the game is a FUTURE one.  create() sends
\* them whatever the type.
OnlyFutureGamesInvite ==
  \A r \in Requests, i \in Invitees: mails[r][i] > 0 => schedule[r] = "FUTURE"
=============================================================================
