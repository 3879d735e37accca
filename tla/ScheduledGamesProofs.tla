------------------------ MODULE ScheduledGamesProofs ------------------------
(***************************************************************************)
(* What ScheduledGames promises for any number of requests, of invitees    *)
(* and of restarts, and for all delays and timeouts.                       *)
(*                                                                         *)
(* None of the properties is inductive.  What they need is that the stage  *)
(* of a request, its room, its row and its mail jobs go together           *)
(* (StagesFit, JobsFit), and that the timeout of a lobby has at least as   *)
(* far to go as the start of its game (LobbyFits).                         *)
(***************************************************************************)
EXTENDS ScheduledGames, TLAPS

-----------------------------------------------------------------------------
(* Type correctness *)

\* The lobby's timeout is never asked to wait a negative time.
LEMMA TimeoutsAreNatural ==
  ASSUME TypeOK
  PROVE  /\ \A d \in Nat: TimeoutAfter(d) \in Nat
         /\ \A r \in Requests: autoDisposeTime(r) \in Nat
         /\ \A r \in Requests: autoDisposeTime(r) <= MaxDelay =>
              autoDisposeTime(r) >= untilStart[r] + IdleTimeout
<1>1. \A r \in Requests: Longer(0, untilStart[r]) + IdleTimeout \in Nat
  BY DelaysAssumption DEF TypeOK, Longer
<1>2. \A r \in Requests: Longer(0, untilStart[r]) + IdleTimeout >= untilStart[r] + IdleTimeout
  BY DelaysAssumption DEF TypeOK, Longer
<1>3. NaN \in Nat /\ ~(NaN <= MaxDelay)
  BY DelaysAssumption DEF NaN
<1>4. \A d \in Nat: TimeoutAfter(d) \in Nat
  BY DEF TimeoutAfter
<1> QED BY <1>1, <1>2, <1>3, <1>4 DEF autoDisposeTime

\* Whatever the type of a game, its start is some number of units away.
LEMMA StartsAreTimes ==
  ASSUME NEW type \in Schedules, NEW ahead \in Starts(type)
  PROVE  ahead \in Int
<1>1. CASE type = "FUTURE"
  BY <1>1, DelaysAssumption DEF Starts
<1>2. CASE type = "INSTANT"
  BY <1>2, DelaysAssumption DEF Starts
<1>3. CASE type = "unparsable"
  BY <1>3 DEF Starts
<1> QED BY <1>1, <1>2, <1>3 DEF Schedules

\* What a table of invitations is after an update of one entry.
LEMMA OneEntryChanges ==
  ASSUME NEW Values, NEW f \in [Requests -> [Invitees -> Values]],
         NEW r \in Requests, NEW i \in Invitees, NEW v \in Values,
         NEW g, g = [f EXCEPT ![r][i] = v]
  PROVE  /\ g \in [Requests -> [Invitees -> Values]]
         /\ \A q \in Requests, j \in Invitees:
              g[q][j] = IF q = r /\ j = i THEN v ELSE f[q][j]
<1> DEFINE row == [f[r] EXCEPT ![i] = v]
<1>1. g = [f EXCEPT ![r] = row]
  OBVIOUS
<1>2. row \in [Invitees -> Values] /\ \A j \in Invitees: row[j] = IF j = i THEN v ELSE f[r][j]
  OBVIOUS
<1> HIDE DEF row
<1> QED BY <1>1, <1>2

LEMMA InitTypeOK == Init => TypeOK
  BY DelaysAssumption DEF Init, TypeOK, Stages, InFlight, Schedules, JobStates

LEMMA TypeOKStep == TypeOK /\ [Next]_vars => TypeOK'
<1> SUFFICES ASSUME TypeOK, [Next]_vars PROVE TypeOK'
  OBVIOUS
<1> USE DEF TypeOK, roomVars, mailVars, requestVars
<1>1. ASSUME NEW r \in Requests, NEW type \in Schedules, NEW ahead \in Starts(type),
             Create(r, type, ahead)
      PROVE  TypeOK'
  BY <1>1, StartsAreTimes DEF Create, Stages, InFlight
<1>2. ASSUME NEW r \in Requests, RoomCreated(r) PROVE TypeOK'
  BY <1>2, TimeoutsAreNatural DEF RoomCreated, Stages, InFlight
<1>3. ASSUME NEW r \in Requests, CreateRoomFails(r) \/ StoringFails(r) PROVE TypeOK'
  BY <1>3 DEF CreateRoomFails, StoringFails, Stages, InFlight
<1>4. ASSUME NEW r \in Requests, ScheduledGameStored(r) PROVE TypeOK'
  BY <1>4 DEF ScheduledGameStored, sendInvitationEmails, Stages, InFlight, JobStates
<1>5. ASSUME NEW r \in Requests, NEW i \in Invitees, JobAdded(r, i) \/ AddFails(r, i)
      PROVE  TypeOK'
  <2>1. /\ \/ job' = [job EXCEPT ![r][i] = "waiting"]
           \/ job' = [job EXCEPT ![r][i] = "lost"]
        /\ \/ stage' = stage
           \/ stage' = [stage EXCEPT ![r] = "answered"]
           \/ stage' = [stage EXCEPT ![r] = "failed"]
        /\ UNCHANGED <<schedule, stored, untilStart, roomVars, mails, restarts>>
    BY <1>5 DEF JobAdded, AddFails
  <2>2. job' \in [Requests -> [Invitees -> JobStates]]
    <3>1. /\ "waiting" \in JobStates /\ "lost" \in JobStates /\ "active" \in JobStates
          /\ "mailed" \in JobStates /\ "done" \in JobStates /\ "failed" \in JobStates
      BY DEF JobStates
    <3>2. CASE job' = [job EXCEPT ![r][i] = "waiting"]
      BY <3>1, <3>2, OneEntryChanges
    <3>3. CASE job' = [job EXCEPT ![r][i] = "lost"]
      BY <3>1, <3>3, OneEntryChanges
    <3> QED BY <2>1, <3>2, <3>3
  <2>3. stage' \in [Requests -> Stages]
    BY <2>1 DEF Stages
  <2> QED BY <2>1, <2>2, <2>3
<1>6. ASSUME NEW r \in Requests, NEW i \in Invitees,
             TakeJob(r, i) \/ MailAccepted(r, i) \/ JobCompletes(r, i) \/ JobFails(r, i)
      PROVE  TypeOK'
  <2>1. /\ \E to \in {"active", "mailed", "done", "failed"}:
             job' = [job EXCEPT ![r][i] = to]
        /\ mails' = mails \/ mails' = [mails EXCEPT ![r][i] = mails[r][i] + 1]
        /\ UNCHANGED <<stage, schedule, stored, untilStart, roomVars, restarts>>
    BY <1>6 DEF TakeJob, MailAccepted, JobCompletes, JobFails, Moves
  <2>2. job' \in [Requests -> [Invitees -> JobStates]]
    <3>1. /\ "waiting" \in JobStates /\ "lost" \in JobStates /\ "active" \in JobStates
          /\ "mailed" \in JobStates /\ "done" \in JobStates /\ "failed" \in JobStates
      BY DEF JobStates
    <3> QED BY <2>1, <3>1, OneEntryChanges
  <2>3. mails' \in [Requests -> [Invitees -> Nat]]
    <3>1. mails[r][i] + 1 \in Nat
      OBVIOUS
    <3> QED BY <2>1, <3>1, OneEntryChanges
  <2> QED BY <2>1, <2>2, <2>3
<1>7. ASSUME NEW r \in Requests, Join(r) \/ LeaveLobby(r) PROVE TypeOK'
  BY <1>7 DEF Join, LeaveLobby
<1>8. ASSUME NEW r \in Requests, TimeoutFires(r) PROVE TypeOK'
  BY <1>8, TimeoutsAreNatural, DelaysAssumption DEF TimeoutFires
<1>9. CASE Tick
  <2>1. \A r \in Requests: room[r] = "open" => left[r] - 1 \in Nat
    <3>1. \A r \in Requests: room[r] = "open" => left[r] # 0
      BY <1>9 DEF Tick, Due
    <3> QED BY <3>1
  <2>2. left' \in [Requests -> Nat]
    BY <1>9, <2>1 DEF Tick
  <2>3. untilStart' \in [Requests -> Int]
    BY <1>9, DelaysAssumption DEF Tick
  <2> QED BY <1>9, <2>2, <2>3 DEF Tick
<1>10. CASE Restart
  <2>1. stage' \in [Requests -> Stages]
    BY <1>10 DEF Restart, Stages
  <2>2. room' \in [Requests -> {"none", "open", "gone"}]
    BY <1>10 DEF Restart
  <2>3. job' \in [Requests -> [Invitees -> JobStates]]
    BY <1>10 DEF Restart, JobStates
  <2>4. restarts' \in 0..MaxRestarts /\ occupied' \in [Requests -> BOOLEAN]
    BY <1>10, DelaysAssumption DEF Restart
  <2> QED BY <1>10, <2>1, <2>2, <2>3, <2>4 DEF Restart
<1>11. CASE UNCHANGED vars
  BY <1>11 DEF vars
<1> QED
  BY <1>1, <1>2, <1>3, <1>4, <1>5, <1>6, <1>7, <1>8, <1>9, <1>10, <1>11
  DEF Next, ServiceStep, QueueStep, ClientStep

\* Every variable keeps its type; in particular no timeout is ever left to wait a
\* negative time.
THEOREM ScheduleTypeCorrectness == Spec => []TypeOK
  BY InitTypeOK, TypeOKStep, PTL DEF Spec

-----------------------------------------------------------------------------
(* Requests and their jobs *)

\* A request has no room before one is created for it, and no jobs before its game
\* is stored; while it invites, no addition has failed.
StagesFit == \A r \in Requests:
  /\ stage[r] \in {"none", "creatingRoom"} => room[r] = "none"
  /\ stage[r] \in {"storing", "inviting", "answered"} => room[r] # "none"
  /\ r \in stored => room[r] # "none"
  /\ stage[r] \in {"none", "creatingRoom", "storing"} =>
       \A i \in Invitees: job[r][i] = "none"
  /\ stage[r] = "inviting" => \A i \in Invitees: job[r][i] \notin {"none", "lost"}

\* A job belongs to a stored game, and its state says how often it may have been
\* mailed.
JobsFit == \A r \in Requests, i \in Invitees:
  /\ job[r][i] # "none" => r \in stored
  /\ job[r][i] \in {"none", "adding", "lost"} => mails[r][i] = 0
  /\ job[r][i] \in {"waiting", "active", "failed"} => mails[r][i] <= restarts
  /\ mails[r][i] <= 1 + restarts

RequestInv == TypeOK /\ StagesFit /\ JobsFit /\ AnsweredMeansInvited

LEMMA RequestInvInit == Init => RequestInv
  BY InitTypeOK DEF Init, RequestInv, StagesFit, JobsFit, AnsweredMeansInvited

LEMMA RequestInvStep == RequestInv /\ [Next]_vars => RequestInv'
<1> SUFFICES ASSUME RequestInv, [Next]_vars PROVE RequestInv'
  OBVIOUS
<1>0. TypeOK'
  BY TypeOKStep DEF RequestInv
<1> DEFINE Rest == StagesFit /\ JobsFit /\ AnsweredMeansInvited
<1> SUFFICES Rest'
  BY <1>0 DEF RequestInv
<1> USE DEF RequestInv, TypeOK, StagesFit, JobsFit, AnsweredMeansInvited,
            roomVars, mailVars, requestVars
<1>1. ASSUME NEW r \in Requests, NEW type \in Schedules, NEW ahead \in Starts(type),
             Create(r, type, ahead)
      PROVE  Rest'
  BY <1>1 DEF Create
<1>2. ASSUME NEW r \in Requests, RoomCreated(r) PROVE Rest'
  BY <1>2 DEF RoomCreated
<1>3. ASSUME NEW r \in Requests, CreateRoomFails(r) \/ StoringFails(r) PROVE Rest'
  <2>1. /\ stage' = [stage EXCEPT ![r] = "failed"]
        /\ UNCHANGED <<schedule, stored, room, job, mails, restarts>>
    BY <1>3 DEF CreateRoomFails, StoringFails
  <2> QED BY <2>1
<1>4. ASSUME NEW r \in Requests, ScheduledGameStored(r) PROVE Rest'
  <2>1. /\ stage' = [stage EXCEPT ![r] = "inviting"] /\ stored' = stored \cup {r}
        /\ job' = [job EXCEPT ![r] = [i \in Invitees |-> "adding"]]
        /\ schedule' = schedule /\ room' = room /\ mails' = mails /\ restarts' = restarts
        /\ stage[r] = "storing"
    BY <1>4 DEF ScheduledGameStored, sendInvitationEmails
  <2>2. \A i \in Invitees: mails[r][i] = 0
    BY <2>1
  <2> QED BY <2>1, <2>2
<1>5. ASSUME NEW r \in Requests, NEW i \in Invitees, JobAdded(r, i) PROVE Rest'
  <2>1. /\ job[r][i] = "adding" /\ job' = [job EXCEPT ![r][i] = "waiting"]
        /\ UNCHANGED <<schedule, stored, room, mails, restarts>>
    BY <1>5 DEF JobAdded
  <2>2. \/ stage' = stage
        \/ /\ stage[r] = "inviting" /\ stage' = [stage EXCEPT ![r] = "answered"]
           /\ \A j \in Invitees: job'[r][j] # "adding"
    BY <1>5 DEF JobAdded, Settled
  <2>3. \A q \in Requests, j \in Invitees:
          job'[q][j] = IF q = r /\ j = i THEN "waiting" ELSE job[q][j]
    BY <2>1, OneEntryChanges DEF JobStates
  <2>4. StagesFit'
    BY <2>1, <2>2, <2>3
  <2>5. JobsFit'
    BY <2>1, <2>3
  <2>6. AnsweredMeansInvited'
    BY <2>1, <2>2, <2>3
  <2> QED BY <2>4, <2>5, <2>6
<1>6. ASSUME NEW r \in Requests, NEW i \in Invitees, AddFails(r, i) PROVE Rest'
  <2>1. /\ job[r][i] = "adding" /\ job' = [job EXCEPT ![r][i] = "lost"]
        /\ stage' = [stage EXCEPT ![r] = "failed"]
        /\ UNCHANGED <<schedule, stored, room, mails, restarts>>
    BY <1>6 DEF AddFails
  <2>2. \A q \in Requests, j \in Invitees:
          job'[q][j] = IF q = r /\ j = i THEN "lost" ELSE job[q][j]
    BY <2>1, OneEntryChanges DEF JobStates
  <2>3. StagesFit'
    BY <2>1, <2>2
  <2>4. JobsFit'
    BY <2>1, <2>2
  <2>5. AnsweredMeansInvited'
    BY <2>1, <2>2
  <2> QED BY <2>3, <2>4, <2>5
<1>7. ASSUME NEW r \in Requests, NEW i \in Invitees,
             TakeJob(r, i) \/ JobCompletes(r, i) \/ JobFails(r, i)
      PROVE  Rest'
  <2>1. PICK to \in JobStates:
          /\ job' = [job EXCEPT ![r][i] = to]
          /\ \/ job[r][i] = "waiting" /\ to = "active"
             \/ job[r][i] = "mailed" /\ to = "done"
             \/ job[r][i] = "active" /\ to = "failed"
          /\ UNCHANGED <<stage, schedule, stored, room, mails, restarts>>
    BY <1>7 DEF TakeJob, JobCompletes, JobFails, Moves, JobStates
  <2>2. \A q \in Requests, j \in Invitees:
          job'[q][j] = IF q = r /\ j = i THEN to ELSE job[q][j]
    BY <2>1, OneEntryChanges
  <2>3. StagesFit'
    BY <2>1, <2>2
  <2>4. JobsFit'
    BY <2>1, <2>2
  <2>5. AnsweredMeansInvited'
    BY <2>1, <2>2
  <2> QED BY <2>3, <2>4, <2>5
<1>8. ASSUME NEW r \in Requests, NEW i \in Invitees, MailAccepted(r, i) PROVE Rest'
  <2>1. /\ job[r][i] = "active" /\ job' = [job EXCEPT ![r][i] = "mailed"]
        /\ mails' = [mails EXCEPT ![r][i] = mails[r][i] + 1]
        /\ UNCHANGED <<stage, schedule, stored, room, restarts>>
    BY <1>8 DEF MailAccepted, Moves
  <2>2. \A q \in Requests, j \in Invitees:
          /\ job'[q][j] = IF q = r /\ j = i THEN "mailed" ELSE job[q][j]
          /\ mails'[q][j] = IF q = r /\ j = i THEN mails[r][i] + 1 ELSE mails[q][j]
    <3>1. mails[r][i] + 1 \in Nat /\ "mailed" \in JobStates
      BY DEF JobStates
    <3> QED BY <2>1, <3>1, OneEntryChanges
  <2>3. StagesFit'
    BY <2>1, <2>2
  <2>4. JobsFit'
    BY <2>1, <2>2
  <2>5. AnsweredMeansInvited'
    BY <2>1, <2>2
  <2> QED BY <2>3, <2>4, <2>5
<1>9. ASSUME NEW r \in Requests, Join(r) \/ LeaveLobby(r) PROVE Rest'
  BY <1>9 DEF Join, LeaveLobby
<1>10. ASSUME NEW r \in Requests, TimeoutFires(r) PROVE Rest'
  BY <1>10 DEF TimeoutFires, Due
<1>11. CASE Tick
  BY <1>11 DEF Tick
<1>12. CASE Restart
  <2>1. /\ stored' = stored /\ schedule' = schedule /\ mails' = mails
        /\ restarts' = restarts + 1 /\ restarts \in Nat
    BY <1>12, DelaysAssumption DEF Restart
  <2>2. \A r \in Requests:
          /\ stage'[r] = IF stage[r] \in InFlight THEN "failed" ELSE stage[r]
          /\ room[r] = "open" => room'[r] = "gone"
          /\ room[r] # "open" => room'[r] = room[r]
    BY <1>12 DEF Restart
  <2>3. \A r \in Requests, i \in Invitees:
          /\ job[r][i] = "adding" => job'[r][i] = "lost"
          /\ job[r][i] \in {"active", "mailed"} => job'[r][i] = "waiting"
          /\ job[r][i] \notin {"adding", "active", "mailed"} => job'[r][i] = job[r][i]
    BY <1>12 DEF Restart
  <2>4. StagesFit'
    <3> SUFFICES ASSUME NEW r \in Requests
                 PROVE  /\ stage'[r] \in {"none", "creatingRoom"} => room'[r] = "none"
                        /\ stage'[r] \in {"storing", "inviting", "answered"} => room'[r] # "none"
                        /\ r \in stored' => room'[r] # "none"
                        /\ stage'[r] \in {"none", "creatingRoom", "storing"} =>
                             \A i \in Invitees: job'[r][i] = "none"
                        /\ stage'[r] # "inviting"
      OBVIOUS
    <3>1. stage'[r] \in {"none", "creatingRoom", "storing", "inviting", "answered"} =>
            stage'[r] = stage[r] /\ stage[r] \in {"none", "answered"}
      BY <2>2 DEF InFlight
    <3>2. room'[r] = room[r] \/ (room[r] = "open" /\ room'[r] = "gone")
      BY <2>2
    <3>3. \A i \in Invitees: job[r][i] = "none" => job'[r][i] = "none"
      BY <2>3
    <3> QED BY <2>1, <3>1, <3>2, <3>3
  <2>5. JobsFit'
    BY <2>1, <2>3
  <2>6. AnsweredMeansInvited'
    <3>1. \A r \in Requests: stage'[r] = "answered" => stage[r] = "answered"
      BY <2>2
    <3>2. ASSUME NEW r \in Requests, schedule[r] = "FUTURE", stage[r] = "answered", NEW i \in Invitees
          PROVE  job'[r][i] \notin {"none", "adding", "lost"}
      <4>1. job[r][i] \notin {"none", "adding", "lost"}
        BY <3>2
      <4> QED BY <2>3, <4>1
    <3> QED BY <2>1, <3>1, <3>2
  <2> QED BY <2>4, <2>5, <2>6
<1>13. CASE UNCHANGED vars
  BY <1>13 DEF vars
<1> QED
  BY <1>1, <1>2, <1>3, <1>4, <1>5, <1>6, <1>7, <1>8, <1>9, <1>10, <1>11, <1>12, <1>13
  DEF Next, ServiceStep, QueueStep, ClientStep

LEMMA RequestInvariance == Spec => []RequestInv
  BY RequestInvInit, RequestInvStep, PTL DEF Spec

\* However requests, failures and restarts interleave, nobody is invited to a game
\* that is not stored, and no game is stored without a room.
THEOREM InvitationsAreRealAlways == Spec => []InvitationsAreReal
<1>1. RequestInv => InvitationsAreReal
  BY DEF RequestInv, TypeOK, StagesFit, JobsFit, InvitationsAreReal
<1> QED BY <1>1, RequestInvariance, PTL

\* A request for a FUTURE game that was answered has none of its invitations missing.
THEOREM AnsweredMeansInvitedAlways == Spec => []AnsweredMeansInvited
<1>1. RequestInv => AnsweredMeansInvited
  BY DEF RequestInv
<1> QED BY <1>1, RequestInvariance, PTL

\* The number of mails per invitation is bounded by the number of restarts.
THEOREM NoSpamAlways == Spec => []NoSpam
<1>1. RequestInv => NoSpam
  BY DEF RequestInv, JobsFit, NoSpam
<1> QED BY <1>1, RequestInvariance, PTL

-----------------------------------------------------------------------------
(* Lobbies *)

\* The timeout of a lobby fires no earlier than IdleTimeout after the start of its
\* game.
LobbyFits == \A r \in Requests:
  room[r] = "open" /\ restarts = 0 /\ delay[r] <= MaxDelay =>
    left[r] >= untilStart[r] + IdleTimeout

LobbyInv == TypeOK /\ StagesFit /\ LobbyFits /\ LobbyWaitsForStart

LEMMA LobbyInvStep == RequestInv /\ LobbyInv /\ [Next]_vars => LobbyInv'
<1> SUFFICES ASSUME RequestInv, LobbyInv, [Next]_vars PROVE LobbyInv'
  OBVIOUS
<1>0. TypeOK' /\ StagesFit'
  BY RequestInvStep DEF RequestInv
<1> DEFINE Rest == LobbyFits /\ LobbyWaitsForStart
<1> SUFFICES Rest'
  BY <1>0 DEF LobbyInv
<1> USE DelaysAssumption DEF LobbyInv, TypeOK, LobbyFits, LobbyWaitsForStart,
                             roomVars, mailVars, requestVars
<1>1. ASSUME NEW r \in Requests, NEW type \in Schedules, NEW ahead \in Starts(type),
             Create(r, type, ahead)
      PROVE  Rest'
  BY <1>1 DEF Create, StagesFit
<1>2. ASSUME NEW r \in Requests, RoomCreated(r) PROVE Rest'
  <2>1. /\ delay'[r] = autoDisposeTime(r) /\ room'[r] = "open"
        /\ left'[r] = TimeoutAfter(autoDisposeTime(r))
        /\ untilStart' = untilStart /\ restarts' = restarts
    BY <1>2 DEF RoomCreated
  <2>2. delay'[r] <= MaxDelay => left'[r] >= untilStart'[r] + IdleTimeout
    BY <2>1, TimeoutsAreNatural DEF TimeoutAfter
  <2>3. \A q \in Requests \ {r}:
          delay'[q] = delay[q] /\ room'[q] = room[q] /\ left'[q] = left[q]
    BY <1>2 DEF RoomCreated
  <2> QED BY <2>1, <2>2, <2>3
<1>3. ASSUME NEW r \in Requests, TimeoutFires(r) PROVE Rest'
  <2>0. TimeoutAfter(LeaveTimeout) = LeaveTimeout
    BY DEF TimeoutAfter
  <2>a. /\ room[r] = "open" /\ left[r] = 0
        /\ UNCHANGED <<untilStart, delay, restarts>>
        /\ \/ room' = [room EXCEPT ![r] = "gone"] /\ left' = left
           \/ left' = [left EXCEPT ![r] = LeaveTimeout] /\ room' = room
    BY <1>3, <2>0 DEF TimeoutFires, Due
  <2>1. /\ room[r] = "open" /\ left[r] = 0
        /\ UNCHANGED <<untilStart, delay, restarts>>
        /\ room'[r] = "gone" \/ (room'[r] = "open" /\ left'[r] = LeaveTimeout)
        /\ \A q \in Requests \ {r}: room'[q] = room[q] /\ left'[q] = left[q]
    BY <2>a
  <2>2. restarts = 0 /\ delay[r] <= MaxDelay =>
          untilStart[r] + IdleTimeout <= 0 /\ untilStart[r] <= -IdleTimeout
    <3>1. untilStart[r] \in Int /\ IdleTimeout \in Int
      OBVIOUS
    <3> QED BY <2>1, <3>1
  <2>3. LobbyFits'
    BY <2>1, <2>2
  <2>4. LobbyWaitsForStart'
    BY <2>1, <2>2
  <2> QED BY <2>3, <2>4
<1>4. CASE Tick
  <2>1. /\ room' = room /\ delay' = delay /\ restarts' = restarts
        /\ \A r \in Requests: room[r] = "open" => left[r] > 0 /\ left'[r] = left[r] - 1
    BY <1>4 DEF Tick, Due
  <2>2. \A r \in Requests: untilStart'[r] =
          IF untilStart[r] > -IdleTimeout THEN untilStart[r] - 1 ELSE untilStart[r]
    BY <1>4 DEF Tick
  <2>3. LobbyFits'
    BY <2>1, <2>2
  <2>4. LobbyWaitsForStart'
    BY <2>1, <2>2
  <2> QED BY <2>3, <2>4
<1>5. CASE Restart
  BY <1>5 DEF Restart
<1>6. ASSUME NEW r \in Requests,
             \/ CreateRoomFails(r) \/ ScheduledGameStored(r) \/ StoringFails(r)
             \/ Join(r) \/ LeaveLobby(r)
             \/ \E i \in Invitees: QueueStep(r, i)
      PROVE  Rest'
  BY <1>6 DEF CreateRoomFails, ScheduledGameStored, StoringFails, Join, LeaveLobby,
     QueueStep, JobAdded, AddFails, TakeJob, MailAccepted, JobCompletes, JobFails, Moves
<1>7. CASE UNCHANGED vars
  BY <1>7 DEF vars
<1> QED
  BY <1>1, <1>2, <1>3, <1>4, <1>5, <1>6, <1>7 DEF Next, ServiceStep, ClientStep

\* Without restarts and overlong delays a lobby is never disposed of before
\* IdleTimeout after the scheduled start, whoever comes and goes meanwhile.
THEOREM LobbyWaitsForStartAlways == Spec => []LobbyWaitsForStart
<1>1. Init => LobbyInv
  BY RequestInvInit
  DEF Init, RequestInv, LobbyInv, LobbyFits, LobbyWaitsForStart
<1>2. LobbyInv => LobbyWaitsForStart
  BY DEF LobbyInv
<1> QED BY <1>1, <1>2, LobbyInvStep, RequestInvariance, PTL DEF Spec
=============================================================================
