-------------------------- MODULE MultiplayerRoom --------------------------
(***************************************************************************)
(* One Colyseus room of a multiplayer game, from                           *)
(* src/logic/scheduled-games/multiplayer.room.ts and the state classes it  *)
(* mutates (states/multiplayer-room.state.ts, score.state.ts,              *)
(* word.state.ts).  Node runs one callback at a time, so every handler,    *)
(* timer callback and promise continuation of the room is one action; what *)
(* interleaves is their order.                                             *)
(*                                                                         *)
(* Abstractions.  A word is whether the room has one (`word`) and which    *)
(* of its hidden cues are revealed (`shown`); the word list is its length. *)
(* A guess is whether it matches.  Names, messages to clients and logging  *)
(* are left out.  The room clock advances in steps of one second (Elapse); *)
(* timers that fall due within the same second fire in any order, except   *)
(* for the order the clock guarantees (WaitingFires).  The disposal        *)
(* timeouts are wall-clock timeouts of minutes: they may fire at any time. *)
(*                                                                         *)
(* A definition X_Slip stands before X and is X with a plausible slip of   *)
(* the code in it.  No specification uses it: putting it in the place of X *)
(* shows that a property notices the slip.                                 *)
(***************************************************************************)
EXTENDS Integers, Sequences, FiniteSets, Cycles, Functions

CONSTANTS
  Sessions,          \* ids of the client sessions; an id is never reused
  NoSession,         \* winner === null
  MaxClients,        \* MAX_USERS_PER_ROOM_LIMIT
  CycleTime,         \* FIRST_CYCLE_TIME .. FOURTH_CYCLE_TIME, in seconds
  StartCountdown,    \* START_COUNTDOWN, in seconds
  MidGameCountdown,  \* MID_GAME_COUNTDOWN, in seconds
  WordCounts,        \* the lengths a stored game's word list may have
  DbFails,           \* whether the database may fail or find nothing
  MaxRequests,       \* bound: START_GAME and START_NEW_GAME messages
  MinTime            \* bound: the clock stops before `time` falls below it

ASSUME SessionsAssumption == IsFiniteSet(Sessions) /\ NoSession \notin Sessions
ASSUME TimesAssumption ==
  /\ CycleTime \in [1..4 -> Nat \ {0}]
  /\ StartCountdown \in Nat /\ MidGameCountdown \in Nat \ {0}
ASSUME LimitsAssumption ==
  /\ MaxClients \in Nat
  /\ WordCounts \subseteq Nat
  /\ DbFails \in BOOLEAN
  /\ MaxRequests \in Nat
  /\ MinTime \in Int /\ MinTime <= 0

VARIABLES
  phase,                     \* open, disposing, disposed; crashed: process died
  players, joined,           \* state.players; the sessions that ever joined
  disposeTimeout,            \* none, idle (:92) or leave (:152)
  score, totalScore, sessionScore, votes,
  gameState, gamePlayStatus,
  round, cycle, time, waitingCountdownTime,
  words, word, shown, winner,
  waitingCountdownInterval, gameTimeInterval, transitionTimeout,
  orphans,                   \* running game timers no handle refers to any more
  creating, fetching,        \* start chains awaiting the database
  requests                   \* START_GAME and START_NEW_GAME messages so far

scores == <<score, totalScore, sessionScore, votes>>
timers == <<waitingCountdownInterval, gameTimeInterval, transitionTimeout,
            orphans>>
roundVars == <<round, cycle, time, word, shown>>
chains == <<creating, fetching, requests>>
vars == <<phase, players, joined, disposeTimeout, scores, gameState,
          gamePlayStatus, roundVars, waitingCountdownTime, words, winner,
          timers, chains>>

-----------------------------------------------------------------------------
(* Types *)

GameStates == {"LOBBY", "START_COUNTDOWN", "GAME_STARTED", "ROUND_END",
               "GAME_END"}
Chains == {"start", "restart"}

RosterTypeOK ==
  /\ players \subseteq joined /\ joined \subseteq Sessions
  /\ score \in [players -> Nat]
  /\ totalScore \in [players -> Nat]
  /\ sessionScore \in [players -> Nat]
  /\ votes \subseteq players

GameTypeOK ==
  /\ gameState \in GameStates
  /\ gamePlayStatus \in {"PLAYING", "PAUSED"}
  /\ round \in Nat /\ cycle \in 0..4
  /\ time \in Int /\ waitingCountdownTime \in Int
  /\ words \in Nat /\ word \in BOOLEAN /\ shown \subseteq 2..4
  /\ winner \in Sessions \cup {NoSession}

TimersTypeOK ==
  /\ waitingCountdownInterval \in Timer({"count", "finish"})
  /\ gameTimeInterval \in Timer(CycleJobs)
  /\ gameTimeInterval.on => gameTimeInterval.job \in CycleJobs
  /\ transitionTimeout \in Timer({"startRound"})
  /\ orphans \in Seq(CycleTimer)

ChainsTypeOK ==
  creating \in [Chains -> Nat] /\ fetching \in Nat /\ requests \in Nat

\* Every variable has its type, and the three score maps are kept for exactly
\* the players in the room (onJoin and removePlayer maintain all of them).
TypeOK ==
  /\ phase \in {"open", "disposing", "disposed", "crashed"}
  /\ disposeTimeout \in {"none", "idle", "leave"}
  /\ RosterTypeOK /\ GameTypeOK /\ TimersTypeOK /\ ChainsTypeOK

-----------------------------------------------------------------------------
(* onCreate: an empty lobby watched by the idle timeout *)

Init ==
  /\ phase = "open"
  /\ players = {} /\ joined = {}
  /\ disposeTimeout = "idle"
  /\ score = [p \in players |-> 0] /\ totalScore = [p \in players |-> 0]
  /\ sessionScore = [p \in players |-> 0] /\ votes = {}
  /\ gameState = "LOBBY" /\ gamePlayStatus = "PLAYING"
  /\ round = 0 /\ cycle = 0 /\ time = 0 /\ waitingCountdownTime = 0
  /\ words = 0 /\ word = FALSE /\ shown = {} /\ winner = NoSession
  /\ waitingCountdownInterval = Off /\ gameTimeInterval = Off
  /\ transitionTimeout = Off /\ orphans = <<>>
  /\ creating = [c \in Chains |-> 0] /\ fetching = 0 /\ requests = 0

-----------------------------------------------------------------------------
(* Players and disposal *)

WithPlayer(map, s) == [p \in players \cup {s} |-> IF p = s THEN 0 ELSE map[p]]

OnJoin(s) ==
  /\ phase = "open"
  /\ s \in Sessions \ joined
  /\ Cardinality(players) < MaxClients
  /\ players' = players \cup {s} /\ joined' = joined \cup {s}
  /\ score' = WithPlayer(score, s)
  /\ totalScore' = WithPlayer(totalScore, s)
  /\ sessionScore' = WithPlayer(sessionScore, s)
  /\ UNCHANGED <<phase, disposeTimeout, votes, gameState, gamePlayStatus,
                 roundVars, waitingCountdownTime, words, winner, timers, chains>>

\* removePlayer for each of the leavers.
Without_KeepsEntries(map, leavers) == map
Without(map, leavers) == Restrict(map, players \ leavers)

RemovePlayers(leavers) ==
  /\ players' = players \ leavers
  /\ score' = Without(score, leavers)
  /\ totalScore' = Without(totalScore, leavers)
  /\ sessionScore' = Without(sessionScore, leavers)
  /\ votes' = votes \ leavers

LastLeaves_InLobbyToo(s) == players = {s}
LastLeaves(s) == gameState # "LOBBY" /\ players = {s}

OnLeave(s) ==
  /\ phase = "open"
  /\ s \in players
  /\ disposeTimeout' = IF LastLeaves(s) THEN "leave" ELSE disposeTimeout
  /\ RemovePlayers({s})
  /\ UNCHANGED <<phase, joined, gameState, gamePlayStatus, roundVars,
                 waitingCountdownTime, words, winner, timers, chains>>

\* disconnect(): every client is closed, which runs onLeave for each of them
\* (the last one arms the leave timeout when a game was started), and the room
\* is on its way to onDispose.
Disconnect ==
  /\ phase' = "disposing"
  /\ disposeTimeout' = IF gameState # "LOBBY" /\ players # {}
                       THEN "leave" ELSE "none"
  /\ RemovePlayers(players)

\* inactivityTimeoutDisposal called again from its own callback.
Rearmed_Forgotten == "none"
Rearmed == "idle"

\* The callbacks of inactivityTimeoutDisposal and of the timeout set by onLeave.
\* The first re-arms itself while users wait in the lobby, and does nothing once
\* a game was started.
DisposeTimeoutFires ==
  /\ phase = "open"
  /\ \/ /\ disposeTimeout = "idle" /\ gameState = "LOBBY" /\ players = {}
        /\ Disconnect
     \/ /\ disposeTimeout = "idle" /\ gameState = "LOBBY" /\ players # {}
        /\ disposeTimeout' = Rearmed
        /\ UNCHANGED <<phase, players, scores>>
     \/ /\ disposeTimeout = "idle" /\ gameState # "LOBBY"
        /\ disposeTimeout' = "none"
        /\ UNCHANGED <<phase, players, scores>>
     \/ /\ disposeTimeout = "leave"
        /\ Disconnect
  /\ UNCHANGED <<joined, gameState, gamePlayStatus, roundVars,
                 waitingCountdownTime, words, winner, timers, chains>>

\* onDispose clears the three handles; the framework then clears every timer of
\* the room clock and stops it.
OnDispose ==
  /\ phase = "disposing"
  /\ phase' = "disposed"
  /\ disposeTimeout' = "none"
  /\ waitingCountdownInterval' = Off /\ gameTimeInterval' = Off
  /\ transitionTimeout' = Off /\ orphans' = <<>>
  /\ UNCHANGED <<players, joined, scores, gameState, gamePlayStatus, roundVars,
                 waitingCountdownTime, words, winner, chains>>

-----------------------------------------------------------------------------
(* Rounds: the steps the handlers and callbacks below are made of *)

startRoundWithCountdown_SecondShort(seconds) ==
  /\ waitingCountdownInterval' = Interval("count")
  /\ transitionTimeout' = Timeout(seconds, "startRound")

\* The old waiting interval and transition are cleared by being replaced.
startRoundWithCountdown(seconds) ==
  /\ waitingCountdownInterval' = Interval("count")
  /\ transitionTimeout' = Timeout(seconds + 1, "startRound")

WordsLeft_OneTooMany == words >= round
WordsLeft == words > round

stopCurrentRoundOrGame_KeepsTimer ==
  /\ gameState' = "ROUND_END"
  /\ waitingCountdownTime' = MidGameCountdown
  /\ UNCHANGED gameTimeInterval
  /\ IF WordsLeft
     THEN startRoundWithCountdown(MidGameCountdown)
     ELSE waitingCountdownInterval' = Interval("finish") /\ UNCHANGED transitionTimeout

\* Before the last word another round is announced; after it the final
\* countdown runs, which leaves the transition timeout as it is.
stopCurrentRoundOrGame ==
  /\ gameState' = "ROUND_END"
  /\ waitingCountdownTime' = MidGameCountdown
  /\ gameTimeInterval' = Off
  /\ IF WordsLeft
     THEN startRoundWithCountdown(MidGameCountdown)
     ELSE /\ waitingCountdownInterval' = Interval("finish")
          /\ UNCHANGED transitionTimeout

NewScores_Kept == score
NewScores == [s \in players |-> 0]

\* The new game timer takes the handle of the old one without clearing it: a
\* timer that is still running becomes an orphan.
firstCycle ==
  /\ round' = round + 1
  /\ cycle' = 1 /\ time' = CycleTime[1]
  /\ word' = (words > round) /\ shown' = {}
  /\ winner' = NoSession
  /\ score' = NewScores
  /\ gameTimeInterval' = Interval("firstCycle")
  /\ orphans' = IF gameTimeInterval.on THEN Append(orphans, gameTimeInterval)
                                       ELSE orphans

getUserScore == CycleScore(cycle)

-----------------------------------------------------------------------------
(* Starting and restarting a game *)

StartGame(s) ==
  /\ phase = "open" /\ s \in players
  /\ requests < MaxRequests /\ requests' = requests + 1
  /\ creating' = [creating EXCEPT !["start"] = @ + 1]
  /\ UNCHANGED <<phase, players, joined, disposeTimeout, scores, gameState,
                 gamePlayStatus, roundVars, waitingCountdownTime, words, winner,
                 timers, fetching>>

clearScore_Nothing == score
clearScore == [s \in players |-> 0]
clearTotalScore == [s \in players |-> 0]

\* The literal 3 the code assigns to waitingCountdownTime is START_COUNTDOWN.
RestartGame(s) ==
  /\ phase = "open" /\ s \in players
  /\ requests < MaxRequests /\ requests' = requests + 1
  /\ waitingCountdownInterval' = Off /\ gameTimeInterval' = Off
  /\ transitionTimeout' = Off
  /\ round' = 0 /\ cycle' = 1 /\ time' = StartCountdown
  /\ word' = FALSE /\ shown' = {} /\ words' = 0 /\ winner' = NoSession
  /\ gameState' = "START_COUNTDOWN" /\ waitingCountdownTime' = StartCountdown
  /\ score' = clearScore
  /\ totalScore' = clearTotalScore /\ votes' = {}
  /\ creating' = [creating EXCEPT !["restart"] = @ + 1]
  /\ UNCHANGED <<phase, players, joined, disposeTimeout, sessionScore,
                 gamePlayStatus, orphans, fetching>>

Alive == phase # "crashed"

\* gameService.create() has resolved: startGame resets the state only now, and
\* not the round, the scores or the timers; restartGame did it when asked.
GameCreated(c) ==
  /\ Alive
  /\ creating[c] > 0
  /\ creating' = [creating EXCEPT ![c] = @ - 1]
  /\ fetching' = fetching + 1
  /\ IF c = "start"
     THEN /\ time' = CycleTime[1] /\ cycle' = 1
          /\ waitingCountdownTime' = StartCountdown
          /\ words' = 0 /\ winner' = NoSession
          /\ gameState' = "START_COUNTDOWN"
     ELSE UNCHANGED <<time, cycle, waitingCountdownTime, words, winner, gameState>>
  /\ UNCHANGED <<phase, players, joined, disposeTimeout, scores, gamePlayStatus,
                 round, word, shown, timers, requests>>

InitiateGame_NoCountdown(n) ==
  /\ Alive
  /\ fetching > 0 /\ fetching' = fetching - 1
  /\ words' = n
  /\ gameState' = "GAME_STARTED"
  /\ firstCycle
  /\ UNCHANGED <<phase, players, joined, disposeTimeout, totalScore,
                 sessionScore, votes, gamePlayStatus, waitingCountdownTime,
                 waitingCountdownInterval, transitionTimeout, creating, requests>>

\* initiateGame: the stored game was found and has n words.
InitiateGame(n) ==
  /\ Alive
  /\ fetching > 0 /\ fetching' = fetching - 1
  /\ words' = n
  /\ startRoundWithCountdown(StartCountdown)
  /\ UNCHANGED <<phase, players, joined, disposeTimeout, scores, gameState,
                 gamePlayStatus, roundVars, waitingCountdownTime, winner,
                 gameTimeInterval, orphans, creating, requests>>

\* A rejected create() or query, or a record that is not there: the chain ends
\* and the room keeps the state it is in.
CreateFails(c) ==
  /\ Alive /\ DbFails
  /\ creating[c] > 0
  /\ creating' = [creating EXCEPT ![c] = @ - 1]
  /\ UNCHANGED <<phase, players, joined, disposeTimeout, scores, gameState,
                 gamePlayStatus, roundVars, waitingCountdownTime, words, winner,
                 timers, fetching, requests>>

FetchFails ==
  /\ Alive /\ DbFails
  /\ fetching > 0 /\ fetching' = fetching - 1
  /\ UNCHANGED <<phase, players, joined, disposeTimeout, scores, gameState,
                 gamePlayStatus, roundVars, waitingCountdownTime, words, winner,
                 timers, creating, requests>>

-----------------------------------------------------------------------------
(* Playing *)

checkForWinner_AnyState == winner = NoSession /\ word
checkForWinner == gameState = "GAME_STARTED" /\ winner = NoSession /\ word

\* A guess that matches the word; one that does not changes nothing.
Guess(s) ==
  /\ phase = "open" /\ s \in players
  /\ checkForWinner
  /\ winner' = s
  /\ score' = [score EXCEPT ![s] = getUserScore]
  /\ totalScore' = [totalScore EXCEPT ![s] = @ + getUserScore]
  /\ sessionScore' = [sessionScore EXCEPT ![s] = @ + getUserScore]
  /\ stopCurrentRoundOrGame
  /\ UNCHANGED <<phase, players, joined, disposeTimeout, votes, gamePlayStatus,
                 roundVars, words, orphans, chains>>

VoteForGameRestart(s, vote) ==
  /\ phase = "open" /\ s \in players
  /\ votes' = IF vote THEN votes \cup {s} ELSE votes \ {s}
  /\ UNCHANGED <<phase, players, joined, disposeTimeout, score, totalScore,
                 sessionScore, gameState, gamePlayStatus, roundVars,
                 waitingCountdownTime, words, winner, timers, chains>>

PauseGame_CountdownRuns(s) ==
  /\ phase = "open" /\ s \in players
  /\ transitionTimeout' = Pause(transitionTimeout)
  /\ gameTimeInterval' = Pause(gameTimeInterval)
  /\ gamePlayStatus' = "PAUSED"
  /\ UNCHANGED <<phase, players, joined, disposeTimeout, scores, gameState,
                 roundVars, waitingCountdownTime, words, winner,
                 waitingCountdownInterval, orphans, chains>>

PauseGame(s) ==
  /\ phase = "open" /\ s \in players
  /\ transitionTimeout' = Pause(transitionTimeout)
  /\ waitingCountdownInterval' = Pause(waitingCountdownInterval)
  /\ gameTimeInterval' = Pause(gameTimeInterval)
  /\ gamePlayStatus' = "PAUSED"
  /\ UNCHANGED <<phase, players, joined, disposeTimeout, scores, gameState,
                 roundVars, waitingCountdownTime, words, winner, orphans, chains>>

ResumeGame_TransitionStays(s) ==
  /\ phase = "open" /\ s \in players
  /\ waitingCountdownInterval' = Resume(waitingCountdownInterval)
  /\ gameTimeInterval' = Resume(gameTimeInterval)
  /\ gamePlayStatus' = "PLAYING"
  /\ UNCHANGED <<phase, players, joined, disposeTimeout, scores, gameState,
                 roundVars, waitingCountdownTime, words, winner,
                 transitionTimeout, orphans, chains>>

ResumeGame(s) ==
  /\ phase = "open" /\ s \in players
  /\ transitionTimeout' = Resume(transitionTimeout)
  /\ waitingCountdownInterval' = Resume(waitingCountdownInterval)
  /\ gameTimeInterval' = Resume(gameTimeInterval)
  /\ gamePlayStatus' = "PLAYING"
  /\ UNCHANGED <<phase, players, joined, disposeTimeout, scores, gameState,
                 roundVars, waitingCountdownTime, words, winner, orphans, chains>>

-----------------------------------------------------------------------------
(* The room clock *)

ClockRuns == phase \in {"open", "disposing"}

\* A second passes once everything due in the last one has fired.
Elapse ==
  /\ ClockRuns
  /\ \/ Running(waitingCountdownInterval) \/ Running(gameTimeInterval)
     \/ Running(transitionTimeout)
     \/ \E i \in DOMAIN orphans: Running(orphans[i])
  /\ ~Due(waitingCountdownInterval) /\ ~Due(gameTimeInterval)
  /\ ~Due(transitionTimeout)
  /\ \A i \in DOMAIN orphans: ~Due(orphans[i])
  /\ waitingCountdownInterval' = Age(waitingCountdownInterval)
  /\ gameTimeInterval' = Age(gameTimeInterval)
  /\ transitionTimeout' = Age(transitionTimeout)
  /\ orphans' = [i \in DOMAIN orphans |-> Age(orphans[i])]
  /\ UNCHANGED <<phase, players, joined, disposeTimeout, scores, gameState,
                 gamePlayStatus, roundVars, waitingCountdownTime, words, winner,
                 chains>>

TransitionFires ==
  /\ ClockRuns /\ Due(transitionTimeout)
  /\ transitionTimeout' = Off
  /\ gameState' = "GAME_STARTED"
  /\ firstCycle
  /\ waitingCountdownInterval' = Off
  /\ UNCHANGED <<phase, players, joined, disposeTimeout, totalScore,
                 sessionScore, votes, gamePlayStatus, waitingCountdownTime,
                 words, chains>>

\* The interval of startRoundWithCountdown ("count") or the final one of
\* stopCurrentRoundOrGame ("finish").  The clock serves the newest timer first,
\* so when a count-down and its transition fall due together the transition
\* goes first and clears the count-down.
WaitingFires ==
  /\ ClockRuns /\ Due(waitingCountdownInterval)
  /\ waitingCountdownInterval.job = "count" => ~Due(transitionTimeout)
  /\ waitingCountdownTime' = waitingCountdownTime - 1
  /\ IF waitingCountdownInterval.job = "finish" /\ waitingCountdownTime <= 1
     THEN /\ gameState' = "GAME_END" /\ time' = 0
          /\ word' = FALSE /\ shown' = {}
          /\ waitingCountdownInterval' = Off
     ELSE /\ waitingCountdownInterval' = Rewind(waitingCountdownInterval)
          /\ UNCHANGED <<gameState, time, word, shown>>
  /\ UNCHANGED <<phase, players, joined, disposeTimeout, scores, gamePlayStatus,
                 round, cycle, words, winner, gameTimeInterval,
                 transitionTimeout, orphans, chains>>

\* The interval callback that firstCycle .. fourthCycle create, for a timer
\* with the given job.  `rewound` is the current handle's timer if the callback
\* neither clears nor replaces it.  The callback acts on whatever timer the
\* handle refers to when it runs, not on its own.
CountsDown(rewound) ==
  /\ time > 1
  /\ time' = time - 1
  /\ gameTimeInterval' = rewound
  /\ UNCHANGED <<phase, gameState, cycle, word, shown, waitingCountdownTime,
                 waitingCountdownInterval, transitionTimeout>>

RevealedCue_Previous(job) == CycleOf[job]
RevealedCue(job) == CycleOf[job] + 1

RevealsNextCue_ClearsLast(job) ==
  /\ time <= 1 /\ job # "fourthCycle" /\ word
  /\ time' = CycleTime[CycleOf[job] + 1]
  /\ cycle' = CycleOf[job] + 1
  /\ shown' = shown \cup {RevealedCue(job)}
  /\ gameTimeInterval' = Off
  /\ UNCHANGED <<phase, gameState, word, waitingCountdownTime,
                 waitingCountdownInterval, transitionTimeout>>

RevealsNextCue(job) ==
  /\ time <= 1 /\ job # "fourthCycle" /\ word
  /\ time' = CycleTime[CycleOf[job] + 1]
  /\ cycle' = CycleOf[job] + 1
  /\ shown' = shown \cup {RevealedCue(job)}
  /\ gameTimeInterval' = Interval(NextJob[job])
  /\ UNCHANGED <<phase, gameState, word, waitingCountdownTime,
                 waitingCountdownInterval, transitionTimeout>>

\* state.word is undefined: a TypeError nobody catches ends the process.
MissesTheWord(job) ==
  /\ time <= 1 /\ job # "fourthCycle" /\ ~word
  /\ time' = CycleTime[CycleOf[job] + 1]
  /\ phase' = "crashed"
  /\ UNCHANGED <<gameState, cycle, word, shown, waitingCountdownTime,
                 waitingCountdownInterval, gameTimeInterval, transitionTimeout>>

TimesOut(job) ==
  /\ time <= 1 /\ job = "fourthCycle"
  /\ time' = time - 1
  /\ stopCurrentRoundOrGame
  /\ UNCHANGED <<phase, cycle, word, shown>>

GameTick(job, rewound) ==
  /\ ClockRuns /\ time > MinTime
  /\ CountsDown(rewound) \/ RevealsNextCue(job) \/ MissesTheWord(job) \/ TimesOut(job)
  /\ UNCHANGED <<players, joined, disposeTimeout, scores, gamePlayStatus, round,
                 words, winner, chains>>

GameTimerFires ==
  /\ Due(gameTimeInterval)
  /\ GameTick(gameTimeInterval.job, Rewind(gameTimeInterval))
  /\ UNCHANGED orphans

OrphanFires(i) ==
  /\ Due(orphans[i])
  /\ GameTick(orphans[i].job, gameTimeInterval)
  /\ orphans' = [orphans EXCEPT ![i] = Rewind(@)]

-----------------------------------------------------------------------------
(* Specifications *)

Clock ==
  \/ Elapse \/ TransitionFires \/ WaitingFires \/ GameTimerFires
  \/ \E i \in DOMAIN orphans: OrphanFires(i)

ChainStep ==
  \/ \E c \in Chains: GameCreated(c) \/ CreateFails(c)
  \/ \E n \in WordCounts: InitiateGame(n)
  \/ FetchFails

PlayerStep ==
  \E s \in Sessions:
    \/ OnJoin(s) \/ OnLeave(s)
    \/ Guess(s) \/ PauseGame(s) \/ ResumeGame(s)
    \/ \E vote \in BOOLEAN: VoteForGameRestart(s, vote)

RoomStep == Clock \/ ChainStep \/ DisposeTimeoutFires \/ OnDispose

\* registerMessages puts no condition on who sends START_GAME and
\* START_NEW_GAME, or when.
Next ==
  \/ RoomStep \/ PlayerStep
  \/ \E s \in Sessions: StartGame(s) \/ RestartGame(s)

Spec == Init /\ [][Next]_vars

\* The game flow of the README: a game is started from the lobby, and nobody
\* asks for another while one is being created.
Quiet == fetching = 0 /\ \A c \in Chains: creating[c] = 0
FlowNext ==
  \/ RoomStep \/ PlayerStep
  \/ \E s \in Sessions: \/ Quiet /\ gameState = "LOBBY" /\ StartGame(s)
                        \/ Quiet /\ gameState # "LOBBY" /\ RestartGame(s)

FlowSpec == Init /\ [][FlowNext]_vars

\* The clock keeps ticking, the database answers, wall-clock timeouts fire and
\* the framework disposes a room it has disconnected.  Nothing is assumed of the
\* players.
Fairness ==
  /\ WF_vars(Clock) /\ WF_vars(ChainStep)
  /\ WF_vars(DisposeTimeoutFires) /\ WF_vars(OnDispose)

FairFlowSpec == FlowSpec /\ Fairness
=============================================================================
