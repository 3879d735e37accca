--------------------- MODULE MultiplayerRoomProperties ---------------------
(***************************************************************************)
(* What a multiplayer room should guarantee.  The first group is meant to  *)
(* hold whatever its clients send (Spec), the second only in the game flow *)
(* of the README (FlowSpec), which the code itself does not enforce; the   *)
(* last group states claims of the repository that the code does not keep. *)
(***************************************************************************)
EXTENDS MultiplayerRoom

-----------------------------------------------------------------------------
(* Whatever the clients send *)

\* What a player has earned in the round is part of the total of the game, and
\* that is part of the total of the session: addScoreToWinner, restartGame,
\* firstCycle and removePlayer treat the three maps differently, but never so
\* that one of them runs ahead of the next.
ScoresNest ==
  \A s \in players: score[s] <= totalScore[s] /\ totalScore[s] <= sessionScore[s]

\* A round has one scorer, its winner: while a round is open nobody has points
\* for it, and once it has a winner nobody else does, whatever guesses, chains
\* and timers arrive in between.
OneScorerPerRound ==
  /\ gameState = "GAME_STARTED" /\ winner = NoSession =>
       \A s \in players: score[s] = 0
  /\ winner # NoSession => \A s \in players \ {winner}: score[s] = 0

\* The count-down shown to the players is always about to be ended by the
\* transition that starts the round: startRoundWithCountdown, pauseGame,
\* resumeGame and the callbacks keep the two timers running, paused and
\* cleared together, and the transition never falls due after the count-down.
CountdownIsBacked ==
  waitingCountdownInterval.on /\ waitingCountdownInterval.job = "count" =>
    /\ transitionTimeout.on
    /\ transitionTimeout.paused = waitingCountdownInterval.paused
    /\ transitionTimeout.left >= waitingCountdownInterval.left

\* No state of a started game is a dead end: a round being played has a game
\* timer that will end it, and between rounds a waiting timer will start the
\* next one or end the game.  (START_COUNTDOWN can be one, when the chain that
\* should start the timers fails.)
TimersKeepTheGameGoing ==
  phase \in {"open", "disposing"} =>
    /\ gameState = "GAME_STARTED" => gameTimeInterval.on
    /\ gameState = "ROUND_END" => waitingCountdownInterval.on

\* Resuming reaches every timer that pausing stopped: while the status is
\* PLAYING no timer the room still has a handle of is paused.
PlayingMeansUnpaused ==
  gamePlayStatus = "PLAYING" =>
    /\ ~waitingCountdownInterval.paused /\ ~gameTimeInterval.paused
    /\ ~transitionTimeout.paused

\* A lobby is always watched by the idle timeout, and the leave timeout is only
\* ever armed for a game that was started: nobody is disconnected from a lobby.
LobbyIsWatched ==
  phase = "open" =>
    /\ gameState = "LOBBY" => disposeTimeout = "idle"
    /\ disposeTimeout = "leave" => gameState # "LOBBY"

\* A session's total is never lowered, not even by a restart, and it grows only
\* in a step that closes an open round in favour of that session; so a round is
\* awarded at most once, to one player.
AwardsCloseRounds ==
  [][\A s \in players \cap players':
       sessionScore'[s] # sessionScore[s] =>
         /\ sessionScore'[s] > sessionScore[s]
         /\ gameState = "GAME_STARTED" /\ gameState' = "ROUND_END"
         /\ winner = NoSession /\ winner' = s
         /\ totalScore'[s] - totalScore[s] = sessionScore'[s] - sessionScore[s]]_vars

\* A disposed room awards nothing and plays no round any more, although a start
\* chain that outlives it still writes to its state.
DisposedRoomIsInert ==
  [][phase = "disposed" =>
       /\ phase' = "disposed"
       /\ UNCHANGED <<players, scores, round, word, gameTimeInterval, orphans>>]_vars

-----------------------------------------------------------------------------
(* In the game flow *)

\* Game timers belong to the round that is being played: no timer of an earlier
\* round is left running without a handle, and the game timer runs exactly
\* while a round is open, the transition exactly while a round is announced.
TimersMatchTheState ==
  phase \in {"open", "disposing"} =>
    /\ orphans = <<>>
    /\ gameTimeInterval.on <=> gameState = "GAME_STARTED"
    /\ gameTimeInterval.on => CycleOf[gameTimeInterval.job] = cycle
    /\ transitionTimeout.on =>
         \/ gameState = "START_COUNTDOWN"
         \/ gameState = "ROUND_END" /\ words > round

\* The players see a cue more with every cycle of the round, and never one of
\* the word that is not theirs yet: the cues revealed are those of the cycles
\* that have begun.
CuesMatchTheCycle ==
  gameState \in {"GAME_STARTED", "ROUND_END"} => word /\ shown = 2..cycle

\* The count-down shown is the number of seconds until the round starts, and
\* no clock shown to the players goes below zero.
CountdownIsHonest ==
  /\ waitingCountdownInterval.on /\ waitingCountdownInterval.job = "count" =>
       waitingCountdownTime = transitionTimeout.left - waitingCountdownInterval.left
  /\ waitingCountdownTime >= 0 /\ time >= 0

\* A game is over only when each of its words has been played, and no round is
\* played beyond them: the timer callbacks never find the word missing.
EveryWordIsPlayed ==
  /\ phase # "crashed"
  /\ gameState \in {"GAME_STARTED", "ROUND_END"} => round \in 1..words
  /\ gameState = "GAME_END" => round = words

\* Why the four hold together: what is known in each state of a game.  At most
\* one start chain is in flight, and only while no timer runs.
ChainsInFlight == creating["start"] + creating["restart"] + fetching
NoTimers == ~waitingCountdownInterval.on /\ ~gameTimeInterval.on /\ ~transitionTimeout.on
Announced ==
  /\ waitingCountdownInterval.on /\ waitingCountdownInterval.job = "count"
  /\ transitionTimeout.on
  /\ waitingCountdownInterval.paused = transitionTimeout.paused
  /\ transitionTimeout.left >= waitingCountdownInterval.left
  /\ waitingCountdownTime = transitionTimeout.left - waitingCountdownInterval.left

InLobby ==
  /\ creating["restart"] = 0 /\ fetching = 0
  /\ NoTimers /\ round = 0 /\ time = 0 /\ waitingCountdownTime = 0
InStartCountdown ==
  /\ creating["start"] = 0
  /\ round = 0 /\ time >= 0 /\ ~gameTimeInterval.on
  /\ \/ NoTimers /\ waitingCountdownTime = StartCountdown
     \/ /\ NoTimers /\ phase = "disposed"
        /\ ChainsInFlight = 0 /\ waitingCountdownTime >= 0
     \/ Announced /\ ChainsInFlight = 0 /\ words > 0
InRound ==
  /\ ChainsInFlight = 0 /\ word /\ round \in 1..words /\ time >= 0
  /\ cycle \in 1..4 /\ shown = 2..cycle /\ waitingCountdownTime >= 0
Playing ==
  /\ InRound /\ ~waitingCountdownInterval.on /\ ~transitionTimeout.on
  /\ phase # "disposed" => /\ time > 0 /\ gameTimeInterval.on
                           /\ CycleOf[gameTimeInterval.job] = cycle
  /\ phase = "disposed" => ~gameTimeInterval.on
BetweenRounds ==
  /\ InRound /\ ~gameTimeInterval.on
  /\ phase = "disposed" => NoTimers
  /\ phase # "disposed" =>
       \/ words > round /\ Announced
       \/ /\ words = round /\ ~transitionTimeout.on
          /\ waitingCountdownInterval.on /\ waitingCountdownInterval.job = "finish"
          /\ waitingCountdownTime >= 1
Over ==
  /\ ChainsInFlight = 0 /\ NoTimers
  /\ round = words /\ time >= 0 /\ waitingCountdownTime >= 0

FlowInv ==
  /\ phase # "crashed" /\ orphans = <<>> /\ ChainsInFlight <= 1
  /\ gameState = "LOBBY" => InLobby
  /\ gameState = "START_COUNTDOWN" => InStartCountdown
  /\ gameState = "GAME_STARTED" => Playing
  /\ gameState = "ROUND_END" => BetweenRounds
  /\ gameState = "GAME_END" => Over

\* The room as its players may think of it: a session of games made of rounds.
Stage ==
  CASE gameState = "LOBBY" -> "lobby"
    [] gameState = "START_COUNTDOWN" -> "preparing"
    [] gameState = "GAME_STARTED" -> "playing"
    [] gameState = "ROUND_END" -> "between"
    [] gameState = "GAME_END" -> "over"

Lifecycle == INSTANCE GameLifecycle WITH
  Players <- Sessions, stage <- Stage, played <- round, total <- words,
  board <- sessionScore

\* Behind its timers, chains and callbacks the room is that session: rounds are
\* played in order and one at a time, each is won at most once and paid by its
\* cycle, and the session's points survive restarts.
ImplementsLifecycle == Lifecycle!Spec

\* The database has refused the game that was to be started: no chain is left, and
\* none has brought any words.
NothingToPlay == gameState = "START_COUNTDOWN" /\ ChainsInFlight = 0 /\ words = 0

\* A game whose start is under way is played to its end, unless it is paused, its
\* room is disposed of or the database refuses it: whoever joins, leaves, guesses
\* and restarts meanwhile, some timer or chain always takes it further.
GameEnds ==
  gameState = "START_COUNTDOWN" ~>
    \/ gameState = "GAME_END" \/ gamePlayStatus = "PAUSED" \/ phase # "open"
    \/ NothingToPlay

\* A lobby that nobody is in is disposed of, also when others have waited in it and
\* left, and so is a room whose last player has left a started game; both unless
\* somebody comes (back) in time.
IdleRoomsAreDisposed ==
  /\ phase = "open" /\ gameState = "LOBBY" /\ players = {} ~>
       phase = "disposed" \/ players # {} \/ gameState # "LOBBY"
  /\ disposeTimeout = "leave" /\ players = {} ~> phase = "disposed" \/ players # {}

-----------------------------------------------------------------------------
(* What the repository says and the code does not do *)

\* docs/MEMORY_LEAK_FIXES.md says that all uncleared intervals of the game rooms
\* are fixed.  Two start chains in flight at once still leave a game timer of
\* firstCycle running when its handle is reassigned.
NoOrphanedInterval == orphans = <<>>

\* The README promises an inactivity timeout.  The timeout that onLeave arms is
\* not cleared by onJoin, so it disconnects players who came back.
OnlyIdleRoomsAreDisposed ==
  [][phase = "open" /\ phase' = "disposing" => players = {}]_vars

\* The README promises automatic disposal.  A room whose last player leaves while
\* startGame waits for the database leaves the LOBBY only afterwards: the idle
\* timeout then does nothing and no other is armed.
AbandonedRoomsAreDisposed ==
  phase = "open" /\ players = {} ~> phase = "disposed" \/ players # {}
=============================================================================
