------------------------- MODULE SoloRoomProperties -------------------------
(***************************************************************************)
(* What a solo room should guarantee: the first group whenever its clients *)
(* guess, the second as long as they have guessed only while a round was   *)
(* being played and the game has words; the last group states a claim of   *)
(* the repository that the code does not keep.                             *)
(***************************************************************************)
EXTENDS SoloRoom

\* Whatever timeouts have piled up, the count-down a client sees is always about
\* to be ended by the newest of them, and never after the client was told.
CountdownIsBacked ==
  waitingCountdownInterval.on /\ waitingCountdownInterval.job = "count" =>
    transitions # <<>> /\ Last(transitions).left >= waitingCountdownInterval.left

\* No state of an open room is a dead end: a round has a game timer that will
\* end it, and between rounds a waiting interval runs that a timeout will end,
\* or that will end the game.
TimersKeepTheGameGoing ==
  phase = "open" =>
    /\ gameState = "GAME_STARTED" => gameTimeInterval.on
    /\ gameState \in {"START_COUNTDOWN", "ROUND_END"} => waitingCountdownInterval.on

\* Whatever the client sends, the database is never asked to add more than the
\* total of the game: the guesses that restart the final count-down and the
\* timeouts that pile up do not save a game twice.
NeverOverpaid == saved + FoldSeq(+, 0, saving) <= totalScore

-----------------------------------------------------------------------------
(* As long as nobody has guessed a word outside its round *)

Orderly == ~late /\ words > 0

\* Rounds do not overlap: at most one timeout is pending, only while a round is
\* announced, and a game timer runs exactly while a round is open.
RoundsDoNotOverlap ==
  Orderly /\ phase = "open" =>
    /\ orphans = <<>> /\ Len(transitions) <= 1
    /\ (transitions # <<>>) <=>
         \/ gameState = "START_COUNTDOWN"
         \/ gameState = "ROUND_END" /\ words > round
    /\ gameTimeInterval.on <=> gameState = "GAME_STARTED"
    /\ gameTimeInterval.on => CycleOf[gameTimeInterval.job] = cycle

\* The cues revealed are those of the cycles of this round that have begun.
CuesMatchTheCycle ==
  Orderly /\ gameState \in {"GAME_STARTED", "ROUND_END"} => word /\ shown = 2..cycle

\* The count-down shown is the number of seconds until the round starts, and no
\* clock shown to the client goes below zero.
CountdownIsHonest == Orderly =>
  /\ waitingCountdownInterval.on /\ waitingCountdownInterval.job = "count" =>
       waitingCountdownTime = Last(transitions).left - waitingCountdownInterval.left
  /\ waitingCountdownTime >= 0 /\ time >= 0

\* Every word is played, in a round of its own, before the game is over, and no
\* timer callback finds the word missing: only a failed save ends the process.
EveryWordIsPlayed == Orderly =>
  /\ gameState \in {"GAME_STARTED", "ROUND_END"} => round \in 1..words
  /\ gameState = "GAME_END" => round = words
  /\ phase = "crashed" => gameState = "GAME_END"

\* The total of a game is handed to the database once, whole, and when the game
\* is over; nothing is handed over before.
TotalIsSavedOnce == Orderly =>
  /\ gameState # "GAME_END" => saving = <<>> /\ saved = 0
  /\ gameState = "GAME_END" /\ phase # "crashed" =>
       \/ saving = <<totalScore>> /\ saved = 0
       \/ saving = <<>> /\ saved = totalScore

\* A game that is not abandoned ends with its total in the database, unless the
\* database rejects it or there is no user to add it to.
TotalIsSaved ==
  phase = "open" ~>
    phase # "open" \/ ~Orderly \/ (gameState = "GAME_END" /\ saved = totalScore)

-----------------------------------------------------------------------------
(* What the repository says and the code does not do *)

\* The comment of checkForWinner speaks of the word "currently being played".
\* The room keeps the word of a round that is over and pays for it again.
OnlyOpenRoundsArePaid ==
  [][totalScore' # totalScore => gameState = "GAME_STARTED"]_vars
=============================================================================
