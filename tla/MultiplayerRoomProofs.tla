----------------------- MODULE MultiplayerRoomProofs -----------------------
(***************************************************************************)
(* Proofs of the properties of MultiplayerRoomProperties for every value   *)
(* of the constants.                                                       *)
(***************************************************************************)
EXTENDS MultiplayerRoomProperties, DelayedProofs, TLAPS

-----------------------------------------------------------------------------
(* Type correctness *)

LEMMA InitTypeOK == Init => TypeOK
<1> SUFFICES ASSUME Init PROVE TypeOK
  OBVIOUS
<1>1. RosterTypeOK
  BY DEF Init, RosterTypeOK
<1>2. GameTypeOK
  <2>1. /\ gameState \in GameStates /\ gamePlayStatus \in {"PLAYING", "PAUSED"}
        /\ word \in BOOLEAN /\ winner \in Sessions \cup {NoSession}
    BY DEF Init, GameStates
  <2>2. round \in Nat /\ cycle \in 0..4 /\ time \in Int /\ words \in Nat
    BY DEF Init
  <2>3. waitingCountdownTime \in Int /\ shown \subseteq 2..4
    BY DEF Init
  <2> QED
    BY <2>1, <2>2, <2>3 DEF GameTypeOK
<1>3. TimersTypeOK
  BY DEF Init, TimersTypeOK, Timer, Off
<1>4. ChainsTypeOK
  BY DEF Init, ChainsTypeOK
<1> QED
  BY <1>1, <1>2, <1>3, <1>4 DEF Init, TypeOK

\* The steps that touch the roster keep the score maps over the players.
LEMMA RosterStep == TypeOK /\ [Next]_vars => RosterTypeOK'
<1> SUFFICES ASSUME TypeOK, [Next]_vars PROVE RosterTypeOK'
  OBVIOUS
<1> USE DEF TypeOK, RosterTypeOK, scores
<1>1. ASSUME NEW s \in Sessions, OnJoin(s) PROVE RosterTypeOK'
  BY <1>1 DEF OnJoin, WithPlayer
<1>2. ASSUME NEW s \in Sessions, OnLeave(s) PROVE RosterTypeOK'
  BY <1>2 DEF OnLeave, RemovePlayers, Without, Restrict
<1>3. CASE DisposeTimeoutFires
  BY <1>3 DEF DisposeTimeoutFires, Disconnect, RemovePlayers, Without, Restrict
<1>4. CASE OnDispose
  BY <1>4 DEF OnDispose
<1>5. ASSUME NEW s \in Sessions, StartGame(s) PROVE RosterTypeOK'
  BY <1>5 DEF StartGame
<1>6. ASSUME NEW s \in Sessions, RestartGame(s) PROVE RosterTypeOK'
  BY <1>6 DEF RestartGame, clearScore, clearTotalScore
<1>7. CASE ChainStep
  BY <1>7 DEF ChainStep, GameCreated, CreateFails, InitiateGame, FetchFails
<1>8. ASSUME NEW s \in Sessions, Guess(s) PROVE RosterTypeOK'
  <2>1. getUserScore \in Nat
    BY DEF getUserScore, CycleScore
  <2> QED
    BY <1>8, <2>1 DEF Guess
<1>9. ASSUME NEW s \in Sessions, NEW vote \in BOOLEAN, VoteForGameRestart(s, vote)
      PROVE RosterTypeOK'
  BY <1>9 DEF VoteForGameRestart
<1>10. ASSUME NEW s \in Sessions, PauseGame(s) \/ ResumeGame(s) PROVE RosterTypeOK'
  BY <1>10 DEF PauseGame, ResumeGame
<1>11. CASE Elapse
  BY <1>11 DEF Elapse
<1>12. CASE TransitionFires
  BY <1>12 DEF TransitionFires, firstCycle, NewScores
<1>13. CASE WaitingFires
  BY <1>13 DEF WaitingFires
<1>14. CASE GameTimerFires
  BY <1>14 DEF GameTimerFires, GameTick
<1>15. ASSUME NEW i \in DOMAIN orphans, OrphanFires(i) PROVE RosterTypeOK'
  BY <1>15 DEF OrphanFires, GameTick
<1>16. CASE UNCHANGED vars
  BY <1>16 DEF vars
<1>17. QED
  BY <1>1, <1>2, <1>3, <1>4, <1>5, <1>6, <1>7, <1>8, <1>9, <1>10, <1>11, <1>12,
     <1>13, <1>14, <1>15, <1>16 DEF Next, RoomStep, PlayerStep, Clock

\* The variables the players see keep their types.
LEMMA GameStep == TypeOK /\ [Next]_vars => GameTypeOK'
<1> SUFFICES ASSUME TypeOK, [Next]_vars PROVE GameTypeOK'
  OBVIOUS
<1> USE DEF TypeOK, GameTypeOK, GameStates, roundVars
<1>1. ASSUME NEW s \in Sessions, OnJoin(s) \/ OnLeave(s) \/ StartGame(s)
      PROVE GameTypeOK'
  BY <1>1 DEF OnJoin, OnLeave, StartGame
<1>2. CASE DisposeTimeoutFires \/ OnDispose \/ Elapse
  BY <1>2 DEF DisposeTimeoutFires, OnDispose, Elapse
<1>3. ASSUME NEW s \in Sessions, RestartGame(s) PROVE GameTypeOK'
  <2>1. StartCountdown \in Int
    BY TimesAssumption
  <2>2. 0 \in Nat /\ 1 \in 0..4 /\ {} \subseteq 2..4 /\ FALSE \in BOOLEAN
    OBVIOUS
  <2>3. gameState' \in GameStates /\ gamePlayStatus' = gamePlayStatus
    BY <1>3 DEF RestartGame
  <2>4. /\ round' = 0 /\ cycle' = 1 /\ words' = 0 /\ word' = FALSE /\ shown' = {}
        /\ time' = StartCountdown /\ waitingCountdownTime' = StartCountdown
        /\ winner' = NoSession
    BY <1>3 DEF RestartGame
  <2> QED
    BY <2>1, <2>2, <2>3, <2>4
<1>4. ASSUME NEW c \in Chains, GameCreated(c) PROVE GameTypeOK'
  BY <1>4, TimesAssumption DEF GameCreated
<1>5. ASSUME NEW c \in Chains, CreateFails(c) PROVE GameTypeOK'
  BY <1>5 DEF CreateFails
<1>6. ASSUME NEW n \in WordCounts, InitiateGame(n) PROVE GameTypeOK'
  BY <1>6, LimitsAssumption DEF InitiateGame
<1>7. CASE FetchFails
  BY <1>7 DEF FetchFails
<1>8. ASSUME NEW s \in Sessions, Guess(s) PROVE GameTypeOK'
  BY <1>8, TimesAssumption DEF Guess, stopCurrentRoundOrGame
<1>9. ASSUME NEW s \in Sessions, NEW vote \in BOOLEAN, VoteForGameRestart(s, vote)
      PROVE GameTypeOK'
  BY <1>9 DEF VoteForGameRestart
<1>10. ASSUME NEW s \in Sessions, PauseGame(s) \/ ResumeGame(s) PROVE GameTypeOK'
  BY <1>10 DEF PauseGame, ResumeGame
<1>11. CASE TransitionFires
  BY <1>11, TimesAssumption DEF TransitionFires, firstCycle
<1>12. CASE WaitingFires
  <2>1. waitingCountdownTime' \in Int /\ gameState' \in GameStates /\ time' \in Int
    BY <1>12 DEF WaitingFires
  <2>2. word' \in BOOLEAN /\ shown' \subseteq 2..4
    BY <1>12 DEF WaitingFires
  <2>3. UNCHANGED <<round, cycle, words, winner, gamePlayStatus>>
    BY <1>12 DEF WaitingFires
  <2> QED
    BY <2>1, <2>2, <2>3
<1>13. ASSUME NEW job \in CycleJobs, NEW rewound, GameTick(job, rewound)
       PROVE GameTypeOK'
  <2>1. CASE CountsDown(rewound)
    BY <1>13, <2>1 DEF GameTick, CountsDown
  <2>2. CASE RevealsNextCue(job)
    <3>1. CycleOf[job] + 1 \in 2..4
      BY <2>2 DEF RevealsNextCue, CycleJobs, CycleOf
    <3>2. CycleTime[CycleOf[job] + 1] \in Int
      BY <3>1, TimesAssumption
    <3>4. time' \in Int /\ cycle' \in 0..4
      BY <2>2, <3>1, <3>2 DEF RevealsNextCue
    <3>5. shown' \subseteq 2..4
      BY <2>2, <3>1 DEF RevealsNextCue, RevealedCue
    <3>3. UNCHANGED <<gameState, word, waitingCountdownTime, gamePlayStatus,
                      round, words, winner>>
      BY <1>13, <2>2 DEF GameTick, RevealsNextCue
    <3> QED
      BY <3>3, <3>4, <3>5
  <2>3. CASE MissesTheWord(job)
    BY <1>13, <2>3, TimesAssumption DEF GameTick, MissesTheWord, CycleJobs, CycleOf
  <2>4. CASE TimesOut(job)
    BY <1>13, <2>4, TimesAssumption DEF GameTick, TimesOut, stopCurrentRoundOrGame
  <2> QED
    BY <1>13, <2>1, <2>2, <2>3, <2>4 DEF GameTick
<1>14. CASE GameTimerFires
  BY <1>13, <1>14 DEF GameTimerFires, TimersTypeOK, Due, Running
<1>15. ASSUME NEW i \in DOMAIN orphans, OrphanFires(i) PROVE GameTypeOK'
  <2>1. orphans \in Seq(CycleTimer)
    BY DEF TimersTypeOK
  <2>2. orphans[i] \in CycleTimer
    BY <2>1
  <2>3. orphans[i].job \in CycleJobs
    BY <2>2 DEF CycleTimer
  <2> QED
    BY <1>13, <1>15, <2>3 DEF OrphanFires
<1>16. CASE UNCHANGED vars
  BY <1>16 DEF vars
<1>17. QED
  BY <1>1, <1>2, <1>3, <1>4, <1>5, <1>6, <1>7, <1>8, <1>9, <1>10, <1>11, <1>12,
     <1>14, <1>15, <1>16 DEF Next, RoomStep, PlayerStep, Clock, ChainStep

\* The timers keep their types.
LEMMA TimersStep == TypeOK /\ [Next]_vars => TimersTypeOK'
<1> SUFFICES ASSUME TypeOK, [Next]_vars PROVE TimersTypeOK'
  OBVIOUS
<1> USE DEF TypeOK, TimersTypeOK, timers
<1>0. /\ Interval("count") \in Timer({"count", "finish"})
      /\ Interval("finish") \in Timer({"count", "finish"})
  BY DEF Interval, Timer
<1>a. \A seconds \in Nat: startRoundWithCountdown(seconds) =>
        /\ waitingCountdownInterval' \in Timer({"count", "finish"})
        /\ transitionTimeout' \in Timer({"startRound"})
  BY <1>0 DEF startRoundWithCountdown, Timeout, Timer
<1>b. stopCurrentRoundOrGame =>
        /\ waitingCountdownInterval' \in Timer({"count", "finish"})
        /\ transitionTimeout' \in Timer({"startRound"})
        /\ gameTimeInterval' \in Timer(CycleJobs) /\ ~gameTimeInterval'.on
  BY <1>0, <1>a, OffIsTimer, TimesAssumption DEF stopCurrentRoundOrGame
<1>1. ASSUME NEW s \in Sessions,
             OnJoin(s) \/ OnLeave(s) \/ StartGame(s)
      PROVE TimersTypeOK'
  BY <1>1 DEF OnJoin, OnLeave, StartGame
<1>2. CASE DisposeTimeoutFires
  BY <1>2 DEF DisposeTimeoutFires
<1>3. CASE OnDispose
  BY <1>3, OffIsTimer DEF OnDispose
<1>4. ASSUME NEW s \in Sessions, RestartGame(s) PROVE TimersTypeOK'
  BY <1>4, OffIsTimer DEF RestartGame
<1>5. ASSUME NEW c \in Chains, GameCreated(c) \/ CreateFails(c) PROVE TimersTypeOK'
  BY <1>5 DEF GameCreated, CreateFails
<1>6. ASSUME NEW n \in WordCounts, InitiateGame(n) PROVE TimersTypeOK'
  BY <1>6, <1>a, TimesAssumption DEF InitiateGame
<1>7. CASE FetchFails
  BY <1>7 DEF FetchFails
<1>8. ASSUME NEW s \in Sessions, Guess(s) PROVE TimersTypeOK'
  BY <1>8, <1>b DEF Guess
<1>9. ASSUME NEW s \in Sessions, NEW vote \in BOOLEAN, VoteForGameRestart(s, vote)
      PROVE TimersTypeOK'
  BY <1>9 DEF VoteForGameRestart
<1>10. ASSUME NEW s \in Sessions, PauseGame(s) PROVE TimersTypeOK'
  BY <1>10, PausedTimer DEF PauseGame
<1>11. ASSUME NEW s \in Sessions, ResumeGame(s) PROVE TimersTypeOK'
  BY <1>11, PausedTimer DEF ResumeGame
<1>12. CASE Elapse
  <2>1. ASSUME NEW i \in DOMAIN orphans PROVE Age(orphans[i]) \in CycleTimer
    <3>1. orphans \in Seq(CycleTimer) /\ ~Due(orphans[i])
      BY <1>12 DEF Elapse
    <3>2. orphans[i] \in CycleTimer
      BY <3>1
    <3> QED
      BY <3>1, <3>2 DEF CycleTimer, Age, Due, Running
  <2>2. orphans \in Seq(CycleTimer)
    OBVIOUS
  <2>3. [i \in DOMAIN orphans |-> Age(orphans[i])] \in Seq(CycleTimer)
    BY <2>1, <2>2
  <2> QED
    BY <1>12, <2>3, AgedTimer DEF Elapse
<1>13. CASE TransitionFires
  <2>1. gameTimeInterval.on => gameTimeInterval \in CycleTimer
    BY DEF Timer, CycleTimer
  <2>2. orphans' \in Seq(CycleTimer)
    BY <1>13, <2>1 DEF TransitionFires, firstCycle
  <2>3. /\ Interval("firstCycle") \in Timer(CycleJobs)
        /\ Interval("firstCycle").job \in CycleJobs
    BY DEF Interval, Timer, CycleJobs
  <2> QED
    BY <1>13, <2>2, <2>3, OffIsTimer DEF TransitionFires, firstCycle
<1>14. CASE WaitingFires
  BY <1>14, OffIsTimer, RewoundTimer DEF WaitingFires
<1>15. ASSUME NEW job \in CycleJobs, NEW rewound \in Timer(CycleJobs),
              rewound.on => rewound.job \in CycleJobs,
              GameTick(job, rewound)
       PROVE  /\ waitingCountdownInterval' \in Timer({"count", "finish"})
              /\ gameTimeInterval' \in Timer(CycleJobs)
              /\ gameTimeInterval'.on => gameTimeInterval'.job \in CycleJobs
              /\ transitionTimeout' \in Timer({"startRound"})
  <2>1. CASE CountsDown(rewound)
    BY <1>15, <2>1 DEF CountsDown
  <2>2. CASE RevealsNextCue(job)
    <3>1. NextJob[job] \in CycleJobs
      BY <2>2 DEF RevealsNextCue, CycleJobs, NextJob
    <3>2. /\ Interval(NextJob[job]) \in Timer(CycleJobs)
          /\ Interval(NextJob[job]).job = NextJob[job]
      BY <3>1 DEF Interval, Timer
    <3> QED
      BY <2>2, <3>1, <3>2 DEF RevealsNextCue
  <2>3. CASE MissesTheWord(job)
    BY <2>3 DEF MissesTheWord
  <2>4. CASE TimesOut(job)
    BY <2>4, <1>b DEF TimesOut
  <2> QED
    BY <1>15, <2>1, <2>2, <2>3, <2>4 DEF GameTick
<1>16. CASE GameTimerFires
  <2>1. gameTimeInterval.job \in CycleJobs
    BY <1>16 DEF GameTimerFires, Due, Running
  <2>2. /\ Rewind(gameTimeInterval) \in Timer(CycleJobs)
        /\ Rewind(gameTimeInterval).job \in CycleJobs
    BY <2>1, RewoundTimer
  <2> QED
    BY <1>15, <1>16, <2>1, <2>2 DEF GameTimerFires
<1>17. ASSUME NEW i \in DOMAIN orphans, OrphanFires(i) PROVE TimersTypeOK'
  <2>1. orphans \in Seq(CycleTimer)
    OBVIOUS
  <2>2. orphans[i] \in CycleTimer
    BY <2>1
  <2>3. orphans[i].job \in CycleJobs /\ Rewind(orphans[i]) \in CycleTimer
    BY <2>2 DEF CycleTimer, Rewind
  <2>4. orphans' \in Seq(CycleTimer)
    BY <1>17, <2>1, <2>3 DEF OrphanFires
  <2> QED
    BY <1>15, <1>17, <2>3, <2>4 DEF OrphanFires
<1>18. CASE UNCHANGED vars
  BY <1>18 DEF vars
<1>19. QED
  BY <1>1, <1>2, <1>3, <1>4, <1>5, <1>6, <1>7, <1>8, <1>9, <1>10, <1>11, <1>12,
     <1>13, <1>14, <1>16, <1>17, <1>18 DEF Next, RoomStep, PlayerStep, Clock, ChainStep

LEMMA ChainsStep == TypeOK /\ [Next]_vars => ChainsTypeOK'
<1> SUFFICES ASSUME TypeOK, [Next]_vars PROVE ChainsTypeOK'
  OBVIOUS
<1> USE DEF TypeOK, ChainsTypeOK, chains
<1>1. ASSUME NEW s \in Sessions, StartGame(s) \/ RestartGame(s) PROVE ChainsTypeOK'
  <2>1. "start" \in Chains /\ "restart" \in Chains
    BY DEF Chains
  <2> QED
    BY <1>1, <2>1 DEF StartGame, RestartGame
<1>2. CASE ChainStep
  BY <1>2 DEF ChainStep, GameCreated, CreateFails, InitiateGame, FetchFails
<1>3. CASE PlayerStep
  BY <1>3 DEF PlayerStep, OnJoin, OnLeave, Guess, PauseGame, ResumeGame,
     VoteForGameRestart
<1>4. CASE DisposeTimeoutFires \/ OnDispose
  BY <1>4 DEF DisposeTimeoutFires, OnDispose
<1>5. CASE Clock
  BY <1>5 DEF Clock, Elapse, TransitionFires, WaitingFires, GameTimerFires,
     OrphanFires, GameTick
<1>6. CASE UNCHANGED vars
  BY <1>6 DEF vars
<1> QED
  BY <1>1, <1>2, <1>3, <1>4, <1>5, <1>6 DEF Next, RoomStep

LEMMA TypeOKStep == TypeOK /\ [Next]_vars => TypeOK'
<1> SUFFICES ASSUME TypeOK, [Next]_vars PROVE TypeOK'
  OBVIOUS
<1>1. phase' \in {"open", "disposing", "disposed", "crashed"}
  <2> USE DEF TypeOK
  <2>1. CASE Clock
    BY <2>1 DEF Clock, Elapse, TransitionFires, WaitingFires, GameTimerFires,
       OrphanFires, GameTick, CountsDown, RevealsNextCue, MissesTheWord, TimesOut
  <2>2. CASE ChainStep
    BY <2>2 DEF ChainStep, GameCreated, CreateFails, InitiateGame, FetchFails
  <2>3. CASE PlayerStep
    BY <2>3 DEF PlayerStep, OnJoin, OnLeave, Guess, PauseGame, ResumeGame,
       VoteForGameRestart
  <2>4. CASE DisposeTimeoutFires \/ OnDispose
    BY <2>4 DEF DisposeTimeoutFires, Disconnect, OnDispose
  <2>5. CASE \E s \in Sessions: StartGame(s) \/ RestartGame(s)
    BY <2>5 DEF StartGame, RestartGame
  <2>6. CASE UNCHANGED vars
    BY <2>6 DEF vars
  <2> QED
    BY <2>1, <2>2, <2>3, <2>4, <2>5, <2>6 DEF Next, RoomStep
<1>2. disposeTimeout' \in {"none", "idle", "leave"}
  <2> USE DEF TypeOK
  <2>1. CASE Clock
    BY <2>1 DEF Clock, Elapse, TransitionFires, WaitingFires, GameTimerFires,
       OrphanFires, GameTick
  <2>2. CASE ChainStep
    BY <2>2 DEF ChainStep, GameCreated, CreateFails, InitiateGame, FetchFails
  <2>3. CASE PlayerStep
    BY <2>3 DEF PlayerStep, OnJoin, OnLeave, Guess, PauseGame, ResumeGame,
       VoteForGameRestart
  <2>4. CASE DisposeTimeoutFires \/ OnDispose
    BY <2>4 DEF DisposeTimeoutFires, Disconnect, OnDispose, Rearmed
  <2>5. CASE \E s \in Sessions: StartGame(s) \/ RestartGame(s)
    BY <2>5 DEF StartGame, RestartGame
  <2>6. CASE UNCHANGED vars
    BY <2>6 DEF vars
  <2> QED
    BY <2>1, <2>2, <2>3, <2>4, <2>5, <2>6 DEF Next, RoomStep
<1> QED
  BY <1>1, <1>2, RosterStep, GameStep, TimersStep, ChainsStep DEF TypeOK

\* Type correctness: every variable of the room keeps its type, and the three
\* score maps are at all times kept for exactly the players in the room.
THEOREM TypeCorrectness == Spec => []TypeOK
  BY InitTypeOK, TypeOKStep, PTL DEF Spec

-----------------------------------------------------------------------------
(* Scores *)

\* The score maps and the roster change only when a player joins, leaves, is
\* disconnected or wins, when a game is restarted, and when a round starts.
LEMMA ScoresFrame ==
  ASSUME [Next]_vars,
         ~\E s \in Sessions: OnJoin(s) \/ OnLeave(s) \/ Guess(s) \/ RestartGame(s),
         ~DisposeTimeoutFires, ~TransitionFires
  PROVE  UNCHANGED <<players, score, totalScore, sessionScore>>
<1>1. CASE Clock
  BY <1>1 DEF Clock, Elapse, WaitingFires, GameTimerFires, OrphanFires, GameTick, scores
<1>2. CASE ChainStep
  BY <1>2 DEF ChainStep, GameCreated, CreateFails, InitiateGame, FetchFails, scores
<1>3. CASE PlayerStep
  BY <1>3 DEF PlayerStep, PauseGame, ResumeGame, VoteForGameRestart, scores
<1>4. CASE OnDispose
  BY <1>4 DEF OnDispose, scores
<1>5. CASE \E s \in Sessions: StartGame(s)
  BY <1>5 DEF StartGame, scores
<1>6. CASE UNCHANGED vars
  BY <1>6 DEF vars, scores
<1> QED
  BY <1>1, <1>2, <1>3, <1>4, <1>5, <1>6 DEF Next, RoomStep

LEMMA ScoresNestStep == TypeOK /\ ScoresNest /\ [Next]_vars => ScoresNest'
<1> SUFFICES ASSUME TypeOK, ScoresNest, [Next]_vars PROVE ScoresNest'
  OBVIOUS
<1> USE DEF TypeOK, RosterTypeOK, ScoresNest
<1>1. ASSUME NEW s \in Sessions, OnJoin(s) PROVE ScoresNest'
  BY <1>1 DEF OnJoin, WithPlayer
<1>2. ASSUME NEW s \in Sessions, OnLeave(s) PROVE ScoresNest'
  BY <1>2 DEF OnLeave, RemovePlayers, Without, Restrict
<1>3. CASE DisposeTimeoutFires
  BY <1>3 DEF DisposeTimeoutFires, Disconnect, RemovePlayers, scores
<1>4. ASSUME NEW s \in Sessions, Guess(s) PROVE ScoresNest'
  <2>1. getUserScore \in Nat
    BY DEF getUserScore, CycleScore
  <2>2. ASSUME NEW p \in players PROVE score'[p] <= totalScore'[p]
    BY <1>4, <2>1 DEF Guess
  <2>3. ASSUME NEW p \in players PROVE totalScore'[p] <= sessionScore'[p]
    BY <1>4, <2>1 DEF Guess
  <2> QED
    BY <1>4, <2>2, <2>3 DEF Guess
<1>5. ASSUME NEW s \in Sessions, RestartGame(s) PROVE ScoresNest'
  BY <1>5 DEF RestartGame, clearScore, clearTotalScore
<1>6. CASE TransitionFires
  BY <1>6 DEF TransitionFires, firstCycle, NewScores
<1> QED
  BY <1>1, <1>2, <1>3, <1>4, <1>5, <1>6, ScoresFrame

\* At all times the points of the round are part of the total of the game, and
\* these of the total of the session, for every player in the room.
THEOREM ScoresNestAlways == Spec => []ScoresNest
<1>1. Init => ScoresNest
  BY DEF Init, ScoresNest
<1> QED
  BY <1>1, ScoresNestStep, TypeCorrectness, PTL DEF Spec

LEMMA OneScorerStep == TypeOK /\ OneScorerPerRound /\ [Next]_vars => OneScorerPerRound'
<1> SUFFICES ASSUME TypeOK, OneScorerPerRound, [Next]_vars PROVE OneScorerPerRound'
  OBVIOUS
<1> USE DEF TypeOK, RosterTypeOK, OneScorerPerRound
<1>1. ASSUME NEW s \in Sessions, OnJoin(s) PROVE OneScorerPerRound'
  BY <1>1 DEF OnJoin, WithPlayer
<1>2. ASSUME NEW s \in Sessions, OnLeave(s) PROVE OneScorerPerRound'
  BY <1>2 DEF OnLeave, RemovePlayers, Without, Restrict
<1>3. CASE DisposeTimeoutFires
  BY <1>3 DEF DisposeTimeoutFires, Disconnect, RemovePlayers, scores
<1>4. ASSUME NEW s \in Sessions, Guess(s) PROVE OneScorerPerRound'
  BY <1>4, SessionsAssumption DEF Guess, checkForWinner, stopCurrentRoundOrGame
<1>5. ASSUME NEW s \in Sessions, RestartGame(s) PROVE OneScorerPerRound'
  BY <1>5 DEF RestartGame, clearScore
<1>6. CASE TransitionFires
  BY <1>6 DEF TransitionFires, firstCycle, NewScores
<1>7. ASSUME ~\E s \in Sessions: OnJoin(s) \/ OnLeave(s) \/ Guess(s) \/ RestartGame(s),
             ~DisposeTimeoutFires, ~TransitionFires
      PROVE OneScorerPerRound'
  <2>1. UNCHANGED <<players, score>>
    BY <1>7, ScoresFrame
  <2>2. CASE Clock
    <3>1. winner' = winner /\ (gameState' = "GAME_STARTED" => gameState = "GAME_STARTED")
      BY <1>7, <2>2 DEF Clock, Elapse, WaitingFires, GameTimerFires, OrphanFires,
         GameTick, CountsDown, RevealsNextCue, MissesTheWord, TimesOut,
         stopCurrentRoundOrGame
    <3> QED
      BY <2>1, <3>1
  <2>3. CASE ChainStep
    BY <2>1, <2>3 DEF ChainStep, GameCreated, CreateFails, InitiateGame, FetchFails
  <2>4. CASE PlayerStep
    BY <1>7, <2>1, <2>4 DEF PlayerStep, PauseGame, ResumeGame, VoteForGameRestart
  <2>5. CASE OnDispose
    BY <2>1, <2>5 DEF OnDispose
  <2>6. CASE \E s \in Sessions: StartGame(s)
    BY <2>1, <2>6 DEF StartGame
  <2>7. CASE UNCHANGED vars
    BY <2>1, <2>7 DEF vars
  <2> QED
    BY <1>7, <2>2, <2>3, <2>4, <2>5, <2>6, <2>7 DEF Next, RoomStep
<1> QED
  BY <1>1, <1>2, <1>3, <1>4, <1>5, <1>6, <1>7

\* A round has at most one scorer, its winner, whatever guesses, start chains
\* and timer callbacks arrive in between.
THEOREM OneScorerAlways == Spec => []OneScorerPerRound
<1>1. Init => OneScorerPerRound
  BY DEF Init, OneScorerPerRound
<1> QED
  BY <1>1, OneScorerStep, TypeCorrectness, PTL DEF Spec

\* A session's total grows only in the step that closes an open round in favour
\* of that session, and is never lowered.
THEOREM AwardsCloseRoundsAlways == Spec => AwardsCloseRounds
<1> DEFINE Award ==
      \A s \in players \cap players':
        sessionScore'[s] # sessionScore[s] =>
          /\ sessionScore'[s] > sessionScore[s]
          /\ gameState = "GAME_STARTED" /\ gameState' = "ROUND_END"
          /\ winner = NoSession /\ winner' = s
          /\ totalScore'[s] - totalScore[s] = sessionScore'[s] - sessionScore[s]
<1>1. TypeOK /\ [Next]_vars => Award
  <2> SUFFICES ASSUME TypeOK, [Next]_vars PROVE Award
    OBVIOUS
  <2> USE DEF TypeOK, RosterTypeOK
  <2>1. ASSUME NEW s \in Sessions, OnJoin(s) PROVE Award
    BY <2>1 DEF OnJoin, WithPlayer
  <2>2. ASSUME NEW s \in Sessions, OnLeave(s) PROVE Award
    BY <2>2 DEF OnLeave, RemovePlayers, Without, Restrict
  <2>3. CASE DisposeTimeoutFires
    BY <2>3 DEF DisposeTimeoutFires, Disconnect, RemovePlayers, scores
  <2>4. ASSUME NEW s \in Sessions, Guess(s) PROVE Award
    <3>1. getUserScore \in Nat
      BY DEF getUserScore, CycleScore
    <3>2. /\ gameState = "GAME_STARTED" /\ gameState' = "ROUND_END"
          /\ winner = NoSession /\ winner' = s /\ players' = players
      BY <2>4 DEF Guess, checkForWinner, stopCurrentRoundOrGame
    <3>3. ASSUME NEW p \in players, sessionScore'[p] # sessionScore[p]
          PROVE  /\ p = s /\ sessionScore'[p] = sessionScore[p] + getUserScore
                 /\ totalScore'[p] = totalScore[p] + getUserScore
      BY <2>4, <3>3 DEF Guess
    <3>4. ASSUME NEW p \in players, sessionScore'[p] # sessionScore[p]
          PROVE  /\ sessionScore'[p] > sessionScore[p]
                 /\ totalScore'[p] - totalScore[p] = sessionScore'[p] - sessionScore[p]
      <4>1. sessionScore[p] \in Nat /\ totalScore[p] \in Nat
        OBVIOUS
      <4> QED
        BY <3>1, <3>3, <3>4, <4>1
    <3> QED
      BY <3>2, <3>3, <3>4
  <2>5. ASSUME NEW s \in Sessions, RestartGame(s) PROVE Award
    BY <2>5 DEF RestartGame
  <2>6. CASE TransitionFires
    BY <2>6 DEF TransitionFires
  <2> QED
    BY <2>1, <2>2, <2>3, <2>4, <2>5, <2>6, ScoresFrame
<1>2. TypeOK /\ [Next]_vars => [Award]_vars
  BY <1>1
<1> HIDE DEF Award
<1>3. Spec => [][Award]_vars
  BY <1>2, TypeCorrectness, PTL DEF Spec
<1> QED
  BY <1>3 DEF AwardsCloseRounds, Award

-----------------------------------------------------------------------------
(* Timers *)

\* The timers change only when a game is restarted, a round is announced or
\* ended, the game is paused or resumed, the room is disposed of, and by the
\* clock.
LEMMA TimersFrame ==
  ASSUME [Next]_vars, ~Clock, ~OnDispose,
         ~\E s \in Sessions: \/ RestartGame(s) \/ Guess(s)
                            \/ PauseGame(s) \/ ResumeGame(s),
         ~\E n \in WordCounts: InitiateGame(n)
  PROVE  /\ UNCHANGED <<waitingCountdownInterval, gameTimeInterval, transitionTimeout>>
         /\ gamePlayStatus' = gamePlayStatus
         /\ gameState' = gameState \/ gameState' = "START_COUNTDOWN"
         /\ phase' = phase \/ phase' = "disposing"
         /\ phase' = "disposing" => phase \in {"open", "disposing"}
<1>1. CASE ChainStep
  BY <1>1 DEF ChainStep, GameCreated, CreateFails, FetchFails, timers
<1>2. CASE PlayerStep
  BY <1>2 DEF PlayerStep, OnJoin, OnLeave, VoteForGameRestart, timers
<1>3. CASE DisposeTimeoutFires
  BY <1>3 DEF DisposeTimeoutFires, Disconnect, timers
<1>4. CASE \E s \in Sessions: StartGame(s)
  BY <1>4 DEF StartGame, timers
<1>5. CASE UNCHANGED vars
  BY <1>5 DEF vars, timers
<1> QED
  BY <1>1, <1>2, <1>3, <1>4, <1>5 DEF Next, RoomStep

\* What a game timer's callback does to the two other timers.
LEMMA GameTickTimers ==
  ASSUME NEW job, NEW rewound, GameTick(job, rewound)
  PROVE  \/ /\ UNCHANGED <<waitingCountdownInterval, transitionTimeout, gameState>>
            /\ \/ gameTimeInterval' = rewound
               \/ gameTimeInterval' = Interval(NextJob[job])
               \/ gameTimeInterval' = gameTimeInterval /\ phase' = "crashed"
         \/ stopCurrentRoundOrGame
  BY DEF GameTick, CountsDown, RevealsNextCue, MissesTheWord, TimesOut

\* Announcing a round starts the count-down together with a transition that
\* does not fall due before it.
LEMMA AnnouncedRound ==
  ASSUME NEW seconds \in Nat, startRoundWithCountdown(seconds)
  PROVE  /\ CountdownIsBacked'
         /\ waitingCountdownInterval'.on
         /\ ~waitingCountdownInterval'.paused /\ ~transitionTimeout'.paused
  BY DEF startRoundWithCountdown, CountdownIsBacked, Interval, Timeout

LEMMA StoppedRound ==
  ASSUME stopCurrentRoundOrGame
  PROVE  /\ CountdownIsBacked'
         /\ waitingCountdownInterval'.on /\ ~waitingCountdownInterval'.paused
         /\ ~gameTimeInterval'.on /\ ~gameTimeInterval'.paused
         /\ ~transitionTimeout'.paused \/ transitionTimeout' = transitionTimeout
         /\ gameState' = "ROUND_END"
<1>1. CASE WordsLeft
  BY <1>1, AnnouncedRound, TimesAssumption DEF stopCurrentRoundOrGame, Off
<1>2. CASE ~WordsLeft
  BY <1>2 DEF stopCurrentRoundOrGame, CountdownIsBacked, Off, Interval
<1> QED
  BY <1>1, <1>2

LEMMA CountdownStep == TypeOK /\ CountdownIsBacked /\ [Next]_vars => CountdownIsBacked'
<1> SUFFICES ASSUME TypeOK, CountdownIsBacked, [Next]_vars PROVE CountdownIsBacked'
  OBVIOUS
<1>0. /\ waitingCountdownInterval \in Timer({"count", "finish"})
      /\ transitionTimeout \in Timer({"startRound"})
  BY DEF TypeOK, TimersTypeOK
<1>1. ASSUME NEW s \in Sessions, RestartGame(s) PROVE CountdownIsBacked'
  BY <1>1 DEF RestartGame, CountdownIsBacked, Off
<1>2. ASSUME NEW s \in Sessions, Guess(s) PROVE CountdownIsBacked'
  BY <1>2, StoppedRound DEF Guess
<1>3. ASSUME NEW s \in Sessions, PauseGame(s) PROVE CountdownIsBacked'
  BY <1>0, <1>3 DEF PauseGame, CountdownIsBacked, Pause, Timer
<1>4. ASSUME NEW s \in Sessions, ResumeGame(s) PROVE CountdownIsBacked'
  BY <1>0, <1>4 DEF ResumeGame, CountdownIsBacked, Resume, Timer
<1>5. ASSUME NEW n \in WordCounts, InitiateGame(n) PROVE CountdownIsBacked'
  BY <1>5, AnnouncedRound, TimesAssumption DEF InitiateGame
<1>6. CASE OnDispose
  BY <1>6 DEF OnDispose, CountdownIsBacked, Off
<1>7. CASE Elapse
  BY <1>0, <1>7 DEF Elapse, CountdownIsBacked, Age, Running, Due, Timer
<1>8. CASE TransitionFires
  BY <1>8 DEF TransitionFires, CountdownIsBacked, Off
<1>9. CASE WaitingFires
  BY <1>0, <1>9 DEF WaitingFires, CountdownIsBacked, Off, Rewind, Due, Running, Timer
<1>10. ASSUME NEW job, NEW rewound, GameTick(job, rewound) PROVE CountdownIsBacked'
  BY <1>10, GameTickTimers, StoppedRound DEF CountdownIsBacked
<1>11. CASE GameTimerFires \/ \E i \in DOMAIN orphans: OrphanFires(i)
  BY <1>10, <1>11 DEF GameTimerFires, OrphanFires
<1>12. ASSUME ~Clock, ~OnDispose,
              ~\E s \in Sessions: \/ RestartGame(s) \/ Guess(s)
                                 \/ PauseGame(s) \/ ResumeGame(s),
              ~\E n \in WordCounts: InitiateGame(n)
       PROVE  CountdownIsBacked'
  BY <1>12, TimersFrame DEF CountdownIsBacked
<1> QED
  BY <1>1, <1>2, <1>3, <1>4, <1>5, <1>6, <1>7, <1>8, <1>9, <1>11, <1>12 DEF Clock

\* A count-down is at all times ended by a transition that is still to come:
\* the two are started, paused, resumed and cleared together.
THEOREM CountdownIsBackedAlways == Spec => []CountdownIsBacked
<1>1. Init => CountdownIsBacked
  BY DEF Init, CountdownIsBacked, Off
<1> QED
  BY <1>1, CountdownStep, TypeCorrectness, PTL DEF Spec

LEMMA PlayingStep == TypeOK /\ PlayingMeansUnpaused /\ [Next]_vars => PlayingMeansUnpaused'
<1> SUFFICES ASSUME TypeOK, PlayingMeansUnpaused, [Next]_vars PROVE PlayingMeansUnpaused'
  OBVIOUS
<1>0. /\ waitingCountdownInterval \in Timer({"count", "finish"})
      /\ transitionTimeout \in Timer({"startRound"})
      /\ gameTimeInterval \in Timer(CycleJobs)
  BY DEF TypeOK, TimersTypeOK
<1> USE DEF PlayingMeansUnpaused
<1>1. ASSUME NEW s \in Sessions, RestartGame(s) PROVE PlayingMeansUnpaused'
  BY <1>1 DEF RestartGame, Off
<1>2. ASSUME NEW s \in Sessions, Guess(s) PROVE PlayingMeansUnpaused'
  BY <1>2, StoppedRound DEF Guess
<1>3. ASSUME NEW s \in Sessions, PauseGame(s) PROVE PlayingMeansUnpaused'
  BY <1>3 DEF PauseGame
<1>4. ASSUME NEW s \in Sessions, ResumeGame(s) PROVE PlayingMeansUnpaused'
  BY <1>0, <1>4 DEF ResumeGame, Resume, Timer
<1>5. ASSUME NEW n \in WordCounts, InitiateGame(n) PROVE PlayingMeansUnpaused'
  BY <1>5, AnnouncedRound, TimesAssumption DEF InitiateGame
<1>6. CASE OnDispose
  BY <1>6 DEF OnDispose, Off
<1>7. CASE Elapse
  BY <1>0, <1>7 DEF Elapse, Age, Timer
<1>8. CASE TransitionFires
  BY <1>8 DEF TransitionFires, firstCycle, Off, Interval
<1>9. CASE WaitingFires
  BY <1>0, <1>9 DEF WaitingFires, Off, Rewind, Timer
<1>10. ASSUME NEW job, NEW rewound, GameTick(job, rewound),
              gamePlayStatus = "PLAYING" => ~rewound.paused
       PROVE PlayingMeansUnpaused'
  <2>1. gamePlayStatus' = gamePlayStatus
    BY <1>10 DEF GameTick
  <2>2. ~Interval(NextJob[job]).paused
    BY DEF Interval
  <2> QED
    BY <1>10, <2>1, <2>2, GameTickTimers, StoppedRound
<1>11. CASE GameTimerFires
  BY <1>0, <1>10, <1>11 DEF GameTimerFires, Rewind, Timer
<1>12. CASE \E i \in DOMAIN orphans: OrphanFires(i)
  BY <1>10, <1>12 DEF OrphanFires
<1>13. ASSUME ~Clock, ~OnDispose,
              ~\E s \in Sessions: \/ RestartGame(s) \/ Guess(s)
                                 \/ PauseGame(s) \/ ResumeGame(s),
              ~\E n \in WordCounts: InitiateGame(n)
       PROVE  PlayingMeansUnpaused'
  BY <1>13, TimersFrame
<1> QED
  BY <1>1, <1>2, <1>3, <1>4, <1>5, <1>6, <1>7, <1>8, <1>9, <1>11, <1>12, <1>13 DEF Clock

\* Whenever the status is PLAYING, no timer that the room has a handle of is
\* paused: resuming reaches whatever pausing stopped.
THEOREM PlayingMeansUnpausedAlways == Spec => []PlayingMeansUnpaused
<1>1. Init => PlayingMeansUnpaused
  BY DEF Init, PlayingMeansUnpaused, Off
<1> QED
  BY <1>1, PlayingStep, TypeCorrectness, PTL DEF Spec

LEMMA GoingStep ==
  TypeOK /\ TimersKeepTheGameGoing /\ [Next]_vars => TimersKeepTheGameGoing'
<1> SUFFICES ASSUME TypeOK, TimersKeepTheGameGoing, [Next]_vars
             PROVE  TimersKeepTheGameGoing'
  OBVIOUS
<1>0. /\ waitingCountdownInterval \in Timer({"count", "finish"})
      /\ gameTimeInterval \in Timer(CycleJobs)
  BY DEF TypeOK, TimersTypeOK
<1> USE DEF TimersKeepTheGameGoing
<1>1. ASSUME NEW s \in Sessions, RestartGame(s) PROVE TimersKeepTheGameGoing'
  BY <1>1 DEF RestartGame
<1>2. ASSUME NEW s \in Sessions, Guess(s) PROVE TimersKeepTheGameGoing'
  BY <1>2, StoppedRound DEF Guess
<1>3. ASSUME NEW s \in Sessions, PauseGame(s) \/ ResumeGame(s)
      PROVE TimersKeepTheGameGoing'
  BY <1>0, <1>3, PausedTimer DEF PauseGame, ResumeGame
<1>4. ASSUME NEW n \in WordCounts, InitiateGame(n) PROVE TimersKeepTheGameGoing'
  BY <1>4, AnnouncedRound, TimesAssumption DEF InitiateGame
<1>5. CASE OnDispose
  BY <1>5 DEF OnDispose
<1>6. CASE Elapse
  BY <1>0, <1>6, AgedTimer DEF Elapse
<1>7. CASE TransitionFires
  BY <1>7 DEF TransitionFires, firstCycle, Interval
<1>8. CASE WaitingFires
  BY <1>0, <1>8, RewoundTimer DEF WaitingFires, Due, Running
<1>9. ASSUME NEW job, NEW rewound, GameTick(job, rewound),
             gameState = "GAME_STARTED" => rewound.on
      PROVE TimersKeepTheGameGoing'
  <2>1. phase' = phase \/ phase' = "crashed"
    BY <1>9 DEF GameTick, CountsDown, RevealsNextCue, MissesTheWord, TimesOut
  <2>2. Interval(NextJob[job]).on
    BY DEF Interval
  <2> QED
    BY <1>9, <2>1, <2>2, GameTickTimers, StoppedRound
<1>10. CASE GameTimerFires
  <2>1. Rewind(gameTimeInterval).on
    BY <1>0, <1>10, RewoundTimer DEF GameTimerFires, Due, Running
  <2> QED
    BY <1>9, <1>10, <2>1 DEF GameTimerFires
<1>11. CASE \E i \in DOMAIN orphans: OrphanFires(i)
  <2>1. gameState = "GAME_STARTED" => gameTimeInterval.on
    BY <1>11 DEF OrphanFires, GameTick, ClockRuns
  <2> QED
    BY <1>9, <1>11, <2>1 DEF OrphanFires
<1>12. ASSUME ~Clock, ~OnDispose,
              ~\E s \in Sessions: \/ RestartGame(s) \/ Guess(s)
                                 \/ PauseGame(s) \/ ResumeGame(s),
              ~\E n \in WordCounts: InitiateGame(n)
       PROVE  TimersKeepTheGameGoing'
  BY <1>12, TimersFrame
<1> QED
  BY <1>1, <1>2, <1>3, <1>4, <1>5, <1>6, <1>7, <1>8, <1>10, <1>11, <1>12 DEF Clock

\* A round being played always has a game timer, and the time between rounds a
\* waiting timer: no interleaving of chains, guesses and stale callbacks leaves a
\* live game without the timer that moves it on.
THEOREM TimersKeepTheGameGoingAlways == Spec => []TimersKeepTheGameGoing
<1>1. Init => TimersKeepTheGameGoing
  BY DEF Init, TimersKeepTheGameGoing
<1> QED
  BY <1>1, GoingStep, TypeCorrectness, PTL DEF Spec

-----------------------------------------------------------------------------
(* Disposal *)

\* The disposal timeout is armed by leaving and by itself only, and a room that
\* has left the lobby never returns to it.
LEMMA DisposalFrame ==
  ASSUME [Next]_vars, ~DisposeTimeoutFires, ~OnDispose,
         ~\E s \in Sessions: OnLeave(s)
  PROVE  /\ disposeTimeout' = disposeTimeout
         /\ phase' = phase \/ phase' = "crashed"
         /\ gameState' = "LOBBY" => gameState = "LOBBY"
<1>1. CASE Clock
  BY <1>1 DEF Clock, Elapse, TransitionFires, WaitingFires, GameTimerFires,
     OrphanFires, GameTick, CountsDown, RevealsNextCue, MissesTheWord, TimesOut,
     stopCurrentRoundOrGame
<1>2. CASE ChainStep
  BY <1>2 DEF ChainStep, GameCreated, CreateFails, InitiateGame, FetchFails
<1>3. CASE PlayerStep
  BY <1>3 DEF PlayerStep, OnJoin, Guess, PauseGame, ResumeGame, VoteForGameRestart,
     stopCurrentRoundOrGame
<1>4. CASE \E s \in Sessions: StartGame(s) \/ RestartGame(s)
  BY <1>4 DEF StartGame, RestartGame
<1>5. CASE UNCHANGED vars
  BY <1>5 DEF vars
<1> QED
  BY <1>1, <1>2, <1>3, <1>4, <1>5 DEF Next, RoomStep

LEMMA LobbyStep == TypeOK /\ LobbyIsWatched /\ [Next]_vars => LobbyIsWatched'
<1> SUFFICES ASSUME TypeOK, LobbyIsWatched, [Next]_vars PROVE LobbyIsWatched'
  OBVIOUS
<1> USE DEF LobbyIsWatched
<1>1. CASE DisposeTimeoutFires
  BY <1>1 DEF DisposeTimeoutFires, Disconnect, Rearmed
<1>2. CASE OnDispose
  BY <1>2 DEF OnDispose
<1>3. ASSUME NEW s \in Sessions, OnLeave(s) PROVE LobbyIsWatched'
  BY <1>3 DEF OnLeave, LastLeaves
<1>4. ASSUME ~DisposeTimeoutFires, ~OnDispose, ~\E s \in Sessions: OnLeave(s)
      PROVE  LobbyIsWatched'
  BY <1>4, DisposalFrame
<1> QED
  BY <1>1, <1>2, <1>3, <1>4

\* As long as a room is a lobby its idle timeout is armed, and the timeout that
\* disconnects whoever is there is armed only once a game was started.
THEOREM LobbyIsWatchedAlways == Spec => []LobbyIsWatched
<1>1. Init => LobbyIsWatched
  BY DEF Init, LobbyIsWatched
<1> QED
  BY <1>1, LobbyStep, TypeCorrectness, PTL DEF Spec

\* A disposed room awards nothing, plays no round and stays disposed, whatever a
\* start chain that outlives it does.
THEOREM DisposedRoomIsInertAlways == Spec => DisposedRoomIsInert
<1> DEFINE Inert ==
      phase = "disposed" =>
        /\ phase' = "disposed"
        /\ UNCHANGED <<players, scores, round, word, gameTimeInterval, orphans>>
<1>1. [Next]_vars => Inert
  <2> SUFFICES ASSUME [Next]_vars, phase = "disposed"
               PROVE  /\ phase' = "disposed"
                      /\ UNCHANGED <<players, scores, round, word, gameTimeInterval,
                                     orphans>>
    OBVIOUS
  <2>1. CASE Clock
    BY <2>1 DEF Clock, Elapse, TransitionFires, WaitingFires, GameTimerFires,
       OrphanFires, GameTick, ClockRuns
  <2>2. CASE ChainStep
    BY <2>2 DEF ChainStep, GameCreated, CreateFails, InitiateGame, FetchFails,
       timers, roundVars
  <2>3. CASE PlayerStep
    BY <2>3 DEF PlayerStep, OnJoin, OnLeave, Guess, PauseGame, ResumeGame,
       VoteForGameRestart
  <2>4. CASE DisposeTimeoutFires \/ OnDispose
    BY <2>4 DEF DisposeTimeoutFires, OnDispose
  <2>5. CASE \E s \in Sessions: StartGame(s) \/ RestartGame(s)
    BY <2>5 DEF StartGame, RestartGame
  <2>6. CASE UNCHANGED vars
    BY <2>6 DEF vars, timers, roundVars
  <2> QED
    BY <2>1, <2>2, <2>3, <2>4, <2>5, <2>6 DEF Next, RoomStep
<1>2. [Next]_vars => [Inert]_vars
  BY <1>1
<1> HIDE DEF Inert
<1>3. Spec => [][Inert]_vars
  BY <1>2, PTL DEF Spec
<1> QED
  BY <1>3 DEF DisposedRoomIsInert, Inert

-----------------------------------------------------------------------------
(* The game flow *)

LEMMA FlowIsAllowed == [FlowNext]_vars => [Next]_vars
  BY DEF FlowNext, Next

\* By its definition the game flow has no other steps than the open behaviour.
LEMMA FlowIsOpen == FlowSpec => Spec
  BY FlowIsAllowed, PTL DEF FlowSpec, Spec

\* So the room is type correct in the game flow too.
THEOREM FlowTypeCorrectness == FlowSpec => []TypeOK
  BY FlowIsOpen, TypeCorrectness, PTL

LEMMA FlowInvInit == Init => FlowInv
  BY DEF Init, FlowInv, InLobby, NoTimers, ChainsInFlight, Chains, Off

\* Steps that leave the game, its timers and the chains alone.
FlowVars ==
  <<gameState, round, cycle, time, waitingCountdownTime, words, word, shown,
    waitingCountdownInterval, gameTimeInterval, transitionTimeout, orphans,
    creating, fetching>>

LEMMA FlowInvFrame ==
  ASSUME FlowInv, UNCHANGED FlowVars,
         phase' = phase \/ (phase = "open" /\ phase' = "disposing")
  PROVE  FlowInv'
<1> USE DEF FlowInv, ChainsInFlight, FlowVars
<1>1. gameState = "LOBBY" => InLobby'
  BY DEF InLobby, NoTimers
<1>2. gameState = "START_COUNTDOWN" => InStartCountdown'
  BY DEF InStartCountdown, NoTimers, Announced
<1>3. gameState = "GAME_STARTED" => Playing'
  BY DEF Playing, InRound
<1>4. gameState = "ROUND_END" => BetweenRounds'
  BY DEF BetweenRounds, InRound, NoTimers, Announced
<1>5. gameState = "GAME_END" => Over'
  BY DEF Over, NoTimers
<1> QED
  BY <1>1, <1>2, <1>3, <1>4, <1>5

\* The types the steps below need.
LEMMA FlowTypes ==
  ASSUME TypeOK
  PROVE  /\ waitingCountdownInterval \in Timer({"count", "finish"})
         /\ gameTimeInterval \in Timer(CycleJobs)
         /\ transitionTimeout \in Timer({"startRound"})
         /\ creating["start"] \in Nat /\ creating["restart"] \in Nat
         /\ fetching \in Nat /\ round \in Nat /\ words \in Nat
         /\ time \in Int /\ waitingCountdownTime \in Int
  BY DEF TypeOK, TimersTypeOK, ChainsTypeOK, GameTypeOK, Chains

\* A round that is announced while nothing else is going on.
LEMMA AnnouncesRound ==
  ASSUME NEW seconds \in Nat, startRoundWithCountdown(seconds),
         waitingCountdownTime' = seconds
  PROVE  Announced'
  BY DEF startRoundWithCountdown, Announced, Interval, Timeout

\* Ending a round, by a guess or when its time is up.
LEMMA RoundStops ==
  ASSUME TypeOK, FlowInv, gameState = "GAME_STARTED", stopCurrentRoundOrGame,
         phase # "disposed", time' >= 0,
         UNCHANGED <<phase, round, cycle, words, word, shown, orphans, creating,
                     fetching>>
  PROVE  FlowInv'
<1>1. Playing
  BY DEF FlowInv
<1>2. InRound' /\ ~gameTimeInterval'.on /\ gameState' = "ROUND_END"
  BY <1>1, TimesAssumption DEF Playing, InRound, stopCurrentRoundOrGame, Off,
     ChainsInFlight
<1>3. CASE WordsLeft
  <2>1. Announced'
    BY <1>3, AnnouncesRound, TimesAssumption DEF stopCurrentRoundOrGame
  <2> QED
    BY <1>2, <1>3, <2>1 DEF FlowInv, BetweenRounds, WordsLeft, ChainsInFlight
<1>4. CASE ~WordsLeft
  <2>1. words = round
    BY <1>1, <1>4, FlowTypes DEF Playing, InRound, WordsLeft
  <2>2. /\ ~transitionTimeout'.on
        /\ waitingCountdownInterval'.on /\ waitingCountdownInterval'.job = "finish"
        /\ waitingCountdownTime' >= 1
    BY <1>1, <1>4, TimesAssumption DEF stopCurrentRoundOrGame, Playing, Interval
  <2> QED
    BY <1>2, <2>1, <2>2 DEF FlowInv, BetweenRounds, ChainsInFlight
<1> QED
  BY <1>3, <1>4

LEMMA FlowInvStep ==
  ASSUME 0 \notin WordCounts, TypeOK, FlowInv, [FlowNext]_vars
  PROVE  FlowInv'
<1>0. /\ waitingCountdownInterval \in Timer({"count", "finish"})
      /\ gameTimeInterval \in Timer(CycleJobs)
      /\ transitionTimeout \in Timer({"startRound"})
      /\ creating["start"] \in Nat /\ creating["restart"] \in Nat
      /\ fetching \in Nat /\ round \in Nat /\ words \in Nat
      /\ time \in Int /\ waitingCountdownTime \in Int
      /\ creating \in [Chains -> Nat]
      /\ "start" \in Chains /\ "restart" \in Chains
      /\ gameState \in GameStates
  BY FlowTypes DEF TypeOK, ChainsTypeOK, GameTypeOK, Chains
<1>1. ASSUME NEW s \in Sessions, OnJoin(s) \/ OnLeave(s) PROVE FlowInv'
  <2>1. UNCHANGED FlowVars
    BY <1>1 DEF OnJoin, OnLeave, timers, chains, roundVars, FlowVars
  <2>2. phase' = phase
    BY <1>1 DEF OnJoin, OnLeave
  <2> QED
    BY <2>1, <2>2, FlowInvFrame
<1>2. ASSUME NEW s \in Sessions, NEW vote \in BOOLEAN, VoteForGameRestart(s, vote)
      PROVE FlowInv'
  <2>1. UNCHANGED FlowVars
    BY <1>2 DEF VoteForGameRestart, timers, chains, roundVars, FlowVars
  <2>2. phase' = phase
    BY <1>2 DEF VoteForGameRestart
  <2> QED
    BY <2>1, <2>2, FlowInvFrame
<1>3. CASE DisposeTimeoutFires
  <2>1. UNCHANGED FlowVars
    BY <1>3 DEF DisposeTimeoutFires, timers, chains, roundVars, FlowVars
  <2>2. phase' = phase \/ (phase = "open" /\ phase' = "disposing")
    <3>1. phase = "open" /\ (phase' = phase \/ Disconnect)
      BY <1>3 DEF DisposeTimeoutFires
    <3> QED
      BY <3>1 DEF Disconnect
  <2> QED
    BY <2>1, <2>2, FlowInvFrame
<1>4. CASE UNCHANGED vars
  <2>1. UNCHANGED FlowVars
    BY <1>4 DEF vars, timers, chains, roundVars, FlowVars
  <2>2. phase' = phase
    BY <1>4 DEF vars
  <2> QED
    BY <2>1, <2>2, FlowInvFrame
<1>5. CASE OnDispose
  <2> USE <1>5 DEF OnDispose, timers, chains, roundVars, Off, ChainsInFlight
  <2>1. gameState = "LOBBY" => InLobby'
    BY DEF FlowInv, InLobby, NoTimers
  <2>2. gameState = "START_COUNTDOWN" => InStartCountdown'
    BY <1>0 DEF FlowInv, InStartCountdown, NoTimers, Announced, Timer
  <2>3. gameState = "GAME_STARTED" => Playing'
    BY DEF FlowInv, Playing, InRound
  <2>4. gameState = "ROUND_END" => BetweenRounds'
    BY DEF FlowInv, BetweenRounds, InRound, NoTimers
  <2>5. gameState = "GAME_END" => Over'
    BY DEF FlowInv, Over, NoTimers
  <2> QED
    BY <2>1, <2>2, <2>3, <2>4, <2>5 DEF FlowInv
<1>6. ASSUME NEW s \in Sessions, Quiet, gameState = "LOBBY", StartGame(s)
      PROVE FlowInv'
  <2>0. creating["start"] = 0 /\ creating["restart"] = 0 /\ fetching = 0
    BY <1>0, <1>6 DEF Quiet
  <2>1. creating'["start"] = 1 /\ creating'["restart"] = 0 /\ fetching' = 0
    BY <1>0, <1>6, <2>0 DEF StartGame
  <2>2. ChainsInFlight' = 1
    BY <2>1 DEF ChainsInFlight
  <2>3. InLobby'
    BY <1>6, <2>1, <2>2 DEF FlowInv, InLobby, StartGame, NoTimers, timers, roundVars
  <2> QED
    BY <1>6, <2>2, <2>3 DEF StartGame, FlowInv, timers
<1>7. ASSUME NEW s \in Sessions, Quiet, RestartGame(s) PROVE FlowInv'
  <2>0. creating["start"] = 0 /\ creating["restart"] = 0 /\ fetching = 0
    BY <1>0, <1>7 DEF Quiet
  <2>1. creating'["start"] = 0 /\ creating'["restart"] = 1 /\ fetching' = 0
    BY <1>0, <1>7, <2>0 DEF RestartGame
  <2>2. ChainsInFlight' = 1
    BY <2>1 DEF ChainsInFlight
  <2>3. InStartCountdown'
    BY <1>7, <2>1, <2>2, TimesAssumption DEF InStartCountdown, RestartGame, NoTimers, Off
  <2> QED
    BY <1>7, <2>2, <2>3 DEF RestartGame, FlowInv
<1>8. ASSUME NEW c \in Chains, CreateFails(c) PROVE FlowInv'
  <2>1. /\ ChainsInFlight = 1 /\ ChainsInFlight' = 0
        /\ creating'["start"] = 0 /\ creating'["restart"] = 0 /\ fetching' = 0
    BY <1>0, <1>8 DEF CreateFails, FlowInv, ChainsInFlight, Chains
  <2>2. gameState = "LOBBY" => InLobby'
    BY <1>8, <2>1 DEF CreateFails, FlowInv, InLobby, NoTimers, timers, roundVars
  <2>3. gameState = "START_COUNTDOWN" => InStartCountdown'
    BY <1>8, <2>1 DEF CreateFails, FlowInv, InStartCountdown, NoTimers, timers, roundVars
  <2>4. gameState \in {"LOBBY", "START_COUNTDOWN"}
    BY <1>0, <2>1 DEF FlowInv, Playing, BetweenRounds, InRound, Over, GameStates
  <2> QED
    BY <1>8, <2>1, <2>2, <2>3, <2>4 DEF CreateFails, FlowInv, timers
<1>9. ASSUME NEW c \in Chains, GameCreated(c) PROVE FlowInv'
  <2>1. /\ ChainsInFlight = 1 /\ ChainsInFlight' = 1
        /\ creating'["start"] = 0 /\ creating'["restart"] = 0 /\ fetching' = 1
    BY <1>0, <1>9 DEF GameCreated, FlowInv, ChainsInFlight, Chains
  <2>2. /\ gameState \in {"LOBBY", "START_COUNTDOWN"}
        /\ c = "start" => gameState = "LOBBY"
        /\ c = "restart" => gameState = "START_COUNTDOWN"
    BY <1>0, <1>9, <2>1
    DEF FlowInv, Playing, BetweenRounds, InRound, Over, GameStates, Chains,
        InLobby, InStartCountdown, GameCreated
  <2>3. NoTimers /\ round = 0
    BY <2>1, <2>2 DEF FlowInv, InLobby, InStartCountdown
  <2>4. CASE c = "start"
    BY <1>9, <2>1, <2>2, <2>3, <2>4, TimesAssumption
    DEF GameCreated, FlowInv, InStartCountdown, NoTimers, timers
  <2>5. CASE c = "restart"
    BY <1>9, <2>1, <2>2, <2>3, <2>5
    DEF GameCreated, FlowInv, InStartCountdown, NoTimers, timers
  <2> QED
    BY <2>4, <2>5 DEF Chains
<1>10. ASSUME NEW n \in WordCounts, InitiateGame(n) PROVE FlowInv'
  <2>1. ChainsInFlight = 1 /\ ChainsInFlight' = 0 /\ creating'["start"] = 0
    BY <1>0, <1>10 DEF InitiateGame, FlowInv, ChainsInFlight
  <2>2. gameState = "START_COUNTDOWN"
    BY <1>0, <1>10, <2>1
    DEF FlowInv, Playing, BetweenRounds, InRound, Over, InLobby, GameStates, InitiateGame
  <2>3. InStartCountdown /\ NoTimers /\ waitingCountdownTime = StartCountdown
    BY <2>1, <2>2 DEF FlowInv, InStartCountdown
  <2>4. Announced'
    <3>1. startRoundWithCountdown(StartCountdown)
          /\ waitingCountdownTime' = StartCountdown
      BY <1>10, <2>3 DEF InitiateGame
    <3> QED
      BY <3>1, AnnouncesRound, TimesAssumption
  <2>5. words' > 0
    BY <1>10, LimitsAssumption DEF InitiateGame
  <2> QED
    BY <1>10, <2>1, <2>2, <2>3, <2>4, <2>5
    DEF InitiateGame, FlowInv, InStartCountdown, roundVars
<1>11. CASE FetchFails
  <2>1. ChainsInFlight = 1 /\ ChainsInFlight' = 0 /\ creating'["start"] = 0
    BY <1>0, <1>11 DEF FetchFails, FlowInv, ChainsInFlight
  <2>2. gameState = "START_COUNTDOWN"
    BY <1>0, <1>11, <2>1
    DEF FlowInv, Playing, BetweenRounds, InRound, Over, InLobby, GameStates, FetchFails
  <2> QED
    BY <1>11, <2>1, <2>2
    DEF FetchFails, FlowInv, InStartCountdown, NoTimers, timers, roundVars
<1>12. ASSUME NEW s \in Sessions, Guess(s) PROVE FlowInv'
  <2>1. gameState = "GAME_STARTED" /\ phase # "disposed"
    BY <1>12 DEF Guess, checkForWinner
  <2>2. time >= 0
    BY <2>1 DEF FlowInv, Playing, InRound
  <2> QED
    BY <1>12, <2>1, <2>2, RoundStops DEF Guess, chains, roundVars
<1>13. ASSUME NEW s \in Sessions, PauseGame(s) \/ ResumeGame(s) PROVE FlowInv'
  <2>0. /\ phase' = phase /\ gameState' = gameState /\ orphans' = orphans
        /\ UNCHANGED <<round, cycle, time, word, shown, waitingCountdownTime, words,
                       creating, fetching>>
    BY <1>13 DEF PauseGame, ResumeGame, chains, roundVars
  <2>1. /\ waitingCountdownInterval'.on = waitingCountdownInterval.on
        /\ waitingCountdownInterval'.job = waitingCountdownInterval.job
        /\ waitingCountdownInterval'.left = waitingCountdownInterval.left
    BY <1>0, <1>13 DEF PauseGame, ResumeGame, Pause, Resume, Timer
  <2>2. /\ transitionTimeout'.on = transitionTimeout.on
        /\ transitionTimeout'.left = transitionTimeout.left
        /\ gameTimeInterval'.on = gameTimeInterval.on
        /\ gameTimeInterval'.job = gameTimeInterval.job
    BY <1>0, <1>13 DEF PauseGame, ResumeGame, Pause, Resume, Timer
  <2>3. Announced => Announced'
    <3>1. Announced => waitingCountdownInterval'.paused = transitionTimeout'.paused
      BY <1>0, <1>13 DEF PauseGame, ResumeGame, Pause, Resume, Timer, Announced
    <3> QED
      BY <2>0, <2>1, <2>2, <3>1 DEF Announced
  <2>4. NoTimers' = NoTimers /\ ChainsInFlight' = ChainsInFlight /\ InRound' = InRound
    BY <2>0, <2>1, <2>2 DEF NoTimers, ChainsInFlight, InRound
  <2>5. gameState = "LOBBY" => InLobby'
    BY <2>0, <2>4 DEF FlowInv, InLobby
  <2>6. gameState = "START_COUNTDOWN" => InStartCountdown'
    BY <2>0, <2>2, <2>3, <2>4 DEF FlowInv, InStartCountdown
  <2>7. gameState = "GAME_STARTED" => Playing'
    BY <2>0, <2>1, <2>2, <2>4 DEF FlowInv, Playing
  <2>8. gameState = "ROUND_END" => BetweenRounds'
    BY <2>0, <2>1, <2>2, <2>3, <2>4 DEF FlowInv, BetweenRounds
  <2>9. gameState = "GAME_END" => Over'
    BY <2>0, <2>4 DEF FlowInv, Over
  <2> QED
    BY <2>0, <2>4, <2>5, <2>6, <2>7, <2>8, <2>9 DEF FlowInv
<1>14. CASE Elapse
  <2>0. /\ phase' = phase /\ gameState' = gameState
        /\ UNCHANGED <<round, cycle, time, word, shown, waitingCountdownTime, words,
                       creating, fetching>>
    BY <1>14 DEF Elapse, chains, roundVars
  <2>1. orphans' = <<>>
    BY <1>14 DEF Elapse, FlowInv
  <2>2. /\ waitingCountdownInterval'.on = waitingCountdownInterval.on
        /\ waitingCountdownInterval'.job = waitingCountdownInterval.job
        /\ transitionTimeout'.on = transitionTimeout.on
        /\ gameTimeInterval'.on = gameTimeInterval.on
        /\ gameTimeInterval'.job = gameTimeInterval.job
    BY <1>0, <1>14, AgedTimer DEF Elapse
  <2>3. Announced => Announced'
    BY <1>0, <1>14, <2>0 DEF Elapse, Announced, Age, Running, Due, Timer
  <2>4. NoTimers' = NoTimers /\ ChainsInFlight' = ChainsInFlight /\ InRound' = InRound
    BY <2>0, <2>2 DEF NoTimers, ChainsInFlight, InRound
  <2>5. gameState = "LOBBY" => InLobby'
    BY <2>0, <2>4 DEF FlowInv, InLobby
  <2>6. gameState = "START_COUNTDOWN" => InStartCountdown'
    BY <2>0, <2>2, <2>3, <2>4 DEF FlowInv, InStartCountdown
  <2>7. gameState = "GAME_STARTED" => Playing'
    BY <2>0, <2>2, <2>4 DEF FlowInv, Playing
  <2>8. gameState = "ROUND_END" => BetweenRounds'
    BY <2>0, <2>2, <2>3, <2>4 DEF FlowInv, BetweenRounds
  <2>9. gameState = "GAME_END" => Over'
    BY <2>0, <2>4 DEF FlowInv, Over
  <2> QED
    BY <2>0, <2>1, <2>4, <2>5, <2>6, <2>7, <2>8, <2>9 DEF FlowInv
<1>15. CASE TransitionFires
  <2>1. phase \in {"open", "disposing"} /\ transitionTimeout.on
    BY <1>15 DEF TransitionFires, ClockRuns, Due, Running
  <2>2. /\ Announced /\ ChainsInFlight = 0 /\ words > round /\ ~gameTimeInterval.on
    BY <1>0, <2>1 DEF FlowInv, InLobby, InStartCountdown, Playing, BetweenRounds,
       InRound, Over, NoTimers, GameStates
  <2>3. waitingCountdownTime >= 0
    BY <1>0, <2>2 DEF Announced, Timer
  <2>4. ChainsInFlight' = 0 /\ orphans' = <<>> /\ phase' = phase
    BY <1>15, <2>2 DEF TransitionFires, firstCycle, chains, ChainsInFlight, FlowInv
  <2>5. InRound'
    <3>1. /\ word' = TRUE /\ round' = round + 1 /\ words' = words /\ shown' = {}
          /\ cycle' = 1 /\ time' = CycleTime[1]
          /\ waitingCountdownTime' = waitingCountdownTime
      BY <1>15, <2>2 DEF TransitionFires, firstCycle
    <3>2. CycleTime[1] >= 0 /\ 2..1 = {}
      BY TimesAssumption
    <3>3. round + 1 \in 1..words
      BY <1>0, <2>2
    <3> QED
      BY <2>3, <2>4, <3>1, <3>2, <3>3 DEF InRound
  <2>6. Playing'
    <3>1. time' > 0
      BY <1>15, TimesAssumption DEF TransitionFires, firstCycle
    <3>2. gameTimeInterval'.on /\ CycleOf[gameTimeInterval'.job] = cycle'
      BY <1>15 DEF TransitionFires, firstCycle, Interval, CycleOf
    <3>3. ~waitingCountdownInterval'.on /\ ~transitionTimeout'.on
      BY <1>15 DEF TransitionFires, Off
    <3> QED
      BY <2>1, <2>4, <2>5, <3>1, <3>2, <3>3 DEF Playing
  <2>7. gameState' = "GAME_STARTED"
    BY <1>15 DEF TransitionFires
  <2> QED
    BY <2>1, <2>4, <2>6, <2>7 DEF FlowInv
<1>16. CASE WaitingFires
  <2>0. /\ phase' = phase /\ phase \in {"open", "disposing"} /\ orphans' = orphans
        /\ UNCHANGED <<round, cycle, words, gameTimeInterval, transitionTimeout,
                       creating, fetching>>
        /\ waitingCountdownInterval.on /\ waitingCountdownInterval.left = 0
        /\ ~waitingCountdownInterval.paused
        /\ waitingCountdownTime' = waitingCountdownTime - 1
    BY <1>16 DEF WaitingFires, ClockRuns, Due, Running, chains
  <2>1. gameState \in {"START_COUNTDOWN", "ROUND_END"}
    BY <1>0, <2>0 DEF FlowInv, InLobby, Playing, Over, NoTimers, GameStates
  <2>2. ChainsInFlight' = ChainsInFlight
    BY <2>0 DEF ChainsInFlight
  <2>3. ASSUME Announced
        PROVE  /\ Announced' /\ UNCHANGED <<gameState, time, word, shown>>
               /\ waitingCountdownTime' >= 0
    <3>1. /\ waitingCountdownInterval' = Rewind(waitingCountdownInterval)
          /\ UNCHANGED <<gameState, time, word, shown>>
      BY <1>16, <2>3 DEF WaitingFires, Announced
    <3>2. transitionTimeout.left \in Nat /\ transitionTimeout.left # 0
      BY <1>0, <1>16, <2>0, <2>3 DEF WaitingFires, Announced, Due, Running, Timer
    <3>3. waitingCountdownTime = transitionTimeout.left
      BY <1>0, <2>0, <2>3, <3>2 DEF Announced
    <3>4. /\ waitingCountdownInterval'.on /\ waitingCountdownInterval'.left = 1
          /\ waitingCountdownInterval'.job = "count"
          /\ waitingCountdownInterval'.paused = waitingCountdownInterval.paused
      BY <1>0, <2>3, <3>1 DEF Announced, Rewind, Timer
    <3> QED
      BY <2>0, <2>3, <3>1, <3>2, <3>3, <3>4 DEF Announced
  <2>4. CASE gameState = "START_COUNTDOWN"
    <3>1. InStartCountdown /\ Announced
      BY <2>0, <2>4 DEF FlowInv, InStartCountdown, NoTimers
    <3>2. Announced' /\ UNCHANGED <<gameState, time>>
      BY <2>3, <3>1
    <3>3. ChainsInFlight = 0 /\ words > 0
      BY <2>0, <3>1 DEF InStartCountdown, NoTimers
    <3>4. InStartCountdown'
      BY <2>0, <2>2, <3>1, <3>2, <3>3 DEF InStartCountdown
    <3> QED
      BY <2>0, <2>2, <2>4, <3>2, <3>4 DEF FlowInv
  <2>5. CASE gameState = "ROUND_END"
    <3>1. BetweenRounds /\ InRound
      BY <2>5 DEF FlowInv, BetweenRounds
    <3>2. CASE words > round /\ Announced
      <4>1. waitingCountdownTime' >= 0
        BY <2>3, <3>2
      <4>2. InRound'
        BY <2>0, <2>2, <2>3, <3>1, <3>2, <4>1 DEF InRound
      <4> QED
        BY <2>0, <2>2, <2>3, <2>5, <3>1, <3>2, <4>2 DEF FlowInv, BetweenRounds
    <3>3. CASE ~(words > round /\ Announced)
      <4>1. /\ words = round /\ ~transitionTimeout.on /\ ~gameTimeInterval.on
            /\ waitingCountdownInterval.job = "finish" /\ waitingCountdownTime >= 1
        BY <2>0, <3>1, <3>3 DEF BetweenRounds
      <4>2. CASE waitingCountdownTime <= 1
        <5>1. /\ gameState' = "GAME_END" /\ time' = 0 /\ ~waitingCountdownInterval'.on
          BY <1>16, <4>1, <4>2 DEF WaitingFires, Off
        <5> QED
          BY <1>0, <2>0, <2>2, <3>1, <4>1, <5>1
          DEF FlowInv, Over, NoTimers, InRound
      <4>3. CASE ~(waitingCountdownTime <= 1)
        <5>1. /\ waitingCountdownInterval' = Rewind(waitingCountdownInterval)
              /\ UNCHANGED <<gameState, time, word, shown>>
          BY <1>16, <4>3 DEF WaitingFires
        <5>2. waitingCountdownInterval'.on /\ waitingCountdownInterval'.job = "finish"
          BY <1>0, <2>0, <4>1, <5>1, RewoundTimer
        <5>3. InRound'
          BY <1>0, <2>0, <2>2, <3>1, <4>3, <5>1 DEF InRound
        <5> QED
          BY <1>0, <2>0, <2>2, <2>5, <4>1, <4>3, <5>1, <5>2, <5>3
          DEF FlowInv, BetweenRounds
      <4> QED
        BY <4>2, <4>3
    <3> QED
      BY <3>2, <3>3
  <2> QED
    BY <2>1, <2>4, <2>5
<1>17. CASE GameTimerFires
  <2> DEFINE job == gameTimeInterval.job
  <2>0. /\ GameTick(job, Rewind(gameTimeInterval)) /\ orphans' = orphans
        /\ gameTimeInterval.on /\ phase \in {"open", "disposing"}
        /\ UNCHANGED <<round, words, creating, fetching>>
    BY <1>17 DEF GameTimerFires, GameTick, ClockRuns, Due, Running, chains
  <2>1. gameState = "GAME_STARTED" /\ Playing /\ InRound /\ ChainsInFlight = 0
    BY <1>0, <2>0 DEF FlowInv, InLobby, InStartCountdown, Playing, InRound,
       BetweenRounds, Over, NoTimers, GameStates
  <2>2. CycleOf[job] = cycle /\ time > 0 /\ word
    BY <2>0, <2>1 DEF Playing, InRound
  <2>3. job \in CycleJobs
    BY <2>0 DEF TypeOK, TimersTypeOK
  <2>4. ChainsInFlight' = 0 /\ orphans' = <<>>
    BY <2>0, <2>1 DEF ChainsInFlight, FlowInv
  <2> HIDE DEF job
  <2>5. CASE CountsDown(Rewind(gameTimeInterval))
    <3>1. /\ gameTimeInterval'.on /\ gameTimeInterval'.job = job
          /\ phase' = phase /\ gameState' = gameState
          /\ time' = time - 1 /\ time > 1
          /\ UNCHANGED <<cycle, word, shown, waitingCountdownTime,
                         waitingCountdownInterval, transitionTimeout>>
      BY <1>0, <2>0, <2>5, RewoundTimer DEF CountsDown, job
    <3>2. Playing'
      BY <1>0, <2>0, <2>1, <2>2, <2>4, <3>1 DEF Playing, InRound
    <3> QED
      BY <2>0, <2>1, <2>4, <3>1, <3>2 DEF FlowInv
  <2>6. CASE RevealsNextCue(job)
    <3>1. /\ NextJob[job] \in CycleJobs /\ CycleOf[NextJob[job]] = CycleOf[job] + 1
          /\ CycleOf[job] + 1 \in 2..4
      BY <2>3, <2>6 DEF RevealsNextCue, CycleJobs, NextJob, CycleOf
    <3>2. /\ gameTimeInterval'.on /\ gameTimeInterval'.job = NextJob[job]
          /\ phase' = phase /\ gameState' = gameState /\ cycle' = cycle + 1
          /\ time' = CycleTime[cycle + 1]
          /\ shown' = shown \cup {cycle + 1}
          /\ UNCHANGED <<word, waitingCountdownTime, waitingCountdownInterval,
                         transitionTimeout>>
      BY <2>2, <2>6 DEF RevealsNextCue, RevealedCue, Interval
    <3>3. time' \in Nat /\ time' > 0
      BY <2>2, <3>1, <3>2, TimesAssumption
    <3>4. shown' = 2..cycle' /\ cycle' \in 1..4
      BY <2>1, <2>2, <3>1, <3>2 DEF InRound
    <3>5. InRound'
      BY <2>0, <2>1, <2>4, <3>2, <3>3, <3>4 DEF InRound
    <3>6. CycleOf[gameTimeInterval'.job] = cycle'
      BY <2>2, <3>1, <3>2
    <3>7. Playing'
      BY <2>0, <2>1, <3>2, <3>3, <3>5, <3>6 DEF Playing
    <3> QED
      BY <2>0, <2>1, <2>4, <3>2, <3>7 DEF FlowInv
  <2>7. CASE MissesTheWord(job)
    BY <2>2, <2>7 DEF MissesTheWord
  <2>8. CASE TimesOut(job)
    <3>1. time' >= 0
      BY <1>0, <2>2, <2>8 DEF TimesOut
    <3> QED
      BY <2>0, <2>1, <2>8, <3>1, RoundStops DEF TimesOut
  <2> QED
    BY <2>0, <2>5, <2>6, <2>7, <2>8 DEF GameTick, job
<1>18. ASSUME NEW i \in DOMAIN orphans PROVE FALSE
  BY <1>18 DEF FlowInv
<1> QED
  BY <1>1, <1>2, <1>3, <1>4, <1>5, <1>6, <1>7, <1>8, <1>9, <1>10, <1>11, <1>12,
     <1>13, <1>14, <1>15, <1>16, <1>17, <1>18
  DEF FlowNext, RoomStep, PlayerStep, Clock, ChainStep

\* In the game flow, and if every stored game has words, the inductive invariant
\* holds: in each state of a game exactly the timers that belong to it run.
THEOREM FlowInvariance == 0 \notin WordCounts => (FlowSpec => []FlowInv)
<1> SUFFICES ASSUME 0 \notin WordCounts PROVE FlowSpec => []FlowInv
  OBVIOUS
<1>1. TypeOK /\ FlowInv /\ [FlowNext]_vars => FlowInv'
  BY FlowInvStep
<1> QED
  BY <1>1, FlowInvInit, FlowTypeCorrectness, PTL DEF FlowSpec

\* No timer outlives its round, and the game timer runs exactly while a round is
\* open, on behalf of the cycle that is shown.
THEOREM TimersMatchTheStateInFlow ==
  0 \notin WordCounts => (FlowSpec => []TimersMatchTheState)
<1>1. TypeOK /\ FlowInv => TimersMatchTheState
  <2> SUFFICES ASSUME TypeOK, FlowInv, phase \in {"open", "disposing"}
               PROVE  /\ orphans = <<>>
                      /\ gameTimeInterval.on <=> gameState = "GAME_STARTED"
                      /\ gameTimeInterval.on => CycleOf[gameTimeInterval.job] = cycle
                      /\ transitionTimeout.on =>
                           \/ gameState = "START_COUNTDOWN"
                           \/ gameState = "ROUND_END" /\ words > round
    BY DEF TimersMatchTheState
  <2>1. gameState \in GameStates /\ gameTimeInterval.on \in BOOLEAN
    BY DEF TypeOK, GameTypeOK, TimersTypeOK, Timer
  <2>2. CASE gameState = "GAME_STARTED"
    BY <2>2 DEF FlowInv, Playing
  <2>3. CASE gameState = "ROUND_END"
    BY <2>3 DEF FlowInv, BetweenRounds
  <2>4. CASE gameState \in {"LOBBY", "START_COUNTDOWN", "GAME_END"}
    BY <2>4 DEF FlowInv, InLobby, InStartCountdown, Over, NoTimers
  <2> QED
    BY <2>1, <2>2, <2>3, <2>4 DEF GameStates
<1> QED
  BY <1>1, FlowInvariance, FlowTypeCorrectness, PTL

\* The cues revealed are those of the cycles that have begun.
THEOREM CuesMatchTheCycleInFlow ==
  0 \notin WordCounts => (FlowSpec => []CuesMatchTheCycle)
<1>1. FlowInv => CuesMatchTheCycle
  BY DEF FlowInv, CuesMatchTheCycle, Playing, BetweenRounds, InRound
<1> QED
  BY <1>1, FlowInvariance, PTL

\* The count-down shown is the time until the round starts, and neither it nor
\* the time of the round is ever shown below zero.
THEOREM CountdownIsHonestInFlow ==
  0 \notin WordCounts => (FlowSpec => []CountdownIsHonest)
<1>1. TypeOK /\ FlowInv => CountdownIsHonest
  <2> SUFFICES ASSUME TypeOK, FlowInv PROVE CountdownIsHonest
    OBVIOUS
  <2>1. /\ gameState \in GameStates
        /\ waitingCountdownInterval \in Timer({"count", "finish"})
        /\ transitionTimeout \in Timer({"startRound"})
    BY DEF TypeOK, GameTypeOK, TimersTypeOK
  <2>2. Announced => waitingCountdownTime >= 0
    BY <2>1 DEF Announced, Timer
  <2>3. waitingCountdownTime >= 0
    BY <2>1, <2>2, TimesAssumption
    DEF GameStates, FlowInv, InLobby, InStartCountdown, Playing, BetweenRounds,
        InRound, Over
  <2>4. time >= 0
    BY <2>1 DEF GameStates, FlowInv, InLobby, InStartCountdown, Playing,
       BetweenRounds, InRound, Over
  <2>5. waitingCountdownInterval.on /\ waitingCountdownInterval.job = "count" => Announced
    BY <2>1 DEF GameStates, FlowInv, InLobby, InStartCountdown, Playing,
       BetweenRounds, Over, NoTimers
  <2> QED
    BY <2>3, <2>4, <2>5 DEF CountdownIsHonest, Announced
<1> QED
  BY <1>1, FlowInvariance, FlowTypeCorrectness, PTL

\* A game is over only when every word has been played, no round goes beyond
\* them, and no callback brings the process down for want of a word.
THEOREM EveryWordIsPlayedInFlow ==
  0 \notin WordCounts => (FlowSpec => []EveryWordIsPlayed)
<1>1. FlowInv => EveryWordIsPlayed
  BY DEF FlowInv, EveryWordIsPlayed, Playing, BetweenRounds, InRound, Over
<1> QED
  BY <1>1, FlowInvariance, PTL

=============================================================================
