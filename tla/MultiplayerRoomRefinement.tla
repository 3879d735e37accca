--------------------- MODULE MultiplayerRoomRefinement ---------------------
(***************************************************************************)
(* The multiplayer room, used along the game flow of the README,           *)
(* implements GameLifecycle: every step of the room is a step of the       *)
(* session its players see, or leaves that session as it is.               *)
(***************************************************************************)
EXTENDS MultiplayerRoomProofs

LEMMA LifecycleInit == Init => Lifecycle!Init
  BY DEF Init, Lifecycle!Init, Stage

\* Steps the players of the session do not see.
LEMMA Unseen ==
  ASSUME UNCHANGED <<gameState, round, words, sessionScore>>
  PROVE  UNCHANGED Lifecycle!vars
  BY DEF Lifecycle!vars, Stage

LEMMA LifecycleStep ==
  ASSUME 0 \notin WordCounts, TypeOK, FlowInv, FlowInv', [FlowNext]_vars
  PROVE  [Lifecycle!Next]_(Lifecycle!vars)
<1>0. /\ players \subseteq Sessions /\ players \subseteq joined
      /\ sessionScore \in [players -> Nat] /\ DOMAIN sessionScore = players
      /\ gameState \in GameStates /\ round \in Nat /\ words \in Nat
  BY DEF TypeOK, RosterTypeOK, GameTypeOK
<1>1. ASSUME NEW s \in Sessions, OnJoin(s) PROVE Lifecycle!Joins(s)
  BY <1>0, <1>1 DEF OnJoin, WithPlayer, Lifecycle!Joins, Stage, roundVars
<1>2. ASSUME NEW S, S \subseteq players, S # {}, RemovePlayers(S),
             UNCHANGED <<gameState, round, words>>
      PROVE  \E P \in SUBSET Sessions: Lifecycle!Leave(P)
  <2>1. sessionScore' = [q \in players \ S |-> sessionScore[q]]
    BY <1>2 DEF RemovePlayers, Without, Restrict
  <2>2. Lifecycle!Leave(S)
    BY <1>0, <1>2, <2>1 DEF Lifecycle!Leave, Stage
  <2> QED
    BY <1>0, <1>2, <2>2
<1>3. ASSUME NEW s \in Sessions, OnLeave(s)
      PROVE  \E P \in SUBSET Sessions: Lifecycle!Leave(P)
  <2>1. {s} \subseteq players /\ {s} # {} /\ RemovePlayers({s})
    BY <1>3 DEF OnLeave
  <2>2. UNCHANGED <<gameState, round, words>>
    BY <1>3 DEF OnLeave, roundVars
  <2> QED
    BY <1>2, <2>1, <2>2
<1>4. CASE DisposeTimeoutFires
  <2>1. UNCHANGED <<gameState, round, words>>
    BY <1>4 DEF DisposeTimeoutFires, roundVars
  <2>2. CASE UNCHANGED scores
    BY <2>1, <2>2, Unseen DEF scores
  <2>3. CASE RemovePlayers(players) /\ players # {}
    BY <1>2, <2>1, <2>3 DEF Lifecycle!Next
  <2>4. CASE RemovePlayers(players) /\ players = {}
    <3>1. sessionScore' = [q \in {} |-> sessionScore[q]]
      BY <2>4 DEF RemovePlayers, Without, Restrict
    <3>2. sessionScore' = sessionScore
      BY <1>0, <2>4, <3>1
    <3> QED
      BY <2>1, <3>2, Unseen
  <2> QED
    BY <1>4, <2>2, <2>3, <2>4 DEF DisposeTimeoutFires, Disconnect
<1>5. ASSUME NEW s \in Sessions, RestartGame(s) PROVE Lifecycle!Prepare
  BY <1>5 DEF RestartGame, Lifecycle!Prepare, Stage
<1>6. ASSUME NEW c \in Chains, GameCreated(c) PROVE [Lifecycle!Next]_(Lifecycle!vars)
  <2>1. CASE c = "start"
    <3>1. creating["start"] > 0 /\ fetching' > 0
      BY <1>6, <2>1 DEF GameCreated, TypeOK, ChainsTypeOK
    <3>2. gameState' = "START_COUNTDOWN" /\ words' = 0 /\ UNCHANGED <<round, sessionScore>>
      BY <1>6, <2>1 DEF GameCreated, scores
    <3>3. round' = 0
      BY <3>2 DEF FlowInv, InStartCountdown
    <3>4. Lifecycle!Prepare
      BY <3>2, <3>3 DEF Lifecycle!Prepare, Stage
    <3> QED
      BY <3>4 DEF Lifecycle!Next
  <2>2. CASE c # "start"
    BY <1>6, <2>2, Unseen DEF GameCreated, scores
  <2> QED
    BY <2>1, <2>2
<1>7. ASSUME NEW n \in WordCounts, InitiateGame(n) PROVE Lifecycle!Load
  <2>1. fetching > 0 /\ fetching \in Nat
    BY <1>7, FlowTypes DEF InitiateGame
  <2>2. gameState = "START_COUNTDOWN"
    BY <1>0, <2>1, FlowTypes DEF FlowInv, InLobby, Playing, BetweenRounds, InRound, Over,
       ChainsInFlight, GameStates
  <2>3. round = 0
    BY <2>2 DEF FlowInv, InStartCountdown
  <2>4. words' \in Nat \ {0} /\ UNCHANGED <<gameState, round, sessionScore>>
    BY <1>7, LimitsAssumption DEF InitiateGame, roundVars, scores
  <2> QED
    BY <2>2, <2>3, <2>4 DEF Lifecycle!Load, Stage
<1>8. ASSUME NEW s \in Sessions, Guess(s)
      PROVE  \E points \in {2, 4, 6, 10}: Lifecycle!Win(s, points)
  <2>1. gameState = "GAME_STARTED" /\ gameState' = "ROUND_END"
    BY <1>8 DEF Guess, checkForWinner, stopCurrentRoundOrGame
  <2>2. cycle \in 1..4
    BY <2>1 DEF FlowInv, Playing, InRound
  <2>3. getUserScore \in {2, 4, 6, 10}
    BY <2>2 DEF getUserScore, CycleScore
  <2>4. /\ sessionScore' = [sessionScore EXCEPT ![s] = @ + getUserScore]
        /\ s \in DOMAIN sessionScore /\ UNCHANGED <<round, words>>
    BY <1>0, <1>8 DEF Guess, roundVars
  <2>5. Lifecycle!Win(s, getUserScore)
    BY <2>1, <2>4 DEF Lifecycle!Win, Stage
  <2> QED
    BY <2>3, <2>5
<1>9. CASE TransitionFires
  <2>1. transitionTimeout.on
    BY <1>9 DEF TransitionFires, Due, Running
  <2>2. gameState \in {"START_COUNTDOWN", "ROUND_END"} /\ words > round
    BY <1>0, <2>1 DEF FlowInv, InLobby, InStartCountdown, Playing, BetweenRounds, Over,
       NoTimers, GameStates
  <2>3. /\ gameState' = "GAME_STARTED" /\ round' = round + 1
        /\ UNCHANGED <<words, sessionScore>>
    BY <1>9 DEF TransitionFires, firstCycle
  <2>4. Lifecycle!BeginRound
    BY <1>0, <2>2, <2>3 DEF Lifecycle!BeginRound, Stage
  <2> QED
    BY <2>4 DEF Lifecycle!Next
<1>10. CASE WaitingFires
  <2>1. UNCHANGED <<round, words, sessionScore>>
    BY <1>10 DEF WaitingFires, scores
  <2>2. CASE UNCHANGED gameState
    BY <2>1, <2>2, Unseen
  <2>3. CASE gameState' # gameState
    <3>1. gameState' = "GAME_END" /\ waitingCountdownInterval.job = "finish"
          /\ waitingCountdownInterval.on /\ phase # "disposed"
      BY <1>10, <2>3 DEF WaitingFires, ClockRuns, Due, Running
    <3>2. gameState = "ROUND_END" /\ words = round
      BY <1>0, <3>1 DEF FlowInv, InLobby, InStartCountdown, Playing, BetweenRounds,
         Over, NoTimers, Announced, GameStates
    <3>3. Lifecycle!Finish
      BY <2>1, <3>1, <3>2 DEF Lifecycle!Finish, Stage
    <3> QED
      BY <3>3 DEF Lifecycle!Next
  <2> QED
    BY <2>2, <2>3
<1>11. CASE GameTimerFires
  <2>1. UNCHANGED <<round, words, sessionScore>> /\ gameTimeInterval.on
    BY <1>11 DEF GameTimerFires, GameTick, scores, Due, Running
  <2>2. gameState = "GAME_STARTED"
    BY <1>0, <2>1 DEF FlowInv, InLobby, InStartCountdown, BetweenRounds, Over,
       NoTimers, GameStates
  <2>3. gameState' = gameState \/ gameState' = "ROUND_END"
    BY <1>11 DEF GameTimerFires, GameTick, CountsDown, RevealsNextCue, MissesTheWord,
       TimesOut, stopCurrentRoundOrGame
  <2>4. gameState' = "ROUND_END" => Lifecycle!TimeOut
    BY <2>1, <2>2 DEF Lifecycle!TimeOut, Stage
  <2> QED
    BY <2>1, <2>3, <2>4, Unseen DEF Lifecycle!Next
<1>12. ASSUME NEW i \in DOMAIN orphans PROVE FALSE
  BY <1>12 DEF FlowInv
<1>13. CASE \/ Elapse \/ OnDispose \/ FetchFails
            \/ \E c \in Chains: CreateFails(c)
            \/ \E s \in Sessions: \/ StartGame(s) \/ PauseGame(s) \/ ResumeGame(s)
                                  \/ \E vote \in BOOLEAN: VoteForGameRestart(s, vote)
            \/ UNCHANGED vars
  <2>1. UNCHANGED <<gameState, round, words, sessionScore>>
    BY <1>13 DEF Elapse, OnDispose, FetchFails, CreateFails, StartGame, PauseGame,
       ResumeGame, VoteForGameRestart, vars, roundVars, scores
  <2> QED
    BY <2>1, Unseen
<1> QED
  BY <1>1, <1>3, <1>4, <1>5, <1>6, <1>7, <1>8, <1>9, <1>10, <1>11, <1>12, <1>13
  DEF FlowNext, RoomStep, PlayerStep, Clock, ChainStep, Lifecycle!Next

\* The room implements the session of games its players see: rounds are played
\* in order and one at a time, each is won at most once and paid by its cycle,
\* a game ends only after its last round, and restarts keep the session's points.
THEOREM RoomImplementsLifecycle ==
  0 \notin WordCounts => (FlowSpec => ImplementsLifecycle)
<1> SUFFICES ASSUME 0 \notin WordCounts PROVE FlowSpec => ImplementsLifecycle
  OBVIOUS
<1>1. TypeOK /\ FlowInv /\ FlowInv' /\ [FlowNext]_vars => [Lifecycle!Next]_(Lifecycle!vars)
  BY LifecycleStep
<1>2. FlowSpec => []FlowInv
  BY FlowInvariance
<1> QED
  BY <1>1, <1>2, LifecycleInit, FlowTypeCorrectness, PTL
  DEF FlowSpec, ImplementsLifecycle, Lifecycle!Spec

=============================================================================
