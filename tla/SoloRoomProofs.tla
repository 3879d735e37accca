--------------------------- MODULE SoloRoomProofs ---------------------------
(***************************************************************************)
(* Proofs of the properties of SoloRoomProperties for every value of the   *)
(* constants.  TypeOK, NothingIsPaused /\ CountdownIsBacked and            *)
(* TimersKeepTheGameGoing are inductive one after the other, whatever the  *)
(* client sends.  What holds as long as it guesses in time rests on        *)
(* OrderlyInv: a game is in one of four states, and each says which timers *)
(* run, what has been revealed and what has been saved.                    *)
(***************************************************************************)
EXTENDS SoloRoomProperties, DelayedProofs, SequenceTheorems, TLAPS

-----------------------------------------------------------------------------
(* Sequences of timers and of saves *)

\* What is left of a sequence without one of its elements.
LEMMA RemovedElement ==
  ASSUME NEW S, NEW s \in Seq(S), NEW i \in DOMAIN s
  PROVE  /\ RemoveAt(s, i) \in Seq(S) /\ Len(RemoveAt(s, i)) = Len(s) - 1
         /\ \A j \in 1..Len(s) - 1: RemoveAt(s, i)[j] = IF j < i THEN s[j] ELSE s[j + 1]
<1> DEFINE n == Len(s)
           before == SubSeq(s, 1, i - 1)
           after == SubSeq(s, i + 1, n)
<1>1. i \in 1..n /\ n \in Nat
  BY LenProperties
<1>2. RemoveAt(s, i) = before \o after /\ \A j \in 1..n: s[j] \in S
  BY <1>1, ElementOfSeq DEF RemoveAt
<1> HIDE DEF n
<1>3. /\ before \in Seq(S) /\ Len(before) = i - 1
      /\ \A j \in 1..i - 1: before[j] = s[j]
  <2>1. 1 \in Int /\ i - 1 \in Int /\ \A j \in 1..i - 1: s[j] \in S
    BY <1>1, <1>2
  <2>2. /\ before \in Seq(S) /\ Len(before) = IF 1 <= i - 1 THEN (i - 1) - 1 + 1 ELSE 0
        /\ \A j \in 1..(i - 1) - 1 + 1: before[j] = s[1 + j - 1]
    BY <2>1, SubSeqProperties
  <2> HIDE DEF before
  <2> QED BY <1>1, <2>2
<1>4. /\ after \in Seq(S) /\ Len(after) = n - i
      /\ \A j \in 1..n - i: after[j] = s[i + j]
  <2>1. i + 1 \in Int /\ n \in Int /\ \A j \in i + 1..n: s[j] \in S
    BY <1>1, <1>2
  <2>2. /\ after \in Seq(S)
        /\ Len(after) = IF i + 1 <= n THEN n - (i + 1) + 1 ELSE 0
        /\ \A j \in 1..n - (i + 1) + 1: after[j] = s[i + 1 + j - 1]
    BY <2>1, SubSeqProperties
  <2> HIDE DEF after
  <2> QED BY <1>1, <2>2
<1> HIDE DEF before, after
<1> DEFINE rest == before \o after
<1>5. /\ rest \in Seq(S) /\ Len(rest) = Len(before) + Len(after)
      /\ \A j \in 1..Len(before) + Len(after):
           rest[j] = IF j <= Len(before) THEN before[j] ELSE after[j - Len(before)]
  BY <1>3, <1>4, ConcatProperties
<1> HIDE DEF rest
<1>6. /\ rest \in Seq(S) /\ Len(rest) = n - 1
      /\ \A j \in 1..n - 1: rest[j] = IF j <= i - 1 THEN before[j] ELSE after[j - (i - 1)]
  <2>1. Len(before) = i - 1 /\ Len(before) + Len(after) = n - 1
    BY <1>1, <1>3, <1>4
  <2> QED BY <1>5, <2>1
<1>7. ASSUME NEW j \in 1..n - 1 PROVE rest[j] = IF j < i THEN s[j] ELSE s[j + 1]
  <2>1. CASE j < i
    BY <1>1, <1>3, <1>6, <2>1
  <2>2. CASE j >= i
    <3>1. j - (i - 1) \in 1..n - i /\ i + (j - (i - 1)) = j + 1 /\ ~(j <= i - 1)
      BY <1>1, <2>2
    <3>2. after[j - (i - 1)] = s[j + 1]
      BY <1>4, <3>1
    <3>3. rest[j] = after[j - (i - 1)]
      BY <1>6, <3>1
    <3>4. ~(j < i)
      BY <1>1, <2>2
    <3> QED BY <3>2, <3>3, <3>4
  <2> QED BY <1>1, <2>1, <2>2
<1> QED BY <1>2, <1>6, <1>7 DEF n, rest

\* A sequence with one more element.
LEMMA AppendedElement ==
  ASSUME NEW S, NEW s \in Seq(S), NEW e \in S
  PROVE  /\ Append(s, e) \in Seq(S) /\ Len(Append(s, e)) = Len(s) + 1
         /\ Append(s, e) # <<>> /\ Last(Append(s, e)) = e
         /\ \A i \in 1..Len(s): Append(s, e)[i] = s[i]
         /\ \A i \in DOMAIN Append(s, e): i \in DOMAIN s \/ Append(s, e)[i] = e
  BY DEF Last

-----------------------------------------------------------------------------
(* Type correctness *)

LEMMA InitTypeOK == Init => TypeOK
<1> SUFFICES ASSUME Init PROVE TypeOK
  OBVIOUS
<1> USE DEF Init
<1>1. /\ waitingCountdownInterval \in Timer({"count", "finish"})
      /\ gameTimeInterval \in Timer(CycleJobs) /\ ~gameTimeInterval.on
  BY NewTimers, OffIsTimer DEF Interval, Timer
<1>2. transitions \in Seq(Timer({"startRound"}))
  <2>1. Timeout(StartCountdown + 1, "startRound") \in Timer({"startRound"})
    BY TimesAssumption DEF Timeout, Timer
  <2> QED BY <2>1
<1>3. orphans \in Seq(CycleTimer) /\ saving \in Seq(Nat)
  BY EmptySeq
<1>4. time \in Int /\ waitingCountdownTime \in Int /\ words \in Nat
  BY TimesAssumption, LimitsAssumption
<1>5. cycle \in 1..4 /\ round \in Nat
  OBVIOUS
<1>9. word \in BOOLEAN
  BY Zenon
<1>6. shown \subseteq 2..4
  OBVIOUS
<1>7. /\ score \in Nat /\ totalScore \in Nat /\ saved \in Nat /\ guesses \in Nat
      /\ late \in BOOLEAN /\ userId \in BOOLEAN /\ winner \in Sessions \cup {NoSession}
  OBVIOUS
<1>8. /\ phase \in {"open", "disposed", "crashed"}
      /\ gameState \in {"START_COUNTDOWN", "GAME_STARTED", "ROUND_END", "GAME_END"}
      /\ clients \subseteq joined /\ joined \subseteq Sessions
  OBVIOUS
<1> QED BY <1>1, <1>2, <1>3, <1>4, <1>5, <1>6, <1>7, <1>8, <1>9, Zenon DEF TypeOK

\* The part of TypeOK that is about timers, and the rest.
TimersTypeOK ==
  /\ waitingCountdownInterval \in Timer({"count", "finish"})
  /\ gameTimeInterval \in Timer(CycleJobs)
  /\ gameTimeInterval.on => gameTimeInterval.job \in CycleJobs
  /\ transitions \in Seq(Timer({"startRound"}))
  /\ orphans \in Seq(CycleTimer)

GameTypeOK ==
  /\ gameState \in {"START_COUNTDOWN", "GAME_STARTED", "ROUND_END", "GAME_END"}
  /\ round \in Nat /\ cycle \in 1..4
  /\ time \in Int /\ waitingCountdownTime \in Int
  /\ words \in Nat /\ word \in BOOLEAN /\ shown \subseteq 2..4
  /\ winner \in Sessions \cup {NoSession}
  /\ score \in Nat /\ totalScore \in Nat

RestTypeOK ==
  /\ phase \in {"open", "disposed", "crashed"}
  /\ clients \subseteq joined /\ joined \subseteq Sessions
  /\ saving \in Seq(Nat) /\ saved \in Nat
  /\ userId \in BOOLEAN /\ guesses \in Nat /\ late \in BOOLEAN

LEMMA TypeOKParts == TypeOK <=> TimersTypeOK /\ GameTypeOK /\ RestTypeOK
  BY Zenon DEF TypeOK, TimersTypeOK, GameTypeOK, RestTypeOK

\* A callback of a game timer is one of the four.
LEMMA OrphanIsCycleTimer ==
  ASSUME TimersTypeOK, NEW i \in DOMAIN orphans
  PROVE  /\ orphans[i] \in CycleTimer /\ orphans[i].job \in CycleJobs
         /\ Rewind(orphans[i]) \in CycleTimer
<1>1. orphans[i] \in CycleTimer
  <2>1. orphans \in Seq(CycleTimer)
    BY DEF TimersTypeOK
  <2> QED BY <2>1
<1> QED BY <1>1 DEF CycleTimer, Rewind

\* The two timers a round that ends sets.
LEMMA RoundEndTimers ==
  ASSUME TimersTypeOK, stopCurrentRoundOrGame
  PROVE  /\ waitingCountdownInterval' \in Timer({"count", "finish"})
         /\ waitingCountdownInterval'.on /\ ~waitingCountdownInterval'.paused
         /\ waitingCountdownInterval'.left = 1
         /\ gameTimeInterval' = Off
         /\ transitions' \in Seq(Timer({"startRound"}))
         /\ \/ /\ words > round /\ waitingCountdownInterval'.job = "count"
               /\ transitions' = Append(transitions, Timeout(MidGameCountdown + 1, "startRound"))
            \/ /\ ~(words > round) /\ waitingCountdownInterval'.job = "finish"
               /\ transitions' = transitions
<1>1. \/ /\ words > round /\ waitingCountdownInterval' = Interval("count")
         /\ transitions' = Append(transitions, Timeout(MidGameCountdown + 1, "startRound"))
      \/ /\ ~(words > round) /\ waitingCountdownInterval' = Interval("finish")
         /\ transitions' = transitions
  BY DEF stopCurrentRoundOrGame, createCountdown, WordsLeft
<1>2. \A job \in {"count", "finish"}:
        /\ Interval(job) \in Timer({"count", "finish"}) /\ Interval(job).on
        /\ ~Interval(job).paused /\ Interval(job).left = 1 /\ Interval(job).job = job
  BY DEF Interval, Timer
<1>3. Timeout(MidGameCountdown + 1, "startRound") \in Timer({"startRound"})
  BY TimesAssumption DEF Timeout, Timer
<1>4. transitions' \in Seq(Timer({"startRound"}))
  BY <1>1, <1>3, AppendedElement DEF TimersTypeOK
<1>5. gameTimeInterval' = Off
  BY DEF stopCurrentRoundOrGame
<1> QED BY <1>1, <1>2, <1>4, <1>5

LEMMA TimersStep == TypeOK /\ [Next]_vars => TimersTypeOK'
<1> SUFFICES ASSUME TypeOK, [Next]_vars PROVE TimersTypeOK'
  OBVIOUS
<1>0. TimersTypeOK
  BY TypeOKParts
<1>1. ASSUME UNCHANGED timers PROVE TimersTypeOK'
  BY <1>0, <1>1 DEF TimersTypeOK, timers
<1>2. CASE OnDispose
  BY <1>2, OffIsTimer, EmptySeq DEF OnDispose, TimersTypeOK
<1>3. ASSUME NEW s \in Sessions, OnJoin(s) \/ Leave(s) PROVE TimersTypeOK'
  BY <1>1, <1>2, <1>3 DEF OnJoin, Leave
<1>4. CASE stopCurrentRoundOrGame /\ UNCHANGED orphans
  BY <1>0, <1>4, RoundEndTimers, OffIsTimer DEF TimersTypeOK
<1>5. ASSUME NEW s \in Sessions, Guess(s) PROVE TimersTypeOK'
  BY <1>4, <1>5 DEF Guess
<1>6. CASE Elapse
  <2>1. ASSUME NEW i \in DOMAIN orphans PROVE Age(orphans[i]) \in CycleTimer
    <3>1. orphans[i] \in CycleTimer /\ ~Due(orphans[i])
      BY <1>0, <1>6, OrphanIsCycleTimer DEF Elapse
    <3> QED BY <3>1 DEF CycleTimer, Age, Due, Running
  <2>2. ASSUME NEW i \in DOMAIN transitions PROVE Age(transitions[i]) \in Timer({"startRound"})
    <3>1. transitions \in Seq(Timer({"startRound"})) /\ ~Due(transitions[i])
      BY <1>0, <1>6 DEF Elapse, TimersTypeOK
    <3>2. transitions[i] \in Timer({"startRound"})
      BY <3>1
    <3> QED BY <3>1, <3>2, AgedTimer
  <2>3. orphans \in Seq(CycleTimer) /\ transitions \in Seq(Timer({"startRound"}))
    BY <1>0 DEF TimersTypeOK
  <2>4. [i \in DOMAIN orphans |-> Age(orphans[i])] \in Seq(CycleTimer)
    BY <2>1, <2>3
  <2>5. [i \in DOMAIN transitions |-> Age(transitions[i])] \in Seq(Timer({"startRound"}))
    BY <2>2, <2>3
  <2> QED BY <1>0, <1>6, <2>4, <2>5, AgedTimer DEF Elapse, TimersTypeOK
<1>7. ASSUME NEW i \in DOMAIN transitions, TransitionFires(i) PROVE TimersTypeOK'
  <2>1. gameTimeInterval.on => gameTimeInterval \in CycleTimer
    BY <1>0 DEF TimersTypeOK, Timer, CycleTimer
  <2>2. orphans' \in Seq(CycleTimer)
    <3>1. CASE gameTimeInterval.on
      BY <1>0, <1>7, <2>1, <3>1, AppendedElement DEF TransitionFires, firstCycle, TimersTypeOK
    <3>2. CASE ~gameTimeInterval.on
      BY <1>0, <1>7, <3>2 DEF TransitionFires, firstCycle, TimersTypeOK
    <3> QED BY <3>1, <3>2
  <2>3. /\ Interval("firstCycle") \in Timer(CycleJobs)
        /\ Interval("firstCycle").job \in CycleJobs
    BY DEF Interval, Timer, CycleJobs
  <2>4. transitions' \in Seq(Timer({"startRound"}))
    BY <1>0, <1>7, RemovedElement DEF TransitionFires, TimersTypeOK
  <2> QED BY <1>7, <2>2, <2>3, <2>4, OffIsTimer DEF TransitionFires, firstCycle, TimersTypeOK
<1>8. CASE WaitingFires
  BY <1>0, <1>8, OffIsTimer, RewoundTimer
     DEF WaitingFires, GameIsOver, CountdownGoesOn, TimersTypeOK
<1>9. ASSUME NEW job \in CycleJobs, NEW rewound \in Timer(CycleJobs),
             rewound.on => rewound.job \in CycleJobs, GameTick(job, rewound),
             orphans' \in Seq(CycleTimer)
      PROVE  TimersTypeOK'
  <2>1. CASE CountsDown(rewound)
    BY <1>0, <1>9, <2>1 DEF CountsDown, TimersTypeOK
  <2>2. CASE RevealsNextCue(job)
    <3>1. NextJob[job] \in CycleJobs
      BY <1>9, <2>2 DEF RevealsNextCue, CycleJobs, NextJob
    <3>2. /\ Interval(NextJob[job]) \in Timer(CycleJobs)
          /\ Interval(NextJob[job]).job = NextJob[job]
      BY <3>1 DEF Interval, Timer
    <3> QED BY <1>0, <1>9, <2>2, <3>1, <3>2 DEF RevealsNextCue, TimersTypeOK
  <2>3. CASE MissesTheWord(job)
    BY <1>0, <1>9, <2>3 DEF MissesTheWord, TimersTypeOK
  <2>4. CASE TimesOut(job)
    BY <1>0, <1>9, <2>4, RoundEndTimers, OffIsTimer DEF TimesOut, TimersTypeOK
  <2> QED BY <1>9, <2>1, <2>2, <2>3, <2>4 DEF GameTick
<1>10. CASE GameTimerFires
  <2>1. gameTimeInterval \in Timer(CycleJobs) /\ gameTimeInterval.job \in CycleJobs
        /\ orphans' \in Seq(CycleTimer)
    BY <1>0, <1>10 DEF GameTimerFires, Due, Running, TimersTypeOK
  <2>2. /\ Rewind(gameTimeInterval) \in Timer(CycleJobs)
        /\ Rewind(gameTimeInterval).job \in CycleJobs
    BY <2>1, RewoundTimer
  <2> QED BY <1>9, <1>10, <2>1, <2>2 DEF GameTimerFires
<1>11. ASSUME NEW i \in DOMAIN orphans, OrphanFires(i) PROVE TimersTypeOK'
  <2>1. orphans \in Seq(CycleTimer) /\ gameTimeInterval \in Timer(CycleJobs)
        /\ (gameTimeInterval.on => gameTimeInterval.job \in CycleJobs)
    BY <1>0 DEF TimersTypeOK
  <2>2. orphans[i].job \in CycleJobs /\ Rewind(orphans[i]) \in CycleTimer
    BY <1>0, OrphanIsCycleTimer
  <2>3. orphans' \in Seq(CycleTimer)
    BY <1>11, <2>1, <2>2 DEF OrphanFires
  <2> QED BY <1>9, <1>11, <2>1, <2>2, <2>3 DEF OrphanFires
<1>12. CASE Database \/ NobodyJoins \/ UNCHANGED vars
  BY <1>1, <1>2, <1>12 DEF Database, SaveCompletes, SaveFails, NobodyJoins, vars
<1> QED BY <1>3, <1>5, <1>6, <1>7, <1>8, <1>10, <1>11, <1>12
        DEF Next, RoomStep, ClientStep, Clock

\* The variables the clients see keep their types.
LEMMA GameStep == TypeOK /\ [Next]_vars => GameTypeOK'
<1> SUFFICES ASSUME TypeOK, [Next]_vars PROVE GameTypeOK'
  OBVIOUS
<1>0. GameTypeOK /\ TimersTypeOK /\ cycle \in 1..4
  BY TypeOKParts DEF GameTypeOK
<1>1. ASSUME UNCHANGED <<gameState, waitingCountdownTime, roundVars, scores>>
      PROVE  GameTypeOK'
  BY <1>0, <1>1 DEF GameTypeOK, roundVars, scores
<1>2. ASSUME NEW s \in Sessions, OnJoin(s) \/ Leave(s) PROVE GameTypeOK'
  BY <1>1, <1>2 DEF OnJoin, Leave
<1>3. CASE NobodyJoins \/ Elapse \/ Database \/ UNCHANGED vars
  BY <1>1, <1>3 DEF NobodyJoins, Elapse, Database, SaveCompletes, SaveFails, vars
<1>4. ASSUME NEW s \in Sessions, Guess(s) PROVE GameTypeOK'
  <2>1. CycleScore(cycle) \in Nat
    BY <1>0 DEF CycleScore
  <2>2. /\ gameState' = "ROUND_END" /\ waitingCountdownTime' = MidGameCountdown
        /\ score' = CycleScore(cycle) /\ totalScore' = totalScore + CycleScore(cycle)
        /\ winner' = s /\ UNCHANGED <<round, cycle, time, word, shown, words>>
    BY <1>4 DEF Guess, stopCurrentRoundOrGame, roundVars
  <2> HIDE DEF CycleScore
  <2> QED BY <1>0, <2>1, <2>2, TimesAssumption DEF GameTypeOK
<1>5. ASSUME NEW i \in DOMAIN transitions, TransitionFires(i) PROVE GameTypeOK'
  BY <1>0, <1>5, TimesAssumption DEF TransitionFires, firstCycle, GameTypeOK
<1>6. CASE WaitingFires
  <2>1. waitingCountdownTime' \in Int /\ UNCHANGED <<round, cycle, words, scores>>
    BY <1>0, <1>6 DEF WaitingFires, GameTypeOK
  <2>2. CASE GameIsOver
    <3>1. gameState' = "GAME_END" /\ time' = 0 /\ shown' = {}
      BY <2>2 DEF GameIsOver
    <3>2. word' \in BOOLEAN
      BY <2>2, Zenon DEF GameIsOver
    <3>3. time' \in Int /\ shown' \subseteq 2..4
      BY <3>1
    <3> QED BY <1>0, <2>1, <3>1, <3>2, <3>3 DEF GameTypeOK, scores
  <2>3. CASE CountdownGoesOn
    BY <1>0, <2>1, <2>3 DEF CountdownGoesOn, GameTypeOK, scores
  <2> QED BY <1>6, <2>2, <2>3 DEF WaitingFires
<1>7. ASSUME NEW job \in CycleJobs, NEW rewound, GameTick(job, rewound) PROVE GameTypeOK'
  <2>1. UNCHANGED <<round, words, scores>>
    BY <1>7 DEF GameTick
  <2>2. job # "fourthCycle" => CycleOf[job] + 1 \in 2..4
    BY <1>7 DEF CycleJobs, CycleOf
  <2>3. job # "fourthCycle" => CycleTime[CycleOf[job] + 1] \in Int
    BY <2>2, TimesAssumption
  <2>4. CASE CountsDown(rewound)
    BY <1>0, <2>1, <2>4 DEF CountsDown, GameTypeOK, scores
  <2>5. CASE RevealsNextCue(job)
    <3>1. /\ time' \in Int /\ cycle' \in 1..4 /\ shown' \subseteq 2..4
      <4>1. /\ time' = CycleTime[CycleOf[job] + 1] /\ cycle' = CycleOf[job] + 1
            /\ shown' = shown \cup {CycleOf[job] + 1} /\ job # "fourthCycle"
        BY <2>5 DEF RevealsNextCue, RevealedCue
      <4>2. CycleOf[job] + 1 \in 2..4 /\ shown \subseteq 2..4
        BY <1>0, <2>2, <4>1 DEF GameTypeOK
      <4>3. time' \in Int
        BY <2>3, <4>1
      <4>4. cycle' \in 1..4
        BY <4>1, <4>2
      <4>5. shown' \subseteq 2..4
        BY <4>1, <4>2
      <4> QED BY <4>3, <4>4, <4>5
    <3>2. UNCHANGED <<gameState, word, waitingCountdownTime>>
      BY <2>5 DEF RevealsNextCue
    <3> QED BY <1>0, <2>1, <3>1, <3>2 DEF GameTypeOK, scores
  <2>6. CASE MissesTheWord(job)
    BY <1>0, <2>1, <2>3, <2>6 DEF MissesTheWord, GameTypeOK, scores
  <2>7. CASE TimesOut(job)
    <3>1. /\ gameState' = "ROUND_END" /\ waitingCountdownTime' = MidGameCountdown
          /\ time' = time - 1 /\ UNCHANGED <<cycle, word, shown>>
      BY <2>7 DEF TimesOut, stopCurrentRoundOrGame
    <3> QED BY <1>0, <2>1, <3>1, TimesAssumption DEF GameTypeOK, scores
  <2> QED BY <1>7, <2>4, <2>5, <2>6, <2>7 DEF GameTick
<1>8. CASE GameTimerFires
  <2>1. gameTimeInterval.job \in CycleJobs
    BY <1>0, <1>8 DEF GameTimerFires, Due, Running, TimersTypeOK
  <2> QED BY <1>7, <1>8, <2>1 DEF GameTimerFires
<1>9. ASSUME NEW i \in DOMAIN orphans, OrphanFires(i) PROVE GameTypeOK'
  BY <1>0, <1>7, <1>9, OrphanIsCycleTimer DEF OrphanFires
<1> QED BY <1>2, <1>3, <1>4, <1>5, <1>6, <1>8, <1>9 DEF Next, RoomStep, ClientStep, Clock

\* The roster, the saves and the client's history keep their types.
LEMMA RestStep == TypeOK /\ [Next]_vars => RestTypeOK'
<1> SUFFICES ASSUME TypeOK, [Next]_vars PROVE RestTypeOK'
  OBVIOUS
<1>0. RestTypeOK /\ totalScore \in Nat
  BY TypeOKParts DEF GameTypeOK
<1>1. ASSUME phase' \in {"open", "disposed", "crashed"},
             UNCHANGED <<clients, joined, database, client>>
      PROVE  RestTypeOK'
  BY <1>0, <1>1 DEF RestTypeOK, database, client
<1>2. ASSUME NEW s \in Sessions, OnJoin(s) \/ Leave(s) PROVE RestTypeOK'
  BY <1>0, <1>2 DEF OnJoin, Leave, OnDispose, RestTypeOK, database, client
<1>3. CASE NobodyJoins \/ Elapse \/ \E i \in DOMAIN transitions: TransitionFires(i)
  BY <1>0, <1>1, <1>3 DEF NobodyJoins, OnDispose, Elapse, TransitionFires, roster, RestTypeOK
<1>4. ASSUME NEW s \in Sessions, Guess(s) PROVE RestTypeOK'
  BY <1>0, <1>4 DEF Guess, roster, database, RestTypeOK
<1>5. CASE WaitingFires
  <2>1. saving' = saving \/ saving' = Append(saving, totalScore)
    BY <1>5 DEF WaitingFires, GameIsOver, CountdownGoesOn, setUserScoreOnDatabase
  <2>2. saving' \in Seq(Nat)
    BY <1>0, <2>1, AppendedElement DEF RestTypeOK
  <2> QED BY <1>0, <1>5, <2>2 DEF WaitingFires, roster, client, RestTypeOK
<1>6. ASSUME NEW job, NEW rewound, GameTick(job, rewound) PROVE RestTypeOK'
  <2>1. phase' \in {"open", "disposed", "crashed"}
    BY <1>0, <1>6 DEF GameTick, CountsDown, RevealsNextCue, MissesTheWord, TimesOut, RestTypeOK
  <2> QED BY <1>1, <1>6, <2>1 DEF GameTick
<1>7. CASE GameTimerFires \/ \E i \in DOMAIN orphans: OrphanFires(i)
  BY <1>6, <1>7 DEF GameTimerFires, OrphanFires
<1>8. CASE Database
  <2>1. PICK i \in DOMAIN saving: SaveCompletes(i) \/ SaveFails(i)
    BY <1>8 DEF Database
  <2>2. saving \in Seq(Nat) /\ saving[i] \in Nat
    BY <1>0 DEF RestTypeOK
  <2>3. saving' \in Seq(Nat)
    BY <2>1, <2>2, RemovedElement DEF SaveCompletes, SaveFails
  <2> QED BY <1>0, <2>1, <2>2, <2>3 DEF SaveCompletes, SaveFails, roster, client, RestTypeOK
<1>9. CASE UNCHANGED vars
  BY <1>0, <1>1, <1>9 DEF vars, roster, RestTypeOK
<1> QED BY <1>2, <1>3, <1>4, <1>5, <1>7, <1>8, <1>9 DEF Next, RoomStep, ClientStep, Clock

\* The room keeps its types whatever its client does: timeouts and orphans pile up
\* but stay timers, and no timer is ever less than nothing away.
THEOREM SoloTypeCorrectness == Spec => []TypeOK
<1>1. TypeOK /\ [Next]_vars => TypeOK'
  <2>1. TypeOK' <=> TimersTypeOK' /\ GameTypeOK' /\ RestTypeOK'
    BY Zenon DEF TypeOK, TimersTypeOK, GameTypeOK, RestTypeOK
  <2> QED BY <2>1, TimersStep, GameStep, RestStep
<1> QED BY <1>1, InitTypeOK, PTL DEF Spec

-----------------------------------------------------------------------------
(* Timers, whatever the client sends *)

\* Nothing in a solo room pauses a timer, and a timeout is dropped only by firing.
NothingIsPaused ==
  /\ ~waitingCountdownInterval.paused
  /\ \A i \in DOMAIN transitions: transitions[i].on /\ ~transitions[i].paused

LEMMA RoundEndIsBacked ==
  ASSUME TypeOK, NothingIsPaused, stopCurrentRoundOrGame
  PROVE  NothingIsPaused' /\ CountdownIsBacked' /\ waitingCountdownInterval'.on
<1> DEFINE timeout == Timeout(MidGameCountdown + 1, "startRound")
<1>1. /\ timeout \in Timer({"startRound"}) /\ timeout.on /\ ~timeout.paused
      /\ timeout.left = MidGameCountdown + 1 /\ MidGameCountdown \in Nat
  BY TimesAssumption DEF Timeout, Timer
<1>2. /\ waitingCountdownInterval'.on /\ ~waitingCountdownInterval'.paused
      /\ waitingCountdownInterval'.left = 1
      /\ \/ transitions' = Append(transitions, timeout)
         \/ waitingCountdownInterval'.job = "finish" /\ transitions' = transitions
  BY RoundEndTimers, TypeOKParts
<1> HIDE DEF timeout
<1>3. transitions \in Seq(Timer({"startRound"}))
  BY TypeOKParts DEF TimersTypeOK
<1>4. CASE transitions' = Append(transitions, timeout)
  <2>1. /\ transitions' # <<>> /\ Last(transitions') = timeout
        /\ \A i \in 1..Len(transitions): transitions'[i] = transitions[i]
        /\ \A i \in DOMAIN transitions': i \in DOMAIN transitions \/ transitions'[i] = timeout
    BY <1>1, <1>3, <1>4, AppendedElement
  <2>2. DOMAIN transitions = 1..Len(transitions)
    BY <1>3, LenProperties
  <2>3. NothingIsPaused'
    BY <1>1, <1>2, <2>1, <2>2 DEF NothingIsPaused
  <2>4. CountdownIsBacked'
    BY <1>1, <1>2, <2>1 DEF CountdownIsBacked
  <2> QED BY <1>2, <2>3, <2>4
<1>5. CASE waitingCountdownInterval'.job = "finish" /\ transitions' = transitions
  BY <1>2, <1>5 DEF NothingIsPaused, CountdownIsBacked
<1> QED BY <1>2, <1>4, <1>5

\* What a game timer's callback does to the other timers.
LEMMA GameTickTimers ==
  ASSUME NEW job, NEW rewound, GameTick(job, rewound)
  PROVE  /\ phase = "open" /\ (phase' = "open" \/ phase' = "crashed")
         /\ \/ /\ UNCHANGED <<waitingCountdownInterval, transitions, gameState>>
               /\ \/ gameTimeInterval' = rewound
                  \/ gameTimeInterval' = Interval(NextJob[job])
                  \/ gameTimeInterval' = gameTimeInterval
            \/ stopCurrentRoundOrGame /\ gameState' = "ROUND_END"
  BY DEF GameTick, CountsDown, RevealsNextCue, MissesTheWord, TimesOut, ClockRuns,
         stopCurrentRoundOrGame

LEMMA CountdownStep ==
  ASSUME TypeOK, NothingIsPaused, CountdownIsBacked, [Next]_vars
  PROVE  NothingIsPaused' /\ CountdownIsBacked'
<1> DEFINE Goal == NothingIsPaused /\ CountdownIsBacked
<1>0. /\ waitingCountdownInterval \in Timer({"count", "finish"})
      /\ transitions \in Seq(Timer({"startRound"}))
      /\ DOMAIN transitions = 1..Len(transitions) /\ Len(transitions) \in Nat
  BY TypeOKParts, LenProperties DEF TimersTypeOK
<1>1. ASSUME UNCHANGED <<waitingCountdownInterval, transitions>> PROVE Goal'
  BY <1>1 DEF NothingIsPaused, CountdownIsBacked
<1>2. CASE OnDispose
  BY <1>2 DEF OnDispose, NothingIsPaused, CountdownIsBacked, Off
<1>3. ASSUME NEW s \in Sessions, OnJoin(s) \/ Leave(s) PROVE Goal'
  BY <1>1, <1>2, <1>3 DEF OnJoin, Leave, timers
<1>4. CASE NobodyJoins \/ Database \/ UNCHANGED vars
  BY <1>1, <1>2, <1>4 DEF NobodyJoins, Database, SaveCompletes, SaveFails, vars, timers
<1>5. ASSUME NEW s \in Sessions, Guess(s) PROVE Goal'
  BY <1>5, RoundEndIsBacked DEF Guess
<1>6. CASE Elapse
  <2>1. /\ waitingCountdownInterval' = Age(waitingCountdownInterval)
        /\ transitions' = [i \in DOMAIN transitions |-> Age(transitions[i])]
        /\ ~Due(waitingCountdownInterval) /\ \A i \in DOMAIN transitions: ~Due(transitions[i])
    BY <1>6 DEF Elapse
  <2>2. ASSUME NEW i \in DOMAIN transitions
        PROVE  /\ transitions[i].left \in Nat /\ transitions[i].left # 0
               /\ Age(transitions[i]) = [transitions[i] EXCEPT !.left = transitions[i].left - 1]
               /\ Age(transitions[i]).on /\ ~Age(transitions[i]).paused
               /\ Age(transitions[i]).left = transitions[i].left - 1
    <3>1. transitions[i] \in Timer({"startRound"})
      BY <1>0
    <3>2. transitions[i].on /\ ~transitions[i].paused /\ ~Due(transitions[i])
      BY <2>1 DEF NothingIsPaused
    <3> QED BY <3>1, <3>2 DEF Age, Running, Due, Timer
  <2>3. DOMAIN transitions' = DOMAIN transitions
        /\ \A i \in DOMAIN transitions: transitions'[i] = Age(transitions[i])
    BY <2>1
  <2>4. waitingCountdownInterval.on => waitingCountdownInterval.left \in Nat
                                      /\ waitingCountdownInterval.left # 0
    BY <1>0, <2>1 DEF NothingIsPaused, Due, Running, Timer
  <2>5. /\ waitingCountdownInterval'.on = waitingCountdownInterval.on
        /\ waitingCountdownInterval'.job = waitingCountdownInterval.job
        /\ ~waitingCountdownInterval'.paused
        /\ waitingCountdownInterval.on =>
             waitingCountdownInterval'.left = waitingCountdownInterval.left - 1
    BY <1>0, <2>1, <2>4 DEF NothingIsPaused, Age, Running, Timer
  <2>6. NothingIsPaused'
    BY <2>2, <2>3, <2>5 DEF NothingIsPaused
  <2>7. ASSUME waitingCountdownInterval.on, waitingCountdownInterval.job = "count"
        PROVE  /\ transitions' # <<>>
               /\ Last(transitions').left >= waitingCountdownInterval'.left
    <3>1. transitions # <<>> /\ Last(transitions).left >= waitingCountdownInterval.left
      BY <2>7 DEF CountdownIsBacked
    <3>2. Len(transitions) \in DOMAIN transitions
      <4>1. Len(transitions) # 0
        BY <1>0, <3>1, EmptySeq
      <4> QED BY <1>0, <4>1
    <3>3. transitions' # <<>>
      BY <2>3, <3>2
    <3>4. Len(transitions') = Len(transitions)
      <4>1. transitions' \in Seq(Timer({"startRound"}))
        BY TimersStep DEF TimersTypeOK
      <4> QED BY <1>0, <2>3, <4>1, LenProperties
    <3>5. Last(transitions').left = Last(transitions).left - 1
      BY <2>2, <2>3, <3>2, <3>4 DEF Last
    <3>6. Last(transitions).left \in Nat
      BY <2>2, <3>2 DEF Last
    <3> QED BY <2>4, <2>5, <2>7, <3>1, <3>3, <3>5, <3>6
  <2> QED BY <2>5, <2>6, <2>7 DEF CountdownIsBacked
<1>7. ASSUME NEW i \in DOMAIN transitions, TransitionFires(i) PROVE Goal'
  <2>1. transitions' = RemoveAt(transitions, i) /\ waitingCountdownInterval' = Off
    BY <1>7 DEF TransitionFires
  <2>2. /\ transitions' \in Seq(Timer({"startRound"})) /\ Len(transitions') = Len(transitions) - 1
        /\ \A j \in 1..Len(transitions) - 1:
             transitions'[j] = IF j < i THEN transitions[j] ELSE transitions[j + 1]
    BY <1>0, <2>1, RemovedElement
  <2>3. DOMAIN transitions' = 1..Len(transitions) - 1
    BY <2>2, LenProperties
  <2>4. \A j \in DOMAIN transitions': transitions'[j].on /\ ~transitions'[j].paused
    BY <1>0, <2>2, <2>3 DEF NothingIsPaused
  <2> QED BY <2>1, <2>4 DEF NothingIsPaused, CountdownIsBacked, Off
<1>8. CASE WaitingFires
  <2>1. /\ transitions' = transitions
        /\ waitingCountdownInterval.on
        /\ waitingCountdownInterval.job = "count" /\ transitions # <<>> => ~Due(Last(transitions))
        /\ waitingCountdownInterval' = Off \/ waitingCountdownInterval' = Rewind(waitingCountdownInterval)
    BY <1>8 DEF WaitingFires, GameIsOver, CountdownGoesOn, Due, Running
  <2>2. CASE waitingCountdownInterval' = Off
    BY <2>1, <2>2 DEF NothingIsPaused, CountdownIsBacked, Off
  <2>3. CASE waitingCountdownInterval' = Rewind(waitingCountdownInterval)
    <3>1. /\ ~waitingCountdownInterval'.paused /\ waitingCountdownInterval'.left = 1
          /\ waitingCountdownInterval'.job = waitingCountdownInterval.job
      BY <1>0, <2>3 DEF NothingIsPaused, Rewind, Timer
    <3>2. ASSUME waitingCountdownInterval.job = "count"
          PROVE  transitions # <<>> /\ Last(transitions).left >= 1
      <4>1. transitions # <<>>
        BY <2>1, <3>2 DEF CountdownIsBacked
      <4>2. Len(transitions) \in DOMAIN transitions
        <5>1. Len(transitions) # 0
          BY <1>0, <4>1, EmptySeq
        <5> QED BY <1>0, <5>1
      <4>3. Last(transitions) \in Timer({"startRound"})
            /\ Last(transitions).on /\ ~Last(transitions).paused
        BY <1>0, <4>2 DEF Last, NothingIsPaused
      <4> QED BY <2>1, <3>2, <4>1, <4>3 DEF Due, Running, Timer
    <3> QED BY <2>1, <3>1, <3>2 DEF NothingIsPaused, CountdownIsBacked
  <2> QED BY <2>1, <2>2, <2>3
<1>9. ASSUME NEW job, NEW rewound, GameTick(job, rewound) PROVE Goal'
  BY <1>1, <1>9, GameTickTimers, RoundEndIsBacked
<1>10. CASE GameTimerFires \/ \E i \in DOMAIN orphans: OrphanFires(i)
  BY <1>9, <1>10 DEF GameTimerFires, OrphanFires
<1> QED BY <1>3, <1>4, <1>5, <1>6, <1>7, <1>8, <1>10 DEF Next, RoomStep, ClientStep, Clock

LEMMA InitCountdown == Init => NothingIsPaused /\ CountdownIsBacked
<1> SUFFICES ASSUME Init PROVE NothingIsPaused /\ CountdownIsBacked
  OBVIOUS
<1> DEFINE timeout == Timeout(StartCountdown + 1, "startRound")
<1>1. timeout.on /\ ~timeout.paused /\ timeout.left = StartCountdown + 1
  BY DEF Timeout
<1>2. /\ waitingCountdownInterval.on /\ ~waitingCountdownInterval.paused
      /\ waitingCountdownInterval.left = 1
  BY DEF Init, Interval
<1> HIDE DEF timeout
<1>3. transitions = <<timeout>>
  BY DEF Init, timeout
<1>4. Last(transitions) = timeout /\ transitions # <<>> /\ \A i \in DOMAIN transitions: transitions[i] = timeout
  BY <1>3 DEF Last
<1> QED BY <1>1, <1>2, <1>4, TimesAssumption DEF NothingIsPaused, CountdownIsBacked

\* Whatever the client sends, a count-down it sees is ended by the newest timeout,
\* which is not due before the count-down's next second.
THEOREM SoloCountdownIsBackedAlways == Spec => []CountdownIsBacked
<1> QED BY InitCountdown, CountdownStep, SoloTypeCorrectness, PTL DEF Spec

LEMMA GoingStep ==
  ASSUME TypeOK, NothingIsPaused, TimersKeepTheGameGoing, [Next]_vars
  PROVE  TimersKeepTheGameGoing'
<1>0. /\ waitingCountdownInterval \in Timer({"count", "finish"})
      /\ gameTimeInterval \in Timer(CycleJobs)
  BY TypeOKParts DEF TimersTypeOK
<1> USE DEF TimersKeepTheGameGoing
<1>1. ASSUME UNCHANGED <<waitingCountdownInterval, gameTimeInterval, gameState>>,
             phase' = "open" => phase = "open"
      PROVE  TimersKeepTheGameGoing'
  BY <1>1
<1>2. ASSUME NEW s \in Sessions, OnJoin(s) \/ Leave(s) PROVE TimersKeepTheGameGoing'
  BY <1>1, <1>2 DEF OnJoin, Leave, OnDispose, timers
<1>3. CASE NobodyJoins \/ Database \/ UNCHANGED vars
  BY <1>1, <1>3 DEF NobodyJoins, OnDispose, Database, SaveCompletes, SaveFails, vars, timers, roster
<1>4. ASSUME NEW s \in Sessions, Guess(s) PROVE TimersKeepTheGameGoing'
  BY <1>4, RoundEndIsBacked DEF Guess, stopCurrentRoundOrGame
<1>5. CASE Elapse
  BY <1>0, <1>5, AgedTimer DEF Elapse, roster
<1>6. ASSUME NEW i \in DOMAIN transitions, TransitionFires(i) PROVE TimersKeepTheGameGoing'
  BY <1>6 DEF TransitionFires, firstCycle, Interval
<1>7. CASE WaitingFires
  <2>1. phase' = phase /\ gameTimeInterval' = gameTimeInterval /\ waitingCountdownInterval.on
    BY <1>7 DEF WaitingFires, roster, Due, Running
  <2>2. CASE GameIsOver
    BY <2>1, <2>2 DEF GameIsOver
  <2>3. CASE CountdownGoesOn
    BY <1>0, <2>1, <2>3, RewoundTimer DEF CountdownGoesOn
  <2> QED BY <1>7, <2>2, <2>3 DEF WaitingFires
<1>8. ASSUME NEW job, NEW rewound, GameTick(job, rewound), gameTimeInterval.on => rewound.on
      PROVE  TimersKeepTheGameGoing'
  <2>1. Interval(NextJob[job]).on
    BY DEF Interval
  <2> QED BY <1>8, <2>1, GameTickTimers, RoundEndIsBacked
<1>9. CASE GameTimerFires
  <2>1. Rewind(gameTimeInterval).on
    BY <1>0, <1>9, RewoundTimer DEF GameTimerFires, Due, Running
  <2> QED BY <1>8, <1>9, <2>1 DEF GameTimerFires
<1>10. CASE \E i \in DOMAIN orphans: OrphanFires(i)
  BY <1>8, <1>10 DEF OrphanFires
<1> QED BY <1>2, <1>3, <1>4, <1>5, <1>6, <1>7, <1>9, <1>10 DEF Next, RoomStep, ClientStep, Clock

\* No open room is a dead end: guesses outside a round, orphans and timeouts that
\* pile up never leave a round without a game timer or the time between rounds
\* without a waiting interval.
THEOREM SoloTimersKeepTheGameGoingAlways == Spec => []TimersKeepTheGameGoing
<1>1. Init => TimersKeepTheGameGoing
  BY DEF Init, TimersKeepTheGameGoing, Interval
<1> QED BY <1>1, InitCountdown, CountdownStep, GoingStep, SoloTypeCorrectness, PTL DEF Spec

-----------------------------------------------------------------------------
(* As long as nobody has guessed a word outside its round *)

NoTimers == ~waitingCountdownInterval.on /\ ~gameTimeInterval.on /\ transitions = <<>>

\* The count-down of a round, with the one timeout that starts it.
Announced ==
  /\ Len(transitions) = 1
  /\ waitingCountdownInterval.on /\ waitingCountdownInterval.job = "count"
  /\ waitingCountdownTime = transitions[1].left - waitingCountdownInterval.left

\* The count-down of the end of the game.
Ending ==
  /\ transitions = <<>>
  /\ waitingCountdownInterval.on /\ waitingCountdownInterval.job = "finish"
  /\ waitingCountdownTime >= 1

InRound == word /\ shown = 2..cycle /\ round \in 1..words
NothingSaved == saving = <<>> /\ saved = 0

\* The four states of an orderly game.
Starting ==
  /\ round = 0 /\ NothingSaved /\ ~gameTimeInterval.on
  /\ phase = "open" => Announced
Playing ==
  /\ InRound /\ NothingSaved
  /\ ~waitingCountdownInterval.on /\ transitions = <<>>
  /\ phase = "open" => /\ gameTimeInterval.on /\ CycleOf[gameTimeInterval.job] = cycle
                       /\ time >= 1
BetweenRounds ==
  /\ InRound /\ NothingSaved /\ ~gameTimeInterval.on
  /\ phase = "open" => IF words > round THEN Announced ELSE Ending
Over ==
  /\ round = words /\ ~word /\ NoTimers
  /\ phase # "crashed" => \/ saving = <<totalScore>> /\ saved = 0
                          \/ saving = <<>> /\ saved = totalScore

FlowInv ==
  /\ words > 0 /\ orphans = <<>> /\ waitingCountdownTime >= 0 /\ time >= 0
  /\ phase = "crashed" => gameState = "GAME_END"
  /\ phase = "disposed" => NoTimers
  /\ gameState = "START_COUNTDOWN" => Starting
  /\ gameState = "GAME_STARTED" => Playing
  /\ gameState = "ROUND_END" => BetweenRounds
  /\ gameState = "GAME_END" => Over

OrderlyInv == Orderly => FlowInv

\* Words do not change and a late guess is not forgotten.
LEMMA OrderlyBefore == ASSUME TypeOK, [Next]_vars, Orderly' PROVE Orderly
<1>1. words' = words /\ (late => late')
  <2>1. ASSUME NEW job, NEW rewound, GameTick(job, rewound) PROVE UNCHANGED <<words, late>>
    BY <2>1 DEF GameTick, client
  <2>2. CASE Clock
    BY <2>1, <2>2 DEF Clock, Elapse, WaitingFires, TransitionFires, GameTimerFires,
       OrphanFires, roundVars, client
  <2>3. CASE Database \/ NobodyJoins \/ ClientStep \/ UNCHANGED vars
    BY <2>3 DEF Database, SaveCompletes, SaveFails, NobodyJoins, ClientStep, OnJoin, Leave,
       vars, roundVars, client
  <2>4. CASE \E s \in Sessions: Guess(s)
    BY <2>4 DEF Guess, roundVars
  <2> QED BY <2>2, <2>3, <2>4 DEF Next, RoomStep
<1> QED BY <1>1 DEF Orderly

\* The types the steps below need.
LEMMA FlowTypes ==
  ASSUME TypeOK
  PROVE  /\ waitingCountdownInterval \in Timer({"count", "finish"})
         /\ gameTimeInterval \in Timer(CycleJobs)
         /\ transitions \in Seq(Timer({"startRound"}))
         /\ DOMAIN transitions = 1..Len(transitions) /\ Len(transitions) \in Nat
         /\ round \in Nat /\ words \in Nat /\ cycle \in 1..4
         /\ time \in Int /\ waitingCountdownTime \in Int /\ totalScore \in Nat
         /\ gameState \in {"START_COUNTDOWN", "GAME_STARTED", "ROUND_END", "GAME_END"}
  BY TypeOKParts, LenProperties DEF TimersTypeOK, GameTypeOK

\* The only element of a sequence leaves it empty.
LEMMA OneElementLess ==
  ASSUME NEW S, NEW s \in Seq(S), Len(s) = 1, NEW i \in DOMAIN s
  PROVE  i = 1 /\ RemoveAt(s, i) = <<>>
<1>1. i \in 1..1
  BY LenProperties
<1>2. RemoveAt(s, i) \in Seq(S) /\ Len(RemoveAt(s, i)) = 0
  BY RemovedElement
<1> QED BY <1>1, <1>2, EmptySeq

\* The only timeout is the newest.
LEMMA OnlyTimeout ==
  ASSUME TypeOK, Len(transitions) = 1
  PROVE  /\ 1 \in DOMAIN transitions /\ transitions[1] \in Timer({"startRound"})
         /\ Last(transitions) = transitions[1] /\ transitions # <<>>
<1>1. transitions \in Seq(Timer({"startRound"})) /\ DOMAIN transitions = 1..1
  BY FlowTypes
<1>2. 1 \in DOMAIN transitions
  BY <1>1
<1>3. transitions[1] \in Timer({"startRound"})
  BY <1>1, <1>2, ElementOfSeq
<1>4. Last(transitions) = transitions[1]
  BY DEF Last
<1>5. transitions # <<>>
  BY EmptySeq, <1>1
<1> QED BY <1>2, <1>3, <1>4, <1>5

\* A step that leaves the game, its timers and its saves alone.
FlowVars == <<phase, gameState, waitingCountdownTime, roundVars, totalScore, timers, database>>

LEMMA FlowInvFrame == ASSUME FlowInv, UNCHANGED FlowVars PROVE FlowInv'
  BY DEF FlowInv, FlowVars, roundVars, timers, database, Starting, Playing, BetweenRounds, Over,
         NoTimers, Announced, Ending, InRound, NothingSaved

\* A room that is disposed of has no timers left, and the state it had.
LEMMA FlowInvDisposed ==
  ASSUME FlowInv, phase = "open", OnDispose,
         UNCHANGED <<gameState, waitingCountdownTime, roundVars, totalScore, database>>
  PROVE  FlowInv'
<1>1. NoTimers' /\ orphans' = <<>> /\ phase' = "disposed"
  BY DEF OnDispose, NoTimers, Off
<1> USE DEF FlowInv, roundVars, database, InRound, NothingSaved, NoTimers
<1>2. gameState = "START_COUNTDOWN" => Starting'
  BY <1>1 DEF Starting
<1>3. gameState = "GAME_STARTED" => Playing'
  BY <1>1 DEF Playing
<1>4. gameState = "ROUND_END" => BetweenRounds'
  BY <1>1 DEF BetweenRounds
<1>5. gameState = "GAME_END" => Over'
  BY <1>1 DEF Over
<1> QED BY <1>1, <1>2, <1>3, <1>4, <1>5

\* A round ends, by a guess or when its time is up.
LEMMA RoundStops ==
  ASSUME TypeOK, FlowInv, phase = "open", gameState = "GAME_STARTED",
         stopCurrentRoundOrGame, time' >= 0,
         UNCHANGED <<phase, round, cycle, words, word, shown, orphans, database>>
  PROVE  FlowInv'
<1> DEFINE timeout == Timeout(MidGameCountdown + 1, "startRound")
<1>1. Playing /\ words > 0 /\ orphans = <<>>
  BY DEF FlowInv
<1>2. /\ gameState' = "ROUND_END" /\ waitingCountdownTime' = MidGameCountdown
      /\ ~gameTimeInterval'.on /\ MidGameCountdown \in Nat /\ MidGameCountdown >= 1
  BY TimesAssumption DEF stopCurrentRoundOrGame, Off
<1>3. /\ waitingCountdownInterval'.on /\ waitingCountdownInterval'.left = 1
      /\ \/ /\ words > round /\ waitingCountdownInterval'.job = "count"
            /\ transitions' = Append(transitions, timeout)
         \/ /\ ~(words > round) /\ waitingCountdownInterval'.job = "finish"
            /\ transitions' = transitions
  BY RoundEndTimers, TypeOKParts
<1>4. timeout.left = MidGameCountdown + 1
  BY DEF Timeout
<1> HIDE DEF timeout
<1>5. InRound' /\ NothingSaved'
  BY <1>1 DEF Playing, InRound, NothingSaved, database
<1>6. CASE words > round
  <2>1. Len(transitions') = 1 /\ transitions'[1] = timeout
    BY <1>1, <1>3, <1>6 DEF Playing
  <2>2. Announced'
    BY <1>2, <1>3, <1>4, <1>6, <2>1 DEF Announced
  <2>3. BetweenRounds'
    BY <1>2, <1>5, <1>6, <2>2 DEF BetweenRounds
  <2> QED BY <1>1, <1>2, <2>3 DEF FlowInv
<1>7. CASE ~(words > round)
  <2>1. Ending'
    BY <1>1, <1>2, <1>3, <1>7 DEF Ending, Playing
  <2>2. BetweenRounds'
    BY <1>2, <1>5, <1>7, <2>1 DEF BetweenRounds
  <2> QED BY <1>1, <1>2, <2>2 DEF FlowInv
<1> QED BY <1>6, <1>7

\* A second passes: count-down and timeout come nearer together.
LEMMA FlowInvElapse ==
  ASSUME TypeOK, NothingIsPaused, FlowInv, Elapse
  PROVE  FlowInv'
<1>1. /\ phase = "open" /\ phase' = phase
      /\ waitingCountdownInterval' = Age(waitingCountdownInterval)
      /\ gameTimeInterval' = Age(gameTimeInterval)
      /\ transitions' = [i \in DOMAIN transitions |-> Age(transitions[i])]
      /\ orphans' = [i \in DOMAIN orphans |-> Age(orphans[i])]
      /\ ~Due(waitingCountdownInterval) /\ ~Due(gameTimeInterval)
      /\ \A i \in DOMAIN transitions: ~Due(transitions[i])
      /\ UNCHANGED <<gameState, waitingCountdownTime, roundVars, totalScore, database>>
  BY DEF Elapse, ClockRuns, roster, scores
<1>2. /\ waitingCountdownInterval'.on = waitingCountdownInterval.on
      /\ waitingCountdownInterval'.job = waitingCountdownInterval.job
      /\ gameTimeInterval'.on = gameTimeInterval.on
      /\ gameTimeInterval'.job = gameTimeInterval.job
  BY <1>1, FlowTypes, AgedTimer
<1>3. orphans' = <<>>
  <2>1. orphans = <<>>
    BY DEF FlowInv
  <2> QED BY <1>1, <2>1
<1>4. transitions = <<>> => transitions' = <<>>
  BY <1>1
<1>5. ASSUME Announced PROVE Announced'
  <2>1. /\ Len(transitions) = 1 /\ waitingCountdownInterval.on
        /\ waitingCountdownTime = transitions[1].left - waitingCountdownInterval.left
    BY <1>5 DEF Announced
  <2>2. 1 \in DOMAIN transitions /\ transitions[1] \in Timer({"startRound"})
    BY <2>1, OnlyTimeout
  <2>3. transitions[1].on /\ ~transitions[1].paused /\ ~waitingCountdownInterval.paused
    BY <2>2 DEF NothingIsPaused
  <2>4. transitions'[1] = Age(transitions[1])
    BY <1>1, <2>2
  <2>5. transitions'[1].left = transitions[1].left - 1 /\ transitions[1].left \in Nat
    BY <2>2, <2>3, <2>4 DEF Age, Running, Timer
  <2>6. /\ waitingCountdownInterval'.left = waitingCountdownInterval.left - 1
        /\ waitingCountdownInterval.left \in Nat
    BY <1>1, <2>1, <2>3, FlowTypes DEF Age, Running, Timer
  <2>7. Len(transitions') = 1
    <3>1. transitions' \in Seq(Timer({"startRound"})) /\ DOMAIN transitions' = 1..1
      <4>1. transitions' \in Seq(Timer({"startRound"}))
        <5>1. [Next]_vars
          BY DEF Next, RoomStep, Clock
        <5> QED BY <5>1, TimersStep DEF TimersTypeOK
      <4> QED BY <1>1, <2>1, <4>1, FlowTypes
    <3> QED BY <3>1, LenProperties
  <2> QED BY <1>1, <1>2, <2>1, <2>5, <2>6, <2>7, <1>5 DEF Announced
<1>6. ASSUME Ending PROVE Ending'
  BY <1>1, <1>2, <1>4, <1>6 DEF Ending
<1> USE DEF FlowInv, roundVars, database, InRound, NothingSaved, NoTimers
<1>7. gameState = "START_COUNTDOWN" => Starting'
  BY <1>1, <1>2, <1>5 DEF Starting
<1>8. gameState = "GAME_STARTED" => Playing'
  BY <1>1, <1>2, <1>4 DEF Playing
<1>9. gameState = "ROUND_END" => BetweenRounds'
  BY <1>1, <1>2, <1>5, <1>6 DEF BetweenRounds
<1>10. gameState = "GAME_END" => Over'
  BY <1>1, <1>2, <1>4 DEF Over
<1> QED BY <1>1, <1>3, <1>7, <1>8, <1>9, <1>10

\* The one timeout that is pending starts the next round.
LEMMA FlowInvTransition ==
  ASSUME TypeOK, FlowInv, NEW i \in DOMAIN transitions, TransitionFires(i)
  PROVE  FlowInv'
<1>1. phase = "open" /\ phase' = phase /\ transitions # <<>>
  <2>1. DOMAIN transitions # {}
    OBVIOUS
  <2> QED BY <2>1 DEF TransitionFires, ClockRuns, roster
<1>2. /\ gameState \in {"START_COUNTDOWN", "ROUND_END"}
      /\ Announced /\ NothingSaved /\ ~gameTimeInterval.on
      /\ words > round /\ round \in Nat
  <2>1. gameState \in {"START_COUNTDOWN", "ROUND_END"}
    BY <1>1, FlowTypes DEF FlowInv, Playing, Over, NoTimers
  <2>2. CASE gameState = "START_COUNTDOWN"
    BY <1>1, <2>1, <2>2, FlowTypes DEF FlowInv, Starting
  <2>3. CASE gameState = "ROUND_END"
    BY <1>1, <2>1, <2>3, FlowTypes DEF FlowInv, BetweenRounds, Ending
  <2> QED BY <2>1, <2>2, <2>3
<1>3. transitions' = <<>>
  BY <1>2, OneElementLess, FlowTypes DEF TransitionFires, Announced
<1>4. /\ gameState' = "GAME_STARTED" /\ round' = round + 1 /\ words' = words
      /\ cycle' = 1 /\ time' = CycleTime[1] /\ shown' = {}
      /\ (word' <=> words > round)
      /\ gameTimeInterval' = Interval("firstCycle") /\ waitingCountdownInterval' = Off
      /\ UNCHANGED <<waitingCountdownTime, database>>
      /\ orphans' = orphans
  BY <1>2 DEF TransitionFires, firstCycle
<1>5. time' >= 1 /\ time' >= 0
  BY <1>4, TimesAssumption
<1>6. gameTimeInterval'.on /\ CycleOf[gameTimeInterval'.job] = cycle' /\ ~waitingCountdownInterval'.on
  BY <1>4 DEF Interval, CycleOf, Off
<1>7. InRound'
  <2>1. round' \in 1..words'
    BY <1>2, <1>4, FlowTypes
  <2>2. shown' = 2..cycle'
    BY <1>4
  <2>3. word'
    BY <1>2, <1>4
  <2> QED BY <2>1, <2>2, <2>3 DEF InRound
<1>8. Playing'
  BY <1>2, <1>3, <1>4, <1>5, <1>6, <1>7 DEF Playing, NothingSaved, database
<1> QED BY <1>1, <1>4, <1>5, <1>8 DEF FlowInv

\* A count-down goes on, or the final one is over and the total is handed over.
LEMMA FlowInvWaiting ==
  ASSUME TypeOK, NothingIsPaused, FlowInv, WaitingFires
  PROVE  FlowInv'
<1>1. /\ phase = "open" /\ phase' = phase /\ waitingCountdownInterval.on
      /\ waitingCountdownInterval.left = 0
      /\ waitingCountdownInterval.job = "count" /\ transitions # <<>> => ~Due(Last(transitions))
      /\ waitingCountdownTime' = waitingCountdownTime - 1
      /\ GameIsOver \/ CountdownGoesOn
      /\ UNCHANGED <<round, cycle, words, totalScore, gameTimeInterval, transitions, orphans, saved>>
  BY DEF WaitingFires, ClockRuns, roster, scores, Due, Running
<1>2. \/ gameState = "START_COUNTDOWN" /\ Starting /\ Announced
      \/ gameState = "ROUND_END" /\ BetweenRounds /\ (Announced \/ Ending)
  BY <1>1, FlowTypes DEF FlowInv, Starting, Playing, BetweenRounds, Over, NoTimers
<1>3. CASE Announced
  <2>1. /\ Len(transitions) = 1 /\ waitingCountdownInterval.job = "count"
        /\ waitingCountdownTime = transitions[1].left - 0
    BY <1>1, <1>3 DEF Announced
  <2>2. 1 \in DOMAIN transitions /\ transitions[1] \in Timer({"startRound"})
        /\ Last(transitions) = transitions[1] /\ transitions # <<>>
    BY <2>1, OnlyTimeout
  <2>3. transitions[1].left \in Nat /\ transitions[1].left # 0
    BY <1>1, <2>1, <2>2 DEF NothingIsPaused, Due, Running, Timer
  <2>4. CountdownGoesOn
    BY <1>1, <2>1 DEF GameIsOver
  <2>5. /\ waitingCountdownInterval'.on /\ waitingCountdownInterval'.job = "count"
        /\ waitingCountdownInterval'.left = 1
        /\ UNCHANGED <<gameState, time, word, shown, saving>>
    BY <1>1, <2>1, <2>4, FlowTypes DEF CountdownGoesOn, Rewind, Timer
  <2>6. Announced' /\ waitingCountdownTime' >= 0
    BY <1>1, <2>1, <2>3, <2>5 DEF Announced
  <2>7. CASE gameState = "START_COUNTDOWN"
    BY <1>1, <2>5, <2>6, <2>7 DEF FlowInv, Starting, NothingSaved
  <2>8. CASE gameState = "ROUND_END"
    <3>1. words > round
      BY <1>1, <1>3, <2>8 DEF FlowInv, BetweenRounds, Announced, Ending
    <3> QED BY <1>1, <2>5, <2>6, <2>8, <3>1 DEF FlowInv, BetweenRounds, InRound, NothingSaved
  <2> QED BY <1>2, <2>7, <2>8
<1>4. CASE Ending /\ gameState = "ROUND_END"
  <2>1. /\ BetweenRounds /\ transitions = <<>> /\ waitingCountdownInterval.job = "finish"
        /\ waitingCountdownTime >= 1 /\ waitingCountdownTime' >= 0
    BY <1>1, <1>4, FlowTypes DEF FlowInv, Ending
  <2>2. ~(words > round) /\ round = words /\ InRound /\ NothingSaved /\ ~gameTimeInterval.on
    BY <1>1, <1>4, <2>1, FlowTypes DEF BetweenRounds, Announced, Ending, InRound
  <2>3. CASE GameIsOver
    <3>1. /\ gameState' = "GAME_END" /\ time' = 0 /\ ~word'
          /\ waitingCountdownInterval' = Off /\ saving' = Append(saving, totalScore)
      BY <2>3 DEF GameIsOver, setUserScoreOnDatabase
    <3>2. saving' = <<totalScore>> /\ saved' = 0
      BY <1>1, <2>2, <3>1 DEF NothingSaved
    <3>3. Over'
      BY <1>1, <2>1, <2>2, <3>1, <3>2 DEF Over, NoTimers, Off
    <3> QED BY <1>1, <2>1, <3>1, <3>3 DEF FlowInv
  <2>4. CASE CountdownGoesOn
    <3>1. /\ waitingCountdownTime' >= 1 /\ waitingCountdownInterval'.on
          /\ waitingCountdownInterval'.job = "finish"
          /\ UNCHANGED <<gameState, time, word, shown, saving>>
      BY <1>1, <2>1, <2>4, FlowTypes DEF CountdownGoesOn, Rewind, Timer
    <3>2. Ending'
      BY <1>1, <2>1, <3>1 DEF Ending
    <3>3. BetweenRounds'
      BY <1>1, <2>2, <3>1, <3>2 DEF BetweenRounds, InRound, NothingSaved
    <3> QED BY <1>1, <1>4, <2>1, <3>1, <3>3 DEF FlowInv
  <2> QED BY <1>1, <2>3, <2>4
<1> QED BY <1>2, <1>3, <1>4
\* A game timer can only fire in a round being played, whose word is there.
LEMMA FlowInvTick ==
  ASSUME TypeOK, FlowInv, GameTimerFires
  PROVE  FlowInv'
<1> DEFINE job == gameTimeInterval.job
           rewound == Rewind(gameTimeInterval)
<1>1. /\ gameTimeInterval.on /\ job \in CycleJobs
      /\ rewound.on /\ rewound.job = job
      /\ GameTick(job, rewound) /\ orphans' = orphans
  BY TypeOKParts, RewoundTimer DEF GameTimerFires, Due, Running, TimersTypeOK
<1>2. /\ phase = "open" /\ UNCHANGED <<round, words, totalScore, saving, saved>>
      /\ \/ CountsDown(rewound) \/ RevealsNextCue(job) \/ MissesTheWord(job) \/ TimesOut(job)
  BY <1>1 DEF GameTick, ClockRuns, scores, database
<1>3. gameState = "GAME_STARTED" /\ Playing
  BY <1>1, FlowTypes DEF FlowInv, Starting, BetweenRounds, Over, NoTimers
<1>4. /\ word /\ shown = 2..cycle /\ round \in 1..words /\ saving = <<>> /\ saved = 0
      /\ ~waitingCountdownInterval.on /\ transitions = <<>>
      /\ CycleOf[job] = cycle /\ time >= 1 /\ cycle \in 1..4 /\ time \in Int
  BY <1>2, <1>3, FlowTypes DEF Playing, InRound, NothingSaved
<1>5. words > 0 /\ orphans' = <<>> /\ waitingCountdownTime >= 0
  BY <1>1 DEF FlowInv
<1> HIDE DEF job, rewound
<1>6. ASSUME UNCHANGED <<phase, gameState, word, waitingCountdownTime,
                         waitingCountdownInterval, transitions>>,
             gameTimeInterval'.on, CycleOf[gameTimeInterval'.job] = cycle',
             time' >= 1, time' >= 0, shown' = 2..cycle'
      PROVE  FlowInv'
  <2>1. Playing'
    BY <1>2, <1>4, <1>6 DEF Playing, InRound, NothingSaved
  <2> QED BY <1>2, <1>3, <1>5, <1>6, <2>1 DEF FlowInv
<1>7. CASE CountsDown(rewound)
  <2>1. /\ time' = time - 1 /\ time > 1 /\ gameTimeInterval' = rewound
        /\ UNCHANGED <<phase, gameState, cycle, word, shown, waitingCountdownTime,
                       waitingCountdownInterval, transitions>>
    BY <1>7 DEF CountsDown
  <2>2. time' >= 1 /\ time' >= 0
    BY <1>4, <2>1
  <2> QED BY <1>1, <1>4, <1>6, <2>1, <2>2
<1>8. CASE RevealsNextCue(job)
  <2>1. /\ job # "fourthCycle" /\ time' = CycleTime[CycleOf[job] + 1]
        /\ cycle' = CycleOf[job] + 1 /\ shown' = shown \cup {CycleOf[job] + 1}
        /\ gameTimeInterval' = Interval(NextJob[job])
        /\ UNCHANGED <<phase, gameState, word, waitingCountdownTime,
                       waitingCountdownInterval, transitions>>
    BY <1>8 DEF RevealsNextCue, RevealedCue
  <2>2. CycleOf[NextJob[job]] = CycleOf[job] + 1 /\ CycleOf[job] + 1 \in 2..4
    BY <1>1, <2>1 DEF CycleJobs, CycleOf, NextJob
  <2>3. time' >= 1 /\ time' >= 0
    BY <2>1, <2>2, TimesAssumption
  <2>4. shown' = 2..cycle'
    BY <1>4, <2>1, <2>2
  <2>5. gameTimeInterval'.on /\ CycleOf[gameTimeInterval'.job] = cycle'
    BY <2>1, <2>2 DEF Interval
  <2> QED BY <1>6, <2>1, <2>3, <2>4, <2>5
<1>9. CASE MissesTheWord(job)
  BY <1>4, <1>9 DEF MissesTheWord
<1>10. CASE TimesOut(job)
  <2>1. /\ time' = time - 1 /\ stopCurrentRoundOrGame
        /\ UNCHANGED <<phase, cycle, word, shown>>
    BY <1>10 DEF TimesOut
  <2>2. time' >= 0
    BY <1>4, <2>1
  <2> QED BY <1>1, <1>2, <1>3, <2>1, <2>2, RoundStops DEF database
<1> QED BY <1>2, <1>7, <1>8, <1>9, <1>10

\* There is one save to be answered, and only once the game is over.
LEMMA FlowInvDatabase ==
  ASSUME TypeOK, FlowInv, Database
  PROVE  FlowInv'
<1>1. PICK i \in DOMAIN saving: SaveCompletes(i) \/ SaveFails(i)
  BY DEF Database
<1>2. /\ phase # "crashed"
      /\ UNCHANGED <<gameState, waitingCountdownTime, roundVars, totalScore, timers>>
  BY <1>1 DEF SaveCompletes, SaveFails, scores
<1>3. saving # <<>>
  BY <1>1
<1>4. gameState = "GAME_END" /\ Over /\ saving = <<totalScore>> /\ saved = 0
  BY <1>2, <1>3, FlowTypes DEF FlowInv, Starting, Playing, BetweenRounds, Over, NothingSaved
<1>5. i = 1 /\ saving[1] = totalScore /\ RemoveAt(saving, i) = <<>>
  <2>1. saving \in Seq(Nat)
    BY TypeOKParts DEF RestTypeOK
  <2> QED BY <1>1, <1>4, <2>1, OneElementLess
<1>6. \/ phase' = phase /\ saved' = totalScore /\ saving' = <<>>
      \/ phase' = "crashed"
  BY <1>1, <1>4, <1>5, FlowTypes DEF SaveCompletes, SaveFails, roster
<1>7. Over'
  BY <1>2, <1>4, <1>6 DEF Over, NoTimers, roundVars, timers
<1> QED BY <1>2, <1>4, <1>6, <1>7 DEF FlowInv, NoTimers, roundVars, timers

LEMMA OrderlyInvStep ==
  ASSUME TypeOK, NothingIsPaused, OrderlyInv, [Next]_vars
  PROVE  OrderlyInv'
<1> SUFFICES ASSUME Orderly' PROVE FlowInv'
  BY DEF OrderlyInv
<1>1. FlowInv
  BY OrderlyBefore DEF OrderlyInv
<1>2. ASSUME NEW s \in Sessions, OnJoin(s) PROVE FlowInv'
  BY <1>1, <1>2, FlowInvFrame DEF OnJoin, FlowVars, scores
<1>3. ASSUME NEW s \in Sessions, Leave(s) PROVE FlowInv'
  <2>1. CASE clients = {s}
    BY <1>1, <1>3, <2>1, FlowInvDisposed DEF Leave, scores
  <2>2. CASE clients # {s}
    BY <1>1, <1>3, <2>2, FlowInvFrame DEF Leave, FlowVars, scores
  <2> QED BY <2>1, <2>2
<1>4. CASE NobodyJoins
  BY <1>1, <1>4, FlowInvDisposed DEF NobodyJoins, scores
<1>5. ASSUME NEW s \in Sessions, Guess(s) PROVE FlowInv'
  <2>1. ~late'
    BY DEF Orderly
  <2>2. gameState = "GAME_STARTED"
    BY <1>5, <2>1, Zenon DEF Guess
  <2>3. /\ phase = "open" /\ stopCurrentRoundOrGame
        /\ UNCHANGED <<phase, round, cycle, time, words, word, shown, orphans, database>>
    BY <1>5 DEF Guess, roster, roundVars
  <2>4. time' >= 0
    BY <1>1, <2>3 DEF FlowInv
  <2> QED BY <1>1, <2>2, <2>3, <2>4, RoundStops
<1>6. ASSUME NEW i \in DOMAIN orphans, OrphanFires(i) PROVE FlowInv'
  BY <1>1, <1>6 DEF FlowInv
<1>7. CASE UNCHANGED vars
  BY <1>1, <1>7, FlowInvFrame DEF vars, FlowVars, roster, scores
<1> QED BY <1>1, <1>2, <1>3, <1>4, <1>5, <1>6, <1>7, FlowInvElapse, FlowInvWaiting,
           FlowInvTransition, FlowInvTick, FlowInvDatabase
        DEF Next, RoomStep, ClientStep, Clock

LEMMA InitOrderlyInv == Init => OrderlyInv
<1> SUFFICES ASSUME Init, Orderly PROVE FlowInv
  BY DEF OrderlyInv
<1> DEFINE timeout == Timeout(StartCountdown + 1, "startRound")
<1>1. timeout.left = StartCountdown + 1
  BY DEF Timeout
<1> HIDE DEF timeout
<1>2. transitions = <<timeout>>
  BY DEF Init, timeout
<1>3. Len(transitions) = 1 /\ transitions[1] = timeout
  BY <1>2
<1>4. /\ waitingCountdownInterval.on /\ waitingCountdownInterval.job = "count"
      /\ waitingCountdownInterval.left = 1 /\ ~gameTimeInterval.on
      /\ waitingCountdownTime = StartCountdown
  BY DEF Init, Interval, Off
<1>5. Announced
  BY <1>1, <1>3, <1>4, TimesAssumption DEF Announced
<1>6. Starting
  BY <1>4, <1>5 DEF Init, Starting, NothingSaved
<1>7. time >= 0 /\ waitingCountdownTime >= 0
  BY <1>4, TimesAssumption DEF Init
<1> QED BY <1>6, <1>7 DEF Init, FlowInv, Orderly

\* As long as nobody has guessed a word outside its round, a game that has words is
\* always in one of the four states Starting, Playing, BetweenRounds and Over.
THEOREM OrderlyInvariance == Spec => [](TypeOK /\ OrderlyInv)
<1>1. TypeOK /\ NothingIsPaused /\ OrderlyInv /\ [Next]_vars => OrderlyInv'
  BY OrderlyInvStep
<1>2. TypeOK /\ NothingIsPaused /\ CountdownIsBacked /\ [Next]_vars
        => NothingIsPaused' /\ CountdownIsBacked'
  BY CountdownStep
<1> QED BY <1>1, <1>2, InitCountdown, InitOrderlyInv, SoloTypeCorrectness, PTL DEF Spec

\* At most one timeout is pending, only while a round is announced, and a game timer
\* runs exactly while a round is open: rounds never overlap.
THEOREM RoundsDoNotOverlapAlways == Spec => []RoundsDoNotOverlap
<1>1. TypeOK /\ OrderlyInv => RoundsDoNotOverlap
  <2> SUFFICES ASSUME TypeOK, OrderlyInv, Orderly, phase = "open"
               PROVE  /\ orphans = <<>> /\ Len(transitions) <= 1
                      /\ (transitions # <<>>) <=>
                           \/ gameState = "START_COUNTDOWN"
                           \/ gameState = "ROUND_END" /\ words > round
                      /\ gameTimeInterval.on <=> gameState = "GAME_STARTED"
                      /\ gameTimeInterval.on => CycleOf[gameTimeInterval.job] = cycle
    BY DEF RoundsDoNotOverlap
  <2>1. FlowInv
    BY DEF OrderlyInv
  <2>2. Announced => transitions # <<>> /\ Len(transitions) <= 1
    BY OnlyTimeout DEF Announced
  <2>3. transitions = <<>> => Len(transitions) = 0
    BY EmptySeq
  <2>4. CASE gameState = "START_COUNTDOWN"
    <3>1. Announced /\ ~gameTimeInterval.on /\ orphans = <<>>
      BY <2>1, <2>4 DEF FlowInv, Starting
    <3> QED BY <2>2, <2>4, <3>1
  <2>5. CASE gameState = "GAME_STARTED"
    BY <2>1, <2>3, <2>5 DEF FlowInv, Playing
  <2>6. CASE gameState = "ROUND_END"
    <3>1. /\ IF words > round THEN Announced ELSE Ending
          /\ ~gameTimeInterval.on /\ orphans = <<>>
      BY <2>1, <2>6 DEF FlowInv, BetweenRounds
    <3>2. Ending => transitions = <<>>
      BY DEF Ending
    <3> QED BY <2>2, <2>3, <2>6, <3>1, <3>2
  <2>7. CASE gameState = "GAME_END"
    BY <2>1, <2>3, <2>7 DEF FlowInv, Over, NoTimers
  <2> QED BY <2>4, <2>5, <2>6, <2>7, FlowTypes
<1> QED BY <1>1, OrderlyInvariance, PTL

\* The cues revealed are those of the cycles of this round that have begun.
THEOREM SoloCuesMatchTheCycleAlways == Spec => []CuesMatchTheCycle
<1>1. OrderlyInv => CuesMatchTheCycle
  BY DEF OrderlyInv, FlowInv, CuesMatchTheCycle, Playing, BetweenRounds, InRound
<1> QED BY <1>1, OrderlyInvariance, PTL

\* The count-down shown is the time until the round starts, and no clock shown goes
\* below zero.
THEOREM SoloCountdownIsHonestAlways == Spec => []CountdownIsHonest
<1>1. TypeOK /\ OrderlyInv => CountdownIsHonest
  <2> SUFFICES ASSUME TypeOK, OrderlyInv, Orderly
               PROVE  /\ (waitingCountdownInterval.on /\ waitingCountdownInterval.job = "count")
                           => waitingCountdownTime
                                = Last(transitions).left - waitingCountdownInterval.left
                      /\ waitingCountdownTime >= 0 /\ time >= 0
    BY DEF CountdownIsHonest
  <2>1. FlowInv
    BY DEF OrderlyInv
  <2>2. (waitingCountdownInterval.on /\ waitingCountdownInterval.job = "count") => Announced
    BY <2>1, FlowTypes, TypeOKParts
       DEF FlowInv, Starting, Playing, BetweenRounds, Over, NoTimers, Ending, RestTypeOK
  <2>3. Announced => waitingCountdownTime
                       = Last(transitions).left - waitingCountdownInterval.left
    BY OnlyTimeout DEF Announced
  <2> QED BY <2>1, <2>2, <2>3 DEF FlowInv
<1> QED BY <1>1, OrderlyInvariance, PTL

\* The game is over when every word has been played in a round of its own, and only a
\* failed save ends the process.
THEOREM SoloEveryWordIsPlayedAlways == Spec => []EveryWordIsPlayed
<1>1. OrderlyInv => EveryWordIsPlayed
  BY DEF OrderlyInv, FlowInv, EveryWordIsPlayed, Playing, BetweenRounds, InRound, Over
<1> QED BY <1>1, OrderlyInvariance, PTL

\* The total is handed to the database once, whole, when the game is over.
THEOREM TotalIsSavedOnceAlways == Spec => []TotalIsSavedOnce
<1>1. TypeOK /\ OrderlyInv => TotalIsSavedOnce
  BY FlowTypes DEF OrderlyInv, FlowInv, TotalIsSavedOnce, Starting, Playing, BetweenRounds,
     NothingSaved, Over
<1> QED BY <1>1, OrderlyInvariance, PTL
-----------------------------------------------------------------------------
(* The total is saved once, whatever the client sends                      *)
(*                                                                         *)
(* A final count-down that starts after the save would save the total      *)
(* again.  It can: a game timer of the fourth cycle that has lost its      *)
(* handle ends the round over and over.  What prevents the second save is  *)
(* that such a timer starts the count-down anew every second, and that the *)
(* count-down takes at least two.                                          *)

\* The sums NeverOverpaid is about.
LEMMA SumOfNone == FoldSeq(+, 0, <<>>) = 0
<1> DEFINE none == <<>>
           first(s) == CHOOSE x \in s: TRUE
           Sums(f) == [s \in SUBSET {} |->
                         IF s = {} THEN 0 ELSE none[first(s)] + f[s \ {first(s)}]]
           sums == CHOOSE f: f = Sums(f)
<1>1. DOMAIN none = {}
  OBVIOUS
<1> HIDE DEF none
<1>2. FoldSeq(+, 0, none) = sums[{}]
  BY <1>1, Zenon DEF FoldSeq, FoldFunction, FoldFunctionOnSet, MapThenFoldSet
<1>3. [s \in SUBSET {} |-> 0] = Sums([s \in SUBSET {} |-> 0])
  OBVIOUS
<1>4. sums = Sums(sums)
  BY <1>3
<1> HIDE DEF sums
<1>5. sums[{}] = 0
  BY <1>4
<1> QED BY <1>2, <1>5, Zenon DEF none

LEMMA SumOfOne == ASSUME NEW n \in Nat PROVE FoldSeq(+, 0, <<n>>) = n
<1> DEFINE one == <<n>>
           first(s) == CHOOSE x \in s: TRUE
           Sums(f) == [s \in SUBSET {1} |->
                         IF s = {} THEN 0 ELSE one[first(s)] + f[s \ {first(s)}]]
           sums == CHOOSE f: f = Sums(f)
           known == [s \in SUBSET {1} |-> IF s = {} THEN 0 ELSE n]
<1>1. DOMAIN one = {1} /\ one[1] = n
  OBVIOUS
<1> HIDE DEF one
<1>2. FoldSeq(+, 0, one) = sums[{1}]
  BY <1>1, Zenon DEF FoldSeq, FoldFunction, FoldFunctionOnSet, MapThenFoldSet
<1>3. first({1}) = 1 /\ {1} \ {1} = {}
  OBVIOUS
<1>4. known = Sums(known)
  <2>1. SUBSET {1} = {{}, {1}} /\ n + 0 = n
    OBVIOUS
  <2>2. ASSUME NEW s \in SUBSET {1} PROVE known[s] = Sums(known)[s]
    <3>1. CASE s = {}
      BY <3>1
    <3>2. CASE s = {1}
      BY <1>1, <1>3, <2>1, <3>2
    <3> QED BY <2>1, <3>1, <3>2
  <2> QED BY <2>2
<1>5. sums = Sums(sums)
  BY <1>4
<1> HIDE DEF sums
<1>6. sums[{}] = 0
  BY <1>5
<1>7. sums[{1}] = one[1] + sums[{}]
  BY <1>3, <1>5
<1>8. sums[{1}] = n
  BY <1>1, <1>6, <1>7
<1> QED BY <1>2, <1>8, Zenon DEF one

\* Game timers fire every second, with or without a handle.
GameTimersTick ==
  /\ ~gameTimeInterval.paused /\ gameTimeInterval.left <= 1
  /\ \A i \in DOMAIN orphans:
       orphans[i].on /\ ~orphans[i].paused /\ orphans[i].left <= 1

\* A final count-down that the first timer without a handle will start anew, or end
\* the process, before its next second.
Hopeless ==
  /\ waitingCountdownInterval.job = "finish" /\ orphans # <<>> /\ time <= 0
  /\ \/ /\ waitingCountdownTime = MidGameCountdown
        /\ waitingCountdownInterval.left = 0 => orphans[1].left = 0
     \/ /\ waitingCountdownTime = MidGameCountdown - 1
        /\ waitingCountdownInterval.left = 1 /\ orphans[1].left = 0

\* Between rounds only a timer without a handle sets a game timer.
BeforeSave ==
  /\ NothingSaved
  /\ waitingCountdownInterval.on /\ waitingCountdownInterval.job = "finish" => words <= round
  /\ waitingCountdownInterval.on /\ gameTimeInterval.on => orphans # <<>>

SavedAtMostOnce ==
  \/ saving = <<totalScore>> /\ saved = 0
  \/ saving = <<>> /\ saved = totalScore
  \/ saving = <<>> /\ saved = 0 /\ phase = "crashed"

AfterSave ==
  /\ SavedAtMostOnce
  /\ phase = "open" =>
       /\ ~word /\ words <= round
       /\ gameTimeInterval.on /\ gameTimeInterval.job = "fourthCycle" => orphans # <<>>
       /\ waitingCountdownInterval.on => Hopeless

SaveInv == BeforeSave \/ AfterSave

\* The types of the timers without a handle.
LEMMA OrphanTypes ==
  ASSUME TypeOK
  PROVE  /\ orphans \in Seq(CycleTimer) /\ DOMAIN orphans = 1..Len(orphans)
         /\ \A i \in DOMAIN orphans: orphans[i] \in CycleTimer
         /\ orphans # <<>> => 1 \in DOMAIN orphans
<1>1. orphans \in Seq(CycleTimer) /\ DOMAIN orphans = 1..Len(orphans) /\ Len(orphans) \in Nat
  BY TypeOKParts, LenProperties DEF TimersTypeOK
<1>2. \A i \in DOMAIN orphans: orphans[i] \in CycleTimer
  BY <1>1, ElementOfSeq
<1>3. orphans # <<>> => 1 \in DOMAIN orphans
  <2>1. orphans # <<>> => Len(orphans) # 0
    BY <1>1, EmptySeq
  <2> QED BY <1>1, <2>1
<1> QED BY <1>1, <1>2, <1>3

LEMMA GameTimersTickStep ==
  ASSUME TypeOK, GameTimersTick, [Next]_vars
  PROVE  GameTimersTick'
<1>0. /\ gameTimeInterval \in Timer(CycleJobs) /\ orphans \in Seq(CycleTimer)
      /\ \A i \in DOMAIN orphans: orphans[i] \in CycleTimer
  BY FlowTypes, OrphanTypes
<1>1. ASSUME UNCHANGED orphans, ~gameTimeInterval'.paused, gameTimeInterval'.left <= 1
      PROVE  GameTimersTick'
  BY <1>1 DEF GameTimersTick
<1>2. ASSUME UNCHANGED <<gameTimeInterval, orphans>> PROVE GameTimersTick'
  BY <1>2 DEF GameTimersTick
<1>3. CASE OnDispose
  BY <1>3 DEF OnDispose, GameTimersTick, Off
<1>4. ASSUME NEW s \in Sessions, OnJoin(s) \/ Leave(s) \/ Guess(s) PROVE GameTimersTick'
  BY <1>1, <1>2, <1>3, <1>4 DEF OnJoin, Leave, Guess, stopCurrentRoundOrGame, Off, timers
<1>5. CASE NobodyJoins \/ Database \/ WaitingFires \/ UNCHANGED vars
  BY <1>2, <1>3, <1>5
     DEF NobodyJoins, Database, SaveCompletes, SaveFails, WaitingFires, vars, timers
<1>6. CASE Elapse
  <2>1. /\ gameTimeInterval' = Age(gameTimeInterval) /\ ~Due(gameTimeInterval)
        /\ orphans' = [i \in DOMAIN orphans |-> Age(orphans[i])]
        /\ \A i \in DOMAIN orphans: ~Due(orphans[i])
    BY <1>6 DEF Elapse
  <2>2. ~gameTimeInterval'.paused /\ gameTimeInterval'.left <= 1
    BY <1>0, <2>1 DEF GameTimersTick, Age, Due, Running, Timer
  <2>3. ASSUME NEW i \in DOMAIN orphans
        PROVE  orphans'[i].on /\ ~orphans'[i].paused /\ orphans'[i].left <= 1
    <3>1. /\ orphans'[i] = Age(orphans[i]) /\ ~Due(orphans[i]) /\ orphans[i] \in CycleTimer
          /\ orphans[i].on /\ ~orphans[i].paused /\ orphans[i].left <= 1
      BY <1>0, <2>1 DEF GameTimersTick
    <3> QED BY <3>1 DEF Age, Due, Running, CycleTimer
  <2>4. DOMAIN orphans' = DOMAIN orphans
    BY <2>1
  <2> QED BY <2>2, <2>3, <2>4 DEF GameTimersTick
<1>7. ASSUME NEW i \in DOMAIN transitions, TransitionFires(i) PROVE GameTimersTick'
  <2>1. /\ gameTimeInterval' = Interval("firstCycle")
        /\ orphans' = IF gameTimeInterval.on THEN Append(orphans, gameTimeInterval)
                                             ELSE orphans
    BY <1>7 DEF TransitionFires, firstCycle
  <2>2. ~gameTimeInterval'.paused /\ gameTimeInterval'.left <= 1
    BY <2>1 DEF Interval
  <2>3. CASE gameTimeInterval.on
    <3>1. gameTimeInterval \in CycleTimer
      BY <2>3, TypeOKParts DEF TimersTypeOK, Timer, CycleTimer
    <3>2. /\ \A j \in DOMAIN orphans': j \in DOMAIN orphans \/ orphans'[j] = gameTimeInterval
          /\ \A j \in 1..Len(orphans): orphans'[j] = orphans[j]
      BY <1>0, <2>1, <2>3, <3>1, AppendedElement
    <3> QED BY <2>2, <2>3, <3>2, OrphanTypes DEF GameTimersTick
  <2>4. CASE ~gameTimeInterval.on
    BY <1>1, <2>1, <2>2, <2>4
  <2> QED BY <2>3, <2>4
<1>8. ASSUME NEW job, NEW rewound, GameTick(job, rewound)
      PROVE  \/ gameTimeInterval' = rewound \/ gameTimeInterval' = gameTimeInterval
             \/ ~gameTimeInterval'.paused /\ gameTimeInterval'.left <= 1
  <2>1. /\ ~Interval(NextJob[job]).paused /\ Interval(NextJob[job]).left <= 1
        /\ ~Off.paused /\ Off.left <= 1
    BY DEF Interval, Off
  <2> QED BY <1>8, <2>1 DEF GameTick, CountsDown, RevealsNextCue, MissesTheWord, TimesOut,
          stopCurrentRoundOrGame
<1>9. CASE GameTimerFires
  <2>1. ~Rewind(gameTimeInterval).paused /\ Rewind(gameTimeInterval).left <= 1
    BY <1>0 DEF GameTimersTick, Rewind, Timer
  <2>2. ~gameTimeInterval.paused /\ gameTimeInterval.left <= 1
    BY DEF GameTimersTick
  <2> QED BY <1>1, <1>8, <1>9, <2>1, <2>2 DEF GameTimerFires
<1>10. ASSUME NEW i \in DOMAIN orphans, OrphanFires(i) PROVE GameTimersTick'
  <2>1. ~gameTimeInterval'.paused /\ gameTimeInterval'.left <= 1
    BY <1>8, <1>10 DEF OrphanFires, GameTimersTick
  <2>2. /\ DOMAIN orphans' = DOMAIN orphans
        /\ \A j \in DOMAIN orphans:
             orphans'[j] = IF j = i THEN Rewind(orphans[i]) ELSE orphans[j]
    BY <1>10 DEF OrphanFires
  <2>3. /\ Rewind(orphans[i]).on /\ ~Rewind(orphans[i]).paused
        /\ Rewind(orphans[i]).left <= 1
    BY <1>0 DEF GameTimersTick, Rewind, CycleTimer
  <2> QED BY <2>1, <2>2, <2>3 DEF GameTimersTick
<1> QED BY <1>4, <1>5, <1>6, <1>7, <1>9, <1>10 DEF Next, RoomStep, ClientStep, Clock
\* A step that changes nothing the invariant is about.
LEMMA SaveInvFrame ==
  ASSUME SaveInv,
         UNCHANGED <<phase, waitingCountdownInterval, gameTimeInterval, orphans, database,
                     totalScore, roundVars, waitingCountdownTime>>
  PROVE  SaveInv'
  BY DEF SaveInv, BeforeSave, AfterSave, SavedAtMostOnce, Hopeless, NothingSaved,
         database, roundVars

LEMMA SaveInvDisposed ==
  ASSUME SaveInv, phase = "open", OnDispose, UNCHANGED <<database, totalScore>>
  PROVE  SaveInv'
<1>1. ~waitingCountdownInterval'.on /\ phase' = "disposed"
  BY DEF OnDispose, Off
<1>2. CASE BeforeSave
  BY <1>1, <1>2 DEF SaveInv, BeforeSave, NothingSaved, database
<1>3. CASE AfterSave
  BY <1>1, <1>3 DEF SaveInv, AfterSave, SavedAtMostOnce, database
<1> QED BY <1>2, <1>3 DEF SaveInv

\* A round that ends before the save starts the final count-down only if it was the
\* last.
LEMMA RoundStopsBeforeSave ==
  ASSUME TypeOK, BeforeSave, stopCurrentRoundOrGame, UNCHANGED <<database, words, round>>
  PROVE  SaveInv'
<1>1. /\ ~gameTimeInterval'.on
      /\ \/ waitingCountdownInterval'.job = "count"
         \/ ~(words > round)
  BY RoundEndTimers, TypeOKParts DEF Off
<1>2. ~(words > round) => words <= round
  BY FlowTypes
<1> QED BY <1>1, <1>2 DEF SaveInv, BeforeSave, NothingSaved, database

\* A second passes: a hopeless count-down and the timer that starts it anew come due
\* together.
LEMMA SaveInvElapse ==
  ASSUME TypeOK, NothingIsPaused, GameTimersTick, SaveInv, Elapse
  PROVE  SaveInv'
<1>1. /\ phase' = phase /\ waitingCountdownInterval' = Age(waitingCountdownInterval)
      /\ gameTimeInterval' = Age(gameTimeInterval)
      /\ orphans' = [i \in DOMAIN orphans |-> Age(orphans[i])]
      /\ ~Due(waitingCountdownInterval) /\ ~Due(gameTimeInterval)
      /\ \A i \in DOMAIN orphans: ~Due(orphans[i])
      /\ UNCHANGED <<database, totalScore, time, word, words, round, waitingCountdownTime>>
  BY DEF Elapse, roster, scores, roundVars
<1>2. /\ waitingCountdownInterval'.on = waitingCountdownInterval.on
      /\ waitingCountdownInterval'.job = waitingCountdownInterval.job
      /\ gameTimeInterval'.on = gameTimeInterval.on
      /\ gameTimeInterval'.job = gameTimeInterval.job
  BY <1>1, FlowTypes, AgedTimer
<1>3. orphans # <<>> => orphans' # <<>>
  <2>1. orphans # <<>> => 1 \in DOMAIN orphans /\ DOMAIN orphans' = DOMAIN orphans
    BY <1>1, OrphanTypes
  <2> QED BY <2>1
<1>4. CASE BeforeSave
  BY <1>1, <1>2, <1>3, <1>4 DEF SaveInv, BeforeSave, NothingSaved, database
<1>5. CASE AfterSave
  <2>1. ASSUME Hopeless PROVE Hopeless'
    <3>1. 1 \in DOMAIN orphans /\ orphans[1] \in CycleTimer
      BY <2>1, OrphanTypes DEF Hopeless
    <3>2. orphans[1].left = 1 /\ orphans'[1] = Age(orphans[1]) /\ Running(orphans[1])
      BY <1>1, <3>1 DEF GameTimersTick, Due, Running, CycleTimer
    <3>3. orphans'[1].left = 0
      BY <3>1, <3>2 DEF Age, CycleTimer
    <3>4. waitingCountdownTime = MidGameCountdown
      BY <2>1, <3>2 DEF Hopeless
    <3> QED BY <1>1, <1>2, <1>3, <2>1, <3>3, <3>4 DEF Hopeless
  <2> QED BY <1>1, <1>2, <1>3, <1>5, <2>1
          DEF SaveInv, AfterSave, SavedAtMostOnce, database
<1> QED BY <1>4, <1>5 DEF SaveInv

\* A hopeless count-down is never the one that ends the game.
LEMMA SaveInvWaiting ==
  ASSUME TypeOK, NothingIsPaused, SaveInv, MidGameCountdown >= 2, WaitingFires
  PROVE  SaveInv'
<1>1. /\ phase = "open" /\ phase' = phase /\ waitingCountdownInterval.on
      /\ waitingCountdownInterval.left = 0
      /\ waitingCountdownTime' = waitingCountdownTime - 1
      /\ GameIsOver \/ CountdownGoesOn
      /\ UNCHANGED <<round, words, totalScore, gameTimeInterval, orphans, saved>>
  BY DEF WaitingFires, ClockRuns, roster, scores, Due, Running
<1>2. CASE GameIsOver
  <2>1. /\ waitingCountdownInterval.job = "finish" /\ waitingCountdownTime <= 1
        /\ ~word' /\ ~waitingCountdownInterval'.on /\ saving' = Append(saving, totalScore)
    BY <1>2 DEF GameIsOver, setUserScoreOnDatabase, Off
  <2>2. CASE BeforeSave
    <3>1. saving' = <<totalScore>> /\ saved' = 0
      BY <1>1, <2>1, <2>2 DEF BeforeSave, NothingSaved
    <3>2. words <= round /\ (gameTimeInterval.on => orphans # <<>>)
      BY <1>1, <2>1, <2>2 DEF BeforeSave
    <3> QED BY <1>1, <2>1, <3>1, <3>2 DEF SaveInv, AfterSave, SavedAtMostOnce
  <2>3. CASE AfterSave
    <3>1. waitingCountdownTime = MidGameCountdown
      BY <1>1, <2>3 DEF AfterSave, Hopeless
    <3> QED BY <2>1, <3>1, TimesAssumption
  <2> QED BY <2>2, <2>3 DEF SaveInv
<1>3. CASE CountdownGoesOn
  <2>1. /\ waitingCountdownInterval'.on /\ waitingCountdownInterval'.left = 1
        /\ waitingCountdownInterval'.job = waitingCountdownInterval.job
        /\ UNCHANGED <<time, word, saving>>
    BY <1>1, <1>3, FlowTypes DEF CountdownGoesOn, Rewind, Timer
  <2>2. CASE BeforeSave
    BY <1>1, <2>1, <2>2 DEF SaveInv, BeforeSave, NothingSaved
  <2>3. CASE AfterSave
    <3>1. Hopeless /\ waitingCountdownTime = MidGameCountdown /\ orphans[1].left = 0
      BY <1>1, <2>3 DEF AfterSave, Hopeless
    <3>2. Hopeless'
      BY <1>1, <2>1, <3>1 DEF Hopeless
    <3> QED BY <1>1, <2>1, <2>3, <3>2 DEF SaveInv, AfterSave, SavedAtMostOnce
  <2> QED BY <2>2, <2>3 DEF SaveInv
<1> QED BY <1>1, <1>2, <1>3

\* A round that starts after the save has no word.
LEMMA SaveInvTransition ==
  ASSUME TypeOK, SaveInv, NEW i \in DOMAIN transitions, TransitionFires(i)
  PROVE  SaveInv'
<1>1. /\ phase' = phase /\ ~waitingCountdownInterval'.on
      /\ round' = round + 1 /\ words' = words /\ (word' <=> words > round)
      /\ gameTimeInterval'.job = "firstCycle"
      /\ UNCHANGED <<totalScore, database>>
  BY DEF TransitionFires, firstCycle, roster, Interval, Off
<1>2. CASE BeforeSave
  BY <1>1, <1>2 DEF SaveInv, BeforeSave, NothingSaved, database
<1>3. CASE AfterSave
  <2>1. words <= round => ~word' /\ words' <= round'
    BY <1>1, FlowTypes
  <2> QED BY <1>1, <1>3, <2>1 DEF SaveInv, AfterSave, SavedAtMostOnce, database
<1> QED BY <1>2, <1>3 DEF SaveInv

\* The callback of a game timer, with its handle or without.
LEMMA SaveInvTick ==
  ASSUME TypeOK, SaveInv, NEW job, NEW rewound, GameTick(job, rewound),
         rewound.on = gameTimeInterval.on, rewound.job = gameTimeInterval.job,
         orphans # <<>> => orphans' # <<>>,
         gameTimeInterval.on \/ orphans' # <<>>,
         AfterSave /\ job = "fourthCycle" => orphans' # <<>>
  PROVE  SaveInv'
<1>1. /\ phase = "open" /\ UNCHANGED <<round, words, totalScore, database>>
      /\ \/ CountsDown(rewound) \/ RevealsNextCue(job) \/ MissesTheWord(job) \/ TimesOut(job)
  BY DEF GameTick, ClockRuns, scores
<1>2. CASE CountsDown(rewound)
  <2>1. /\ time > 1 /\ phase' = phase /\ gameTimeInterval' = rewound
        /\ UNCHANGED <<word, waitingCountdownInterval>>
    BY <1>2 DEF CountsDown
  <2>2. CASE BeforeSave
    BY <1>1, <2>1, <2>2 DEF SaveInv, BeforeSave, NothingSaved, database
  <2>3. CASE AfterSave
    <3>1. ~waitingCountdownInterval.on
      BY <1>1, <2>1, <2>3, FlowTypes DEF AfterSave, Hopeless
    <3> QED BY <1>1, <2>1, <2>3, <3>1 DEF SaveInv, AfterSave, SavedAtMostOnce, database
  <2> QED BY <2>2, <2>3 DEF SaveInv
<1>3. CASE RevealsNextCue(job)
  <2>1. word /\ phase' = phase /\ UNCHANGED waitingCountdownInterval
    BY <1>3 DEF RevealsNextCue
  <2>2. BeforeSave
    BY <1>1, <2>1 DEF SaveInv, AfterSave
  <2> QED BY <1>1, <2>1, <2>2 DEF SaveInv, BeforeSave, NothingSaved, database
<1>4. CASE MissesTheWord(job)
  <2>1. phase' = "crashed" /\ UNCHANGED <<waitingCountdownInterval, gameTimeInterval>>
    BY <1>4 DEF MissesTheWord
  <2>2. CASE BeforeSave
    BY <1>1, <2>1, <2>2 DEF SaveInv, BeforeSave, NothingSaved, database
  <2>3. CASE AfterSave
    BY <1>1, <2>1, <2>3 DEF SaveInv, AfterSave, SavedAtMostOnce, database
  <2> QED BY <2>2, <2>3 DEF SaveInv
<1>5. CASE TimesOut(job)
  <2>1. /\ time <= 1 /\ job = "fourthCycle" /\ time' = time - 1
        /\ stopCurrentRoundOrGame /\ phase' = phase /\ UNCHANGED word
    BY <1>5 DEF TimesOut
  <2>2. CASE BeforeSave
    BY <1>1, <2>1, <2>2, RoundStopsBeforeSave
  <2>3. CASE AfterSave
    <3>1. ~word /\ words <= round /\ orphans' # <<>>
      BY <1>1, <2>1, <2>3 DEF AfterSave
    <3>2. /\ waitingCountdownInterval'.left = 1 /\ ~gameTimeInterval'.on
          /\ waitingCountdownInterval'.job = "finish"
          /\ waitingCountdownTime' = MidGameCountdown
      <4>1. ~(words > round)
        BY <3>1, FlowTypes
      <4> QED BY <2>1, <4>1, RoundEndTimers, TypeOKParts DEF Off, stopCurrentRoundOrGame
    <3>3. time' <= 0
      BY <2>1, FlowTypes
    <3>4. Hopeless'
      BY <3>1, <3>2, <3>3 DEF Hopeless
    <3> QED BY <1>1, <2>1, <2>3, <3>1, <3>2, <3>4
            DEF SaveInv, AfterSave, SavedAtMostOnce, database
  <2> QED BY <2>2, <2>3 DEF SaveInv
<1> QED BY <1>1, <1>2, <1>3, <1>4, <1>5

LEMMA SaveInvDatabase ==
  ASSUME TypeOK, SaveInv, Database
  PROVE  SaveInv'
<1>1. PICK i \in DOMAIN saving: SaveCompletes(i) \/ SaveFails(i)
  BY DEF Database
<1>2. saving # <<>> /\ phase # "crashed" /\ UNCHANGED <<totalScore, timers, roundVars, waitingCountdownTime>>
  BY <1>1 DEF SaveCompletes, SaveFails, scores
<1>3. AfterSave /\ saving = <<totalScore>> /\ saved = 0
  BY <1>2 DEF SaveInv, BeforeSave, NothingSaved, AfterSave, SavedAtMostOnce
<1>4. i = 1 /\ saving[1] = totalScore /\ RemoveAt(saving, i) = <<>>
  <2>1. saving \in Seq(Nat)
    BY TypeOKParts DEF RestTypeOK
  <2> QED BY <1>1, <1>3, <2>1, OneElementLess
<1>5. \/ phase' = phase /\ saved' = totalScore /\ saving' = <<>>
      \/ phase' = "crashed" /\ saved' = 0 /\ saving' = <<>>
  BY <1>1, <1>3, <1>4, FlowTypes DEF SaveCompletes, SaveFails, roster
<1> QED BY <1>2, <1>3, <1>5
        DEF SaveInv, AfterSave, SavedAtMostOnce, Hopeless, timers, roundVars

LEMMA SaveInvStep ==
  ASSUME TypeOK, NothingIsPaused, GameTimersTick, SaveInv, MidGameCountdown >= 2, [Next]_vars
  PROVE  SaveInv'
<1>1. ASSUME NEW s \in Sessions, OnJoin(s) PROVE SaveInv'
  BY <1>1, SaveInvFrame DEF OnJoin, timers, scores
<1>2. ASSUME NEW s \in Sessions, Leave(s) PROVE SaveInv'
  <2>1. CASE clients = {s}
    BY <1>2, <2>1, SaveInvDisposed DEF Leave, scores
  <2>2. CASE clients # {s}
    BY <1>2, <2>2, SaveInvFrame DEF Leave, timers, scores
  <2> QED BY <2>1, <2>2
<1>3. CASE NobodyJoins
  BY <1>3, SaveInvDisposed DEF NobodyJoins, scores
<1>4. ASSUME NEW s \in Sessions, Guess(s) PROVE SaveInv'
  <2>1. /\ phase = "open" /\ word /\ stopCurrentRoundOrGame
        /\ UNCHANGED <<words, round, database>>
    BY <1>4 DEF Guess, checkForWinner, roundVars
  <2>2. BeforeSave
    BY <2>1 DEF SaveInv, AfterSave
  <2> QED BY <2>1, <2>2, RoundStopsBeforeSave
<1>5. CASE GameTimerFires
  <2>1. /\ gameTimeInterval.on /\ UNCHANGED orphans /\ phase = "open"
        /\ GameTick(gameTimeInterval.job, Rewind(gameTimeInterval))
    BY <1>5 DEF GameTimerFires, Due, Running, GameTick, ClockRuns
  <2>2. /\ Rewind(gameTimeInterval).on = gameTimeInterval.on
        /\ Rewind(gameTimeInterval).job = gameTimeInterval.job
    BY FlowTypes, RewoundTimer
  <2>3. AfterSave /\ gameTimeInterval.job = "fourthCycle" => orphans' # <<>>
    BY <2>1 DEF AfterSave
  <2> QED BY <2>1, <2>2, <2>3, SaveInvTick
<1>6. ASSUME NEW i \in DOMAIN orphans, OrphanFires(i) PROVE SaveInv'
  <2>1. GameTick(orphans[i].job, gameTimeInterval) /\ DOMAIN orphans' = DOMAIN orphans
    BY <1>6 DEF OrphanFires
  <2>2. orphans' # <<>>
    BY <2>1
  <2> QED BY <2>1, <2>2, SaveInvTick
<1>7. CASE UNCHANGED vars
  BY <1>7, SaveInvFrame DEF vars, roster, timers, scores
<1> QED BY <1>1, <1>2, <1>3, <1>4, <1>5, <1>6, <1>7, SaveInvElapse, SaveInvWaiting,
           SaveInvTransition, SaveInvDatabase
        DEF Next, RoomStep, ClientStep, Clock

LEMMA InitSaveInv == Init => GameTimersTick /\ SaveInv
  BY DEF Init, GameTimersTick, SaveInv, BeforeSave, NothingSaved, Interval, Off

\* Whatever the client sends, the database is never asked to add more than the total
\* of the game: for count-downs between rounds of two seconds and more (they take
\* MID_GAME_COUNTDOWN = 5 seconds), a final count-down that starts after the save
\* never ends.
THEOREM NeverOverpaidAlways ==
  ASSUME MidGameCountdown >= 2
  PROVE  Spec => []NeverOverpaid
<1>1. TypeOK /\ SaveInv => NeverOverpaid
  <2> DEFINE asked == FoldSeq(+, 0, saving)
  <2> SUFFICES ASSUME TypeOK, SaveInv PROVE saved + asked <= totalScore
    BY Zenon DEF NeverOverpaid
  <2>1. \/ saving = <<>> /\ saved \in {0, totalScore}
        \/ saving = <<totalScore>> /\ saved = 0
    BY DEF SaveInv, BeforeSave, AfterSave, NothingSaved, SavedAtMostOnce
  <2>2. totalScore \in Nat
    BY FlowTypes
  <2>3. saving = <<>> => asked = 0
    BY SumOfNone, Zenon
  <2>4. saving = <<totalScore>> => asked = totalScore
    BY <2>2, SumOfOne, Zenon
  <2> HIDE DEF asked
  <2> QED BY <2>1, <2>2, <2>3, <2>4
<1>2. TypeOK /\ NothingIsPaused /\ CountdownIsBacked /\ [Next]_vars
        => NothingIsPaused' /\ CountdownIsBacked'
  BY CountdownStep
<1>3. TypeOK /\ GameTimersTick /\ [Next]_vars => GameTimersTick'
  BY GameTimersTickStep
<1>4. TypeOK /\ NothingIsPaused /\ GameTimersTick /\ SaveInv /\ [Next]_vars => SaveInv'
  BY SaveInvStep
<1> QED BY <1>1, <1>2, <1>3, <1>4, InitCountdown, InitSaveInv, SoloTypeCorrectness, PTL
        DEF Spec
=============================================================================
