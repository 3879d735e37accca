------------------------------ MODULE SoloRoom ------------------------------
(***************************************************************************)
(* One Colyseus room of a solo game, from                                  *)
(* src/logic/scheduled-games/solo.room.ts and states/solo-room.state.ts.   *)
(* The abstractions are those of MultiplayerRoom: every handler, timer     *)
(* callback and promise continuation is one action, a word is whether the  *)
(* room has one and which hidden cues are revealed, a guess is whether it  *)
(* matches, and the clock advances by seconds.  A definition X_Slip is X   *)
(* with a plausible slip in it, as there.                                  *)
(*                                                                         *)
(* The room starts its count-down as soon as it is created and has no      *)
(* lobby, no pause and no restart.  It keeps a handle of its two intervals *)
(* but none of the timeout that starts a round.  It saves the total of the *)
(* game from a timer callback whose promise nobody awaits.                 *)
(***************************************************************************)
EXTENDS Integers, Sequences, FiniteSets, Cycles, SequencesExt

CONSTANTS
  Sessions,          \* ids of the client sessions; an id is never reused
  NoSession,         \* winner === null
  CycleTime,         \* FIRST_CYCLE_TIME .. FOURTH_CYCLE_TIME, in seconds
  StartCountdown,    \* START_COUNTDOWN, in seconds
  MidGameCountdown,  \* MID_GAME_COUNTDOWN, in seconds
  WordCounts,        \* the lengths a stored game's word list may have
  MaxGuesses,        \* bound: guesses that match
  MinTime            \* bound: the clock stops before `time` falls below it

ASSUME SessionsAssumption == IsFiniteSet(Sessions) /\ NoSession \notin Sessions
ASSUME TimesAssumption ==
  /\ CycleTime \in [1..4 -> Nat \ {0}]
  /\ StartCountdown \in Nat /\ MidGameCountdown \in Nat \ {0}
ASSUME LimitsAssumption ==
  WordCounts \subseteq Nat /\ MaxGuesses \in Nat /\ MinTime \in Int /\ MinTime <= 0

VARIABLES
  phase,                     \* open, disposed; crashed: the process died
  clients, joined,           \* the sessions in the room, those that ever joined
  gameState, round, cycle, time, waitingCountdownTime,
  words, word, shown, winner, score, totalScore,
  waitingCountdownInterval, gameTimeInterval,
  transitions,               \* the timeouts of createCountdown, oldest first
  orphans,                   \* running game timers no handle refers to any more
  saving,                    \* scores the database is being asked to add
  saved,                     \* what this game has added to the user's score
  userId,                    \* whether the client that created the room gave one
  guesses,                   \* guesses that matched so far
  late                       \* history: one of them outside a round being played

roster == <<phase, clients, joined>>
roundVars == <<round, cycle, time, word, shown, words>>
scores == <<winner, score, totalScore>>
timers == <<waitingCountdownInterval, gameTimeInterval, transitions, orphans>>
database == <<saving, saved>>
client == <<userId, guesses, late>>
vars == <<roster, gameState, waitingCountdownTime, roundVars, scores, timers,
          database, client>>

\* Every variable has its type.
TypeOK ==
  /\ phase \in {"open", "disposed", "crashed"}
  /\ clients \subseteq joined /\ joined \subseteq Sessions
  /\ gameState \in {"START_COUNTDOWN", "GAME_STARTED", "ROUND_END", "GAME_END"}
  /\ round \in Nat /\ cycle \in 1..4
  /\ time \in Int /\ waitingCountdownTime \in Int
  /\ words \in Nat /\ word \in BOOLEAN /\ shown \subseteq 2..4
  /\ winner \in Sessions \cup {NoSession}
  /\ score \in Nat /\ totalScore \in Nat
  /\ waitingCountdownInterval \in Timer({"count", "finish"})
  /\ gameTimeInterval \in Timer(CycleJobs)
  /\ gameTimeInterval.on => gameTimeInterval.job \in CycleJobs
  /\ transitions \in Seq(Timer({"startRound"}))
  /\ orphans \in Seq(CycleTimer)
  /\ saving \in Seq(Nat) /\ saved \in Nat
  /\ userId \in BOOLEAN /\ guesses \in Nat /\ late \in BOOLEAN

\* createCountdown: the old interval is cleared by being replaced, an old timeout
\* stays.
createCountdown_AtOnce(seconds) ==
  /\ waitingCountdownInterval' = Interval("count")
  /\ transitions' = Append(transitions, Timeout(seconds, "startRound"))
createCountdown(seconds) ==
  /\ waitingCountdownInterval' = Interval("count")
  /\ transitions' = Append(transitions, Timeout(seconds + 1, "startRound"))

\* onCreate has resolved: the words are loaded and the count-down runs.
Init ==
  /\ phase = "open" /\ clients = {} /\ joined = {}
  /\ gameState = "START_COUNTDOWN" /\ waitingCountdownTime = StartCountdown
  /\ round = 0 /\ cycle = 1 /\ time = CycleTime[1]
  /\ words \in WordCounts /\ word = FALSE /\ shown = {}
  /\ winner = NoSession /\ score = 0 /\ totalScore = 0
  /\ waitingCountdownInterval = Interval("count") /\ gameTimeInterval = Off
  /\ transitions = <<Timeout(StartCountdown + 1, "startRound")>>
  /\ orphans = <<>>
  /\ saving = <<>> /\ saved = 0
  /\ userId \in BOOLEAN /\ guesses = 0 /\ late = FALSE

-----------------------------------------------------------------------------
(* Clients and disposal *)

\* onJoin looks for the user id where onAuth did not put it (auth is the user of
\* the session, not the session): it changes nothing.
OnJoin(s) ==
  /\ phase = "open"
  /\ s \in Sessions \ joined
  /\ clients' = clients \cup {s} /\ joined' = joined \cup {s}
  /\ UNCHANGED <<phase, gameState, waitingCountdownTime, roundVars, scores,
                 timers, database, client>>

\* onDispose clears the two handles; the framework then clears every other timer
\* of the room clock and stops it.
OnDispose ==
  /\ phase' = "disposed"
  /\ waitingCountdownInterval' = Off /\ gameTimeInterval' = Off
  /\ transitions' = <<>> /\ orphans' = <<>>

\* The connection is lost, or the client sent 'exit'.  The framework disposes a
\* room with its last client.
Leave(s) ==
  /\ phase = "open"
  /\ s \in clients /\ clients' = clients \ {s}
  /\ IF clients = {s} THEN OnDispose ELSE UNCHANGED <<phase, timers>>
  /\ UNCHANGED <<joined, gameState, waitingCountdownTime, roundVars, scores,
                 database, client>>

\* The framework also disposes a room whose seat nobody takes.
NobodyJoins ==
  /\ phase = "open" /\ joined = {}
  /\ OnDispose
  /\ UNCHANGED <<clients, joined, gameState, waitingCountdownTime, roundVars,
                 scores, database, client>>

-----------------------------------------------------------------------------
(* Rounds *)

WordsLeft_OneTooMany == words >= round
WordsLeft == words > round

stopCurrentRoundOrGame_KeepsTimer ==
  /\ gameState' = "ROUND_END"
  /\ waitingCountdownTime' = MidGameCountdown
  /\ UNCHANGED gameTimeInterval
  /\ IF WordsLeft
     THEN createCountdown(MidGameCountdown)
     ELSE waitingCountdownInterval' = Interval("finish") /\ UNCHANGED transitions
stopCurrentRoundOrGame ==
  /\ gameState' = "ROUND_END"
  /\ waitingCountdownTime' = MidGameCountdown
  /\ gameTimeInterval' = Off
  /\ IF WordsLeft
     THEN createCountdown(MidGameCountdown)
     ELSE waitingCountdownInterval' = Interval("finish") /\ UNCHANGED transitions

\* A game timer that is still running loses its handle to the new one.
firstCycle ==
  /\ round' = round + 1
  /\ cycle' = 1 /\ time' = CycleTime[1]
  /\ word' = (words > round) /\ shown' = {}
  /\ winner' = NoSession /\ score' = 0
  /\ gameTimeInterval' = Interval("firstCycle")
  /\ orphans' = IF gameTimeInterval.on THEN Append(orphans, gameTimeInterval)
                                       ELSE orphans

\* The only condition is that there is a word; it stays until the next round.
checkForWinner == word

\* A guess that matches: handleGameWon.
Guess(s) ==
  /\ phase = "open" /\ s \in clients
  /\ guesses < MaxGuesses /\ guesses' = guesses + 1
  /\ late' = (late \/ gameState # "GAME_STARTED")
  /\ checkForWinner
  /\ score' = CycleScore(cycle) /\ totalScore' = totalScore + CycleScore(cycle)
  /\ winner' = s
  /\ stopCurrentRoundOrGame
  /\ UNCHANGED <<roster, roundVars, orphans, database, userId>>

-----------------------------------------------------------------------------
(* The room clock *)

ClockRuns == phase = "open"

\* A second passes once everything due in the last one has fired.
Elapse ==
  /\ ClockRuns
  /\ \/ Running(waitingCountdownInterval) \/ Running(gameTimeInterval)
     \/ transitions # <<>> \/ orphans # <<>>
  /\ ~Due(waitingCountdownInterval) /\ ~Due(gameTimeInterval)
  /\ \A i \in DOMAIN transitions: ~Due(transitions[i])
  /\ \A i \in DOMAIN orphans: ~Due(orphans[i])
  /\ waitingCountdownInterval' = Age(waitingCountdownInterval)
  /\ gameTimeInterval' = Age(gameTimeInterval)
  /\ transitions' = [i \in DOMAIN transitions |-> Age(transitions[i])]
  /\ orphans' = [i \in DOMAIN orphans |-> Age(orphans[i])]
  /\ UNCHANGED <<roster, gameState, waitingCountdownTime, roundVars, scores,
                 database, client>>

\* The timeout clears whatever waiting interval there is when it fires.
TransitionFires_CountdownStays(i) ==
  /\ ClockRuns /\ Due(transitions[i])
  /\ transitions' = RemoveAt(transitions, i)
  /\ gameState' = "GAME_STARTED"
  /\ firstCycle
  /\ UNCHANGED <<roster, waitingCountdownTime, waitingCountdownInterval, words,
                 totalScore, database, client>>
TransitionFires(i) ==
  /\ ClockRuns /\ Due(transitions[i])
  /\ transitions' = RemoveAt(transitions, i)
  /\ gameState' = "GAME_STARTED"
  /\ firstCycle
  /\ waitingCountdownInterval' = Off
  /\ UNCHANGED <<roster, waitingCountdownTime, words, totalScore, database, client>>

\* The final count-down is over: the total is on its way to the database.
setUserScoreOnDatabase_RoundOnly == saving' = Append(saving, score)
setUserScoreOnDatabase == saving' = Append(saving, totalScore)

GameIsOver_IntervalRuns ==
  /\ waitingCountdownInterval.job = "finish" /\ waitingCountdownTime <= 1
  /\ gameState' = "GAME_END" /\ time' = 0 /\ word' = FALSE /\ shown' = {}
  /\ waitingCountdownInterval' = Rewind(waitingCountdownInterval)
  /\ setUserScoreOnDatabase
GameIsOver ==
  /\ waitingCountdownInterval.job = "finish" /\ waitingCountdownTime <= 1
  /\ gameState' = "GAME_END" /\ time' = 0 /\ word' = FALSE /\ shown' = {}
  /\ waitingCountdownInterval' = Off
  /\ setUserScoreOnDatabase

CountdownGoesOn ==
  /\ waitingCountdownInterval.job = "count" \/ waitingCountdownTime > 1
  /\ waitingCountdownInterval' = Rewind(waitingCountdownInterval)
  /\ UNCHANGED <<gameState, time, word, shown, saving>>

\* The interval of createCountdown ("count") or the final one of
\* stopCurrentRoundOrGame ("finish").  The clock serves the newest timer first,
\* so a count-down that falls due together with its own transition, the last
\* one created, is cleared by it.
WaitingFires ==
  /\ ClockRuns /\ Due(waitingCountdownInterval)
  /\ waitingCountdownInterval.job = "count" /\ transitions # <<>> =>
       ~Due(Last(transitions))
  /\ waitingCountdownTime' = waitingCountdownTime - 1
  /\ GameIsOver \/ CountdownGoesOn
  /\ UNCHANGED <<roster, round, cycle, words, scores, gameTimeInterval,
                 transitions, orphans, saved, client>>

\* The interval callback that firstCycle .. fourthCycle create; as in
\* MultiplayerRoom it acts on the timer the handle refers to when it runs, and
\* `rewound` is that timer if the callback leaves the handle alone.
CountsDown(rewound) ==
  /\ time > 1
  /\ time' = time - 1
  /\ gameTimeInterval' = rewound
  /\ UNCHANGED <<phase, gameState, cycle, word, shown, waitingCountdownTime,
                 waitingCountdownInterval, transitions>>

RevealedCue_Previous(job) == CycleOf[job]
RevealedCue(job) == CycleOf[job] + 1

RevealsNextCue_ClearsLast(job) ==
  /\ time <= 1 /\ job # "fourthCycle" /\ word
  /\ time' = CycleTime[CycleOf[job] + 1]
  /\ cycle' = CycleOf[job] + 1 /\ shown' = shown \cup {RevealedCue(job)}
  /\ gameTimeInterval' = Off
  /\ UNCHANGED <<phase, gameState, word, waitingCountdownTime,
                 waitingCountdownInterval, transitions>>
RevealsNextCue(job) ==
  /\ time <= 1 /\ job # "fourthCycle" /\ word
  /\ time' = CycleTime[CycleOf[job] + 1]
  /\ cycle' = CycleOf[job] + 1 /\ shown' = shown \cup {RevealedCue(job)}
  /\ gameTimeInterval' = Interval(NextJob[job])
  /\ UNCHANGED <<phase, gameState, word, waitingCountdownTime,
                 waitingCountdownInterval, transitions>>

\* state.word is undefined: a TypeError nobody catches ends the process.
MissesTheWord(job) ==
  /\ time <= 1 /\ job # "fourthCycle" /\ ~word
  /\ time' = CycleTime[CycleOf[job] + 1]
  /\ phase' = "crashed"
  /\ UNCHANGED <<gameState, cycle, word, shown, waitingCountdownTime,
                 waitingCountdownInterval, gameTimeInterval, transitions>>

TimesOut(job) ==
  /\ time <= 1 /\ job = "fourthCycle"
  /\ time' = time - 1
  /\ stopCurrentRoundOrGame
  /\ UNCHANGED <<phase, cycle, word, shown>>

GameTick(job, rewound) ==
  /\ ClockRuns /\ time > MinTime
  /\ CountsDown(rewound) \/ RevealsNextCue(job) \/ MissesTheWord(job) \/ TimesOut(job)
  /\ UNCHANGED <<clients, joined, round, words, scores, database, client>>

GameTimerFires ==
  /\ Due(gameTimeInterval)
  /\ GameTick(gameTimeInterval.job, Rewind(gameTimeInterval))
  /\ UNCHANGED orphans

OrphanFires(i) ==
  /\ Due(orphans[i])
  /\ GameTick(orphans[i].job, gameTimeInterval)
  /\ orphans' = [orphans EXCEPT ![i] = Rewind(@)]

-----------------------------------------------------------------------------
(* The database *)

\* The update is answered, whatever has become of the room meanwhile.
SaveCompletes(i) ==
  /\ phase # "crashed" /\ userId
  /\ saved' = saved + saving[i] /\ saving' = RemoveAt(saving, i)
  /\ UNCHANGED <<roster, gameState, waitingCountdownTime, roundVars, scores,
                 timers, client>>

\* The update is rejected, by the database or for want of a user id, in a promise
\* nobody awaits: the process ends.
SaveFails(i) ==
  /\ phase # "crashed" /\ phase' = "crashed"
  /\ saving' = RemoveAt(saving, i)
  /\ UNCHANGED <<clients, joined, gameState, waitingCountdownTime, roundVars,
                 scores, timers, saved, client>>

-----------------------------------------------------------------------------
(* Specifications *)

Clock ==
  \/ Elapse \/ WaitingFires \/ GameTimerFires
  \/ \E i \in DOMAIN transitions: TransitionFires(i)
  \/ \E i \in DOMAIN orphans: OrphanFires(i)

Database == \E i \in DOMAIN saving: SaveCompletes(i) \/ SaveFails(i)

RoomStep == Clock \/ Database \/ NobodyJoins
ClientStep == \E s \in Sessions: OnJoin(s) \/ Leave(s)

\* A client may guess whenever it likes.
Next == RoomStep \/ ClientStep \/ \E s \in Sessions: Guess(s)
Spec == Init /\ [][Next]_vars

\* The clock keeps ticking and the database answers.
Fairness == WF_vars(Clock) /\ WF_vars(Database)
FairSpec == Spec /\ Fairness
=============================================================================
