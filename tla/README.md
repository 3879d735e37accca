# A verification project for lynx-backend

Lynx is a word guessing game: a NestJS application whose games are played in
Colyseus rooms, in memory, driven by timers, client messages and answers of the
database. This project models that part of it in TLA+, checks it with TLC on
small instances and proves the most important properties with TLAPS for every
value of the constants.

Paths are relative to the repository; `multiplayer.room.ts`, `solo.room.ts` and
`scheduled-games.service.ts` are in `src/logic/scheduled-games/`.

## The system

| Component | State | Operations | Talks to | Modelled in |
|---|---|---|---|---|
| Multiplayer room (`multiplayer.room.ts`, `states/`) | players, three score maps, votes, game state, round, cycle, clocks, words, four timer handles | join, leave, dispose, START_GAME, START_NEW_GAME, GUESS, PAUSE, RESUME, vote, timer callbacks, promise continuations | game service, scheduled games service, room clock | `MultiplayerRoom` |
| Solo room (`solo.room.ts`) | as above for one player; score to be saved | create, join, leave, GUESS, exit, timer callbacks, save | database, room clock | `SoloRoom` |
| Scheduled games service (`scheduled-games.service.ts`) | rows of scheduled games | create, getById | matchmaker, database, mail service | `ScheduledGames` |
| Mail service and consumer (`src/mail`) | the Bull queue | add, process | Redis, mail server | `ScheduledGames` |
| Game service (`src/logic/games`) | rows of games | create, findFirstByScheduledGameId, remove, REST queries | database | `Games`; seen from the room, as steps of the start chain in `MultiplayerRoom` |
| Presence gateway (`src/websocket`) | connectedUsers, Socket.IO rooms | connect, user-information, leave-room, voice, disconnect | clients | `Presence` |
| Words administration (`src/admin/words`) | rows of words | create, update, remove, findAll with two kinds of pagination | database | `Words` |
| Database schema (`prisma`) | | defaults, what a deletion takes with it | | in `Words`, `Games` and `ScheduledGames`, as far as they use it |
| LiveKit, authentication, bootstrap, filters, logging | none of their own | stateless or configuration of libraries | | not modelled |

Node runs one callback at a time, so there are no data races; what makes the
rooms hard is the *order* of callbacks:

* `startGame` and `restartGame` await the database twice. Between the awaits
  players guess, pause and leave, other start requests arrive, timers fire and
  the room may be disposed of. No message handler looks at the game state first.
* a room has up to four timers, held in handles that callbacks reassign; a
  callback acts on the handle, not on the timer it belongs to.
* pausing, resuming, restarting, winning and timing out each stop and create
  some of those timers.
* rooms live in memory, scheduled games and mail jobs do not.
* errors thrown in a timer callback end the process.
* queries of one operation are not in a transaction: words are deleted between
  picking them for a game and storing it, and between two pages of a list. The
  answers of two chains may also arrive in another order than they were computed.

`PROJECT.json` lists these hazards one by one with their lines and the properties
that catch them going wrong. A hazard without a property says why: mostly because
the code is exposed to it and no document says what should happen, in which case the
models contain it and the properties nearby excuse it.

## The modules

| Module | Content |
|---|---|
| `Delayed` | the timers of the room clock (external: `@colyseus/timer`): on/off, seconds left, paused, callback |
| `Cycles` | the four cycles of a round, shared by the two rooms |
| `MultiplayerRoom` | the multiplayer room: variables, actions, specifications |
| `MultiplayerRoomProperties` | its invariants, action and liveness properties, the inductive invariant `FlowInv`, the refinement mapping, and the claims it violates |
| `GameLifecycle` | the abstract specification: a session of games made of rounds, without timers, chains or handles |
| `MultiplayerRoomProofs`, `MultiplayerRoomRefinement` | the TLAPS proofs |
| `DelayedProofs` | what the operations on timers return, for the proofs about both rooms |
| `SoloRoom`, `SoloRoomProperties`, `SoloRoomProofs` | the solo room, what it should guarantee, the TLAPS proofs |
| `ScheduledGames`, `ScheduledGamesProofs` | the request that creates a scheduled game, its room, its invitations; the TLAPS proofs |
| `Presence`, `PresenceProofs` | the Socket.IO gateway: who is in which room and who has been told; the TLAPS proofs about it |
| `Words`, `WordsProofs` | the words table and the list an administrator scrolls through while others change the table; what each of its steps preserves |
| `Games`, `GamesProofs` | the games whose words are picked from that table: stored, loaded and removed by overlapping start chains; the TLAPS proofs about both |
| `MCMultiplayerRoom`, `MCSoloRoom`, `MCScheduledGames`, `MCPresence`, `MCGames` | values of constants for TLC |

An action is a whole handler, callback or continuation. In `MultiplayerRoom`:

| Code | Action |
|---|---|
| `onJoin`, `onLeave`, `onDispose` | `OnJoin`, `OnLeave`, `OnDispose` |
| the two callbacks stored in `disposeTimeout` | `DisposeTimeoutFires` |
| `startGame`, `restartGame` up to the await | `StartGame`, `RestartGame` |
| `.then` of `gameService.create` | `GameCreated(c)`, with `CreateFails(c)` for its rejection |
| `initiateGame` after its queries | `InitiateGame(n)`, with `FetchFails` when a query is rejected or finds nothing |
| `guess`, `pauseGame`, `resumeGame`, `voteForGameRestart` | `Guess`, `PauseGame`, `ResumeGame`, `VoteForGameRestart` |
| timeout of `startRoundWithCountdown` | `TransitionFires` |
| interval of `startRoundWithCountdown`, final interval of `stopCurrentRoundOrGame` | `WaitingFires` (jobs `count`, `finish`) |
| intervals of `firstCycle` .. `fourthCycle` | `GameTick` through `GameTimerFires`, or `OrphanFires` for a timer whose handle was reassigned |

The operators these are made of (`stopCurrentRoundOrGame`, `firstCycle`,
`startRoundWithCountdown`, `getUserScore`, `checkForWinner`, ...) keep the names of
the methods. `SoloRoom` is built the same way, with `Guess` for `handleGameWon`,
`GameIsOver` for the end of the final count-down and `SaveCompletes`/`SaveFails` for
the promise of the update. In `ScheduledGames` each await of `create` is a step
that may fail, every invitation has a mail job of its own, and `Restart` takes the
rooms and the requests in flight and leaves the rows and the queue. A request is for
an INSTANT or a FUTURE game; only the start of the latter is validated, so an INSTANT
game may start in the past or at no date at all (`Starts`). `Words` has
`CreateWord`, `UpdateWord`, `RemoveWord` for `create`, `update`, `remove`, and
`OpenList`, `MoreByCursor`, `MoreByOffset` for the calls of `findAll` that fetch the
first and the next page of a list. `Games` extends it: `WordsPicked` and `GameSent`
are the two queries of `GameService.create`, `GameStored` and `CreateFails` how the
second one (or either) ends, `FindGame` is the moment the database evaluates
`findFirstByScheduledGameId` for `initiateGame`, `LoadGame` the continuation that gets
the answer, in any order with those of other chains, `RemoveGame` is `remove`, and `LosesItsWord` is what deleting
a word does to stored games. `Next` of `Games` composes the two.

### Abstractions

* A word is whether there is one and which of its hidden cues are revealed; a
  word list is its length; a guess is whether it matches. A guess that does not
  match, a wrong vote value and the messages sent to clients change no state.
* The clock of a room advances by seconds (`Elapse`) when nothing that is due is
  left to fire. Timers due in the same second fire in any order, except that a
  count-down never fires before its own transition in the second in which both
  are due: the clock serves the newest timer first.
* A timer that no handle refers to is kept in `orphans`, a handle that is
  undefined, cleared or fired is `Off`.
* The disposal timeouts of `MultiplayerRoom` are minutes long and may fire at any
  time; `ScheduledGames` gives the idle timeout its length.
* Session ids are never reused: somebody who rejoins is a new session.
* The row chain of `startGame`: the game and its words are what `initiateGame`
  finds, a number from `WordCounts` (at most `MAX_ROUNDS_PER_GAME_LIMIT`, and
  fewer when the words table is short, or empty).
* Keys of words are numbers in the order of the alphabet and a search query is the
  set of the keys that contain it. Ids are given in ascending order. How PostgreSQL
  and Prisma page (the cursor row is part of the answer, a missing cursor row gives
  nothing, rows with equal keys come in any order, anew in every query) is modelled
  from the queries; the client that scrolls is not in the repository and does what
  the fields of `FindAllWordsDto` are named for.
* A game of `Games` has the name of the chain that stores it. Time stamps are numbers,
  and two games may get the same one. A solo game's `POST /games` is a chain that
  never gets to load.
* The solo room always lets its client in (`onAuth` returns the user) and saves a
  score only if its creator gave a `userId`.
* An exception in a timer callback or an unhandled rejection ends the process
  (`phase = "crashed"`): nothing in `src/` catches it.

## What is checked

| Run | Question | Instance |
|---|---|---|
| `room_open` | whatever clients send: types, scores, count-down, no dead ends, one award per round, disposed rooms inert | 2 sessions (symmetric), 2 start requests, 0 or 1 words, failing database |
| `room_flow` | in the README's game flow: timers, cues, count-down and words; refinement of `GameLifecycle`; a started game ends and idle rooms are disposed of | 2 sessions (one of which may come back as the other), 2 requests, 1 or 2 words, failing database |
| `room_orphan`, `room_rejoin`, `room_abandoned` | three claims of the repository that the code does not keep (see Findings) | 2 sessions or fewer |
| `solo` | any guesses: types, count-down, no dead ends, no overpayment; as long as guesses come during rounds: no overlap, cues, count-down, words, the total saved once and eventually | 2 sessions, 4 matching guesses, 0, 1 or 3 words |
| `solo_repeat` | a claim that the code does not keep | 1 session, 1 word |
| `schedule` | invitations, answers, lobbies, under failures and a restart | 1 request, 2 invitees, FUTURE and INSTANT games, starts up to 3 units ahead and, for INSTANT games, up to 3 units ago or unparsable |
| `schedule_far_ahead`, `schedule_instant` | two claims that the code does not keep | 1 request |
| `presence` | no user leaks; members of a room are told of its connected users and of each other | 3 sockets, 2 rooms (both symmetric) |
| `games` | scrolled lists show what was there all the time once; games are stored whole or not at all; no chain sets a game older than its own or than one that was set when it asked | 4 words, 2 keys, 2 queries, pages of 2; 2 chains (symmetric), games of 2 words |

*Bounds.* `MaxRequests` (start messages) and `MaxGuesses` (matching guesses) are
in the guards of the actions they bound. Two start requests are what it takes
for two chains to overlap; four guesses in a solo room pile up more timeouts
than there are words. `MinTime` stops a clock that an orphan drives below zero;
nothing new happens below -1, because every callback compares with zero. `room_flow`
runs `MCFairFlowSpec`, in which nobody votes: `votes` is counted and cleared and no
other part of the state depends on it. Cycle
times are 2, 1, 1, 1 seconds (3, 1, 2, 2 in the solo room), so that every branch
of a cycle is taken and the first cycle is not shorter than the count-down
between rounds, as in the code. The later cycles of the solo room are long enough for
the case `NeverOverpaid` is about: with 3, 1, 1, 1 and the other bounds as they are
no final count-down ever starts after the game was saved. Count-downs are of 1 or 2 seconds. Two sessions are
enough for a rival, a last player and somebody who comes back. Scheduled games do
not share state with each other, so one request is checked with every
interleaving of its own steps. Three sockets are enough for one to join, one to
leave and one to be told. Four words with pages of 2 give a list a first, a middle
and an empty or short last page, and more words than a game takes, so that which
ones are picked matters. `games` runs `MCSpec`: in one behaviour either a list is
scrolled or games are stored, and games are stored from tables of one key
(`OneActivity`). That loses nothing: a list and a game both only read the table, so
neither can tell whether the other is there, and games do not look at keys. Deadlock is not checked: a room rests when it is
disposed of, and while it waits for its players once the bounds are used up; nobody
has to go on editing words once `MaxWords` are used up.

*The game flow.* The handlers of START_GAME and START_NEW_GAME check nothing. The
README has a game started from the lobby and restarted afterwards; `FlowSpec`
restricts the clients to this, one start at a time. In the solo room the clients are
not restricted: the history variable `late` remembers a matching guess that came
outside a round, and `Orderly` (no such guess, and there are words) is the
condition of the second group of its properties. `disturbed` and `steady` are
histories of the same kind in `Words`. `OneRoomSpec` has a user of
the gateway announce one room and send a message when the last one has been
handled, which a round trip takes longer than. What holds only under these
restrictions is in a group of its own in the modules.

*Fairness.* Weak fairness of the room clock (a timer of the framework that runs as
long as the room), of the answers of the database (a promise is settled), of the
wall-clock timeouts, of the disposal by the framework and of the workers of the
mail queue. Nothing is assumed of players.

*Mutants.* Operators named `X_Slip` stand before `X` and are `X` with a plausible
slip; each property is violated when one of them takes the place of the
definition it is named after (`PROJECT.json` says which).

## Findings

Each is a violation run; the counterexamples are a few steps long.

* `room_orphan`: `firstCycle` takes the handle of a game timer that is still running
  when two start chains overlap (`multiplayer.room.ts:238`), although
  `docs/MEMORY_LEAK_FIXES.md` calls uncleared intervals fixed.
* `room_rejoin`: `onJoin` does not clear the timeout `onLeave` has armed
  (`multiplayer.room.ts:152`): players who came back are disconnected while they
  play.
* `room_abandoned`: a room whose last player leaves while the game is being created
  is never disposed of (`multiplayer.room.ts:93,147`).
* `solo_repeat`: a guess repeated between rounds is paid again
  (`solo.room.ts:262`). It also starts a second count-down, so that rounds overlap
  and words are skipped.
* `schedule_far_ahead`: `setTimeout` cannot wait longer than 2^31 - 1 ms, so the
  room of a game scheduled more than about 24 days ahead is disposed of at once
  (`multiplayer.room.ts:82`), although the comment above that line has it disposed of
  some time after the start.
* `schedule_instant`: invitations are queued for INSTANT games as for FUTURE ones
  (`scheduled-games.service.ts:54`), although the repository's `README.md:354` has
  them "sent via email (if FUTURE)". That the invitations do go out is therefore
  checked and proved for FUTURE games only.

## What is proved

Every invariant and every action property that a passing run checks is a theorem, for
all values of the constants that satisfy the named assumptions of the modules: that
sets are finite, times and counts numbers, model values distinct and the timeouts of a
lobby no longer than a timer can wait. The hypotheses added to these are two: `0 \notin WordCounts` and `MidGameCountdown >= 2`, each where
it is mentioned below.

### Multiplayer room (`MultiplayerRoomProofs`, `MultiplayerRoomRefinement`)

*Open behaviour (`Spec`).* `TypeCorrectness`; `ScoresNestAlways`, `OneScorerAlways`,
`AwardsCloseRoundsAlways`; `CountdownIsBackedAlways`, `PlayingMeansUnpausedAlways`,
`TimersKeepTheGameGoingAlways`, `LobbyIsWatchedAlways`, `DisposedRoomIsInertAlways`.
Most of these invariants are inductive together with the type invariant. The
score invariants additionally need each other: `OneScorerPerRound` is what makes
a new award start from zero points.

*Game flow (`FlowSpec`, with `0 \notin WordCounts`).* A step of the flow is a step of
the open behaviour by definition (the lemma `FlowIsOpen`), so everything above can be
used. `TimersMatchTheState`, `CuesMatchTheCycle`,
`CountdownIsHonest` and `EveryWordIsPlayed` are not inductive: that a callback finds
its word depends on the round being within the words, which depends on no chain
being able to replace the words, which depends on chains being in flight only while
no timer runs. `FlowInv` says for each game state what is known of the timers, the
chains, the round and the clocks; `FlowInvariance` proves it inductive, one step
per action, and the four properties follow from it. The assumption that games have words
is needed: with an empty words table the first revealed cue ends the process.

*Refinement.* `RoomImplementsLifecycle` (with the same assumption): under the mapping
`Lifecycle`, each step of the game flow is a step of `GameLifecycle` or stutters. So
rounds are played in order and one at a time, each is won at most once and paid by
its cycle, and session points survive restarts.

### Solo room (`SoloRoomProofs`)

*Whatever the client sends.* `SoloTypeCorrectness`; `SoloCountdownIsBackedAlways`, for
which it must be known that nothing pauses a timer and a timeout is dropped only by
firing (`NothingIsPaused`); `SoloTimersKeepTheGameGoingAlways`.

*No second save.* `NeverOverpaidAlways`, for `MidGameCountdown >= 2`; the code has 5
seconds. The handle of a game timer is lost when timeouts pile up, and a lost timer of
the fourth cycle ends the round, and so starts the final count-down, also after the game
was saved. The property holds for a reason of timing only, which `SaveInv` states. Before
the save, a game timer is set between rounds only by a lost timer (`BeforeSave`). After
it there is no word any more, and a final count-down that runs is `Hopeless`: the first
of the lost timers fires every second (`GameTimersTick`), before the second one of the
count-down, and then either starts it anew or, finding no word, ends the process. With
count-downs of one second the property is false; TLC finds a game saved twice for cycle
times 1, 2, 2, 2, four words and five guesses. The sum over the saves under way is
evaluated for none and for one (`SumOfNone`, `SumOfOne`), which is all there ever are.

*As long as guesses come during rounds.* `RoundsDoNotOverlap`, `CuesMatchTheCycle`,
`CountdownIsHonest`, `EveryWordIsPlayed` and `TotalIsSavedOnce` are properties of one
behaviour and depend on each other as in the multiplayer room. `OrderlyInv` has a game in
one of four states, `Starting`, `Playing`, `BetweenRounds` and `Over`, each of which
says which timers run, what has been revealed and what has been saved;
`OrderlyInvariance` proves it inductive. The condition that the game has words is part
of the properties here (`Orderly`), not of the theorems.

### Scheduled games and mail (`ScheduledGamesProofs`)

`ScheduleTypeCorrectness`, by which no timeout is ever set to a negative time.
`InvitationsAreReal`, `AnsweredMeansInvited` and `NoSpam` rest on `StagesFit` and
`JobsFit`: the stage of a request says whether it has a room, a row and jobs, and the
state of a job how often it may have been mailed. `AnsweredMeansInvited` is about
FUTURE games. `LobbyWaitsForStart` rests on
`LobbyFits`: as long as a lobby is open, its timeout has at least as far to go as the
start of the game, and `IdleTimeout` more.

### Presence (`PresenceProofs`)

For any sockets and rooms: `NoUserLeaksAlways`, whatever clients send, and
`RostersAreRightInOneRoom` (`NoGhosts`, also by itself, and `MembersKnowEachOther` under
`OneRoomSpec`). The latter are about what clients were told in the past; they become
inductive with `WaitingFits`, which ties a message that is being awaited to the room its
user announced, and `MembersAreUsers`, by which a roster computed from `connectedUsers`
has every member of the Socket.IO room.

### Words and games (`WordsProofs`, `GamesProofs`)

`ListsAreComplete` says what a list has shown when it is done; `ListInv` says it of
every page on the way. A list in the order of the ids has shown the steady words up to
its last one (`CursorSoFar`), and one sorted by key the words of the places up to its
offset (`SortedSoFar`). The lemmas of `WordsProofs` are about places: a page of `n` rows
is the `n` that follow, the place of a row is the number of rows up to it, and for
distinct keys every order that a query may return gives the same places.

`StoredGamesAreWhole` rests on `WholeGames`, which holds of a game from the moment its
words are picked until it is stored: a query that is rejected stores nothing, and a
deleted word leaves the game and its count together. `GamesMoveForward` rests on
`AnswersFit`, which holds of an answer from the moment the database computes it, long
before the chain sees it: the game was the newest of the stored ones, among which were
the chain's own and every game then before the players. It does not say that the room
never goes back: when the answers of two overlapping chains arrive in the other order
than they were computed in, the older game is set last.

### Only model-checked

Liveness (`GameEnds`, `IdleRoomsAreDisposed`, `TotalIsSaved`, `LobbiesAreReclaimed`,
`InvitationsGoOut`) is out of the prover's reach: the backends do not handle weak
fairness, which is about ENABLED. Induction over data is too; the folds of the models
are only evaluated where no induction is needed. The six violation runs show that
something can happen and have no theorem. The inductive invariants are proved, and no
run needs to check them any more.

## Not modelled

* The reads of the REST controllers (`findAll` and `findOne` of games, `getById` of
  scheduled games, `findOne` of words): one query each, which changes nothing.
  `GameService.getWords` is called by nothing.
* LiveKit tokens: one query, a check of the invitation and a token signed by a library.
* Authentication: configuration of a library; that a request has a user is an input.
* Bootstrap and shutdown: wiring of frameworks. Closing the database connection
  is not an event for a room, the client of Prisma reconnects at the next query.
* Exception filter and logging: formatting. That nothing catches an exception of a
  timer callback is part of the room models.
* The relaying of voice events in the gateway and the mail controller, which queues what
  it is sent: they keep no state.

Texts, names, e-mail addresses and the randomness of the words are abstracted away. A
client that creates a multiplayer room by itself, without the scheduled games
service, is left out.

## Plan

Done, in this order: `Delayed`, `MultiplayerRoom` with its properties, `GameLifecycle`
and the refinement, their proofs, `Cycles` and `SoloRoom`, `ScheduledGames`,
`Presence` and its proofs, `Words` and `Games`, and the proofs about the scheduled
games, the games and words, and the solo room.

Next:

1. A solo room whose clients guess in time as an implementation of an abstract
   specification in the manner of `GameLifecycle`, with the total saved at its end.
   `OrderlyInv` is the invariant its refinement proof needs.
2. `ScheduledGames` against an abstract specification of what a host sees: a game that
   is either announced to all of its invitees or answered with an error.
3. `PresenceProofs` for clients that change rooms, with what is then true of the room
   they have left.
4. A composition of `ScheduledGames` with the disposal of a started room, so that
   what a game start does to the lobby's timeout is covered end to end.
