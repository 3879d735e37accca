-------------------------------- MODULE Games --------------------------------
(***************************************************************************)
(* Stored games, from GameService (src/logic/games/games.service.ts),      *)
(* while the administrator of Words works on the table their words are     *)
(* picked from.                                                            *)
(*                                                                         *)
(* A game is stored by a start chain of a multiplayer room (startGame or   *)
(* restartGame), which then asks for the newest game of its scheduled game *)
(* and sets its words before the players; several chains of one room       *)
(* interleave, and their answers need not arrive in the order in which     *)
(* they were computed.  The POST /games of a solo game stores one in the   *)
(* same way and its room loads it by its id: that is a chain that never    *)
(* gets to load.  A game has the name of the chain that stores it.         *)
(***************************************************************************)
EXTENDS Words

CONSTANTS
  Chains,      \* the start chains of one room
  MaxRounds    \* MAX_ROUNDS_PER_GAME_LIMIT

ASSUME GamesAssumption == IsFiniteSet(Chains) /\ MaxRounds \in Nat

VARIABLES
  stage,       \* where a chain stands
  gameWords,   \* the words picked, then the words of the stored game
  createdAt,   \* the time stamp of a game
  now,         \* the last time stamp given
  removed,     \* games whose owner has deleted them (deletedAt, status)
  answer,      \* the newest game, as the database has told a chain
  earlier,     \* history: games that were before the players when it did
  wanted       \* history: how many words the game was to have, less those that
               \* were deleted since it was stored

games == <<stage, gameWords, createdAt, now, removed, answer, earlier, wanted>>
vars == <<table, listVars, games>>

Stages == {"none", "picked", "sent", "stored", "answered", "loaded", "failed"}
Stored(g) == stage[g] \in {"stored", "answered", "loaded"}

\* Every variable has its type.
TypeOK ==
  /\ WordsTypeOK
  /\ stage \in [Chains -> Stages]
  /\ gameWords \in [Chains -> SUBSET Ids]
  /\ now \in Nat /\ createdAt \in [Chains -> 0..now]
  /\ removed \subseteq Chains
  /\ answer \in [Chains -> SUBSET Chains] /\ earlier \in [Chains -> SUBSET Chains]
  /\ wanted \in [Chains -> 0..MaxRounds]

Init ==
  /\ WordsInit
  /\ stage = [g \in Chains |-> "none"]
  /\ gameWords = [g \in Chains |-> {}]
  /\ createdAt = [g \in Chains |-> 0] /\ now = 0
  /\ removed = {}
  /\ answer = [g \in Chains |-> {}] /\ earlier = [g \in Chains |-> {}]
  /\ wanted = [g \in Chains |-> 0]

-----------------------------------------------------------------------------
(* GameService.create *)

GameSize_NoLimit == Cardinality(DOMAIN words)
GameSize == Min({MaxRounds, Cardinality(DOMAIN words)})

\* ORDER BY random() LIMIT: any of them.
WordsPicked(g) ==
  /\ stage[g] = "none" /\ stage' = [stage EXCEPT ![g] = "picked"]
  /\ \E ids \in kSubset(GameSize, DOMAIN words):
       gameWords' = [gameWords EXCEPT ![g] = ids]
  /\ wanted' = [wanted EXCEPT ![g] = GameSize]
  /\ UNCHANGED <<createdAt, now, removed, answer, earlier>>

\* The second query is on its way; the game is stamped before it is committed,
\* and two games may get the same stamp.
GameSent(g) ==
  /\ stage[g] = "picked" /\ stage' = [stage EXCEPT ![g] = "sent"]
  /\ now' \in {now, now + 1}
  /\ createdAt' = [createdAt EXCEPT ![g] = now']
  /\ UNCHANGED <<gameWords, removed, answer, earlier, wanted>>

GameStored_WithWhatIsLeft(g) ==
  /\ stage[g] = "sent" /\ stage' = [stage EXCEPT ![g] = "stored"]
  /\ gameWords' = [gameWords EXCEPT ![g] = @ \cap DOMAIN words]
  /\ UNCHANGED <<createdAt, now, removed, answer, earlier, wanted>>
\* The row and its links are committed together, and only if every word that was
\* picked is still there to be connected.
GameStored(g) ==
  /\ stage[g] = "sent" /\ stage' = [stage EXCEPT ![g] = "stored"]
  /\ gameWords[g] \subseteq DOMAIN words
  /\ UNCHANGED <<gameWords, createdAt, now, removed, answer, earlier, wanted>>

\* One of the two queries is rejected: nothing is left of the game.
CreateFails(g) ==
  /\ stage[g] \in {"picked", "sent"} /\ stage' = [stage EXCEPT ![g] = "failed"]
  /\ gameWords' = [gameWords EXCEPT ![g] = {}]
  /\ createdAt' = [createdAt EXCEPT ![g] = 0]
  /\ wanted' = [wanted EXCEPT ![g] = 0]
  /\ UNCHANGED <<now, removed, answer, earlier>>

-----------------------------------------------------------------------------
(* Reading and removing games *)

OfTheRoom == {g \in Chains: Stored(g)}

\* The newest of the room's games, removed or not.
findFirstByScheduledGameId_Unordered == OfTheRoom
findFirstByScheduledGameId ==
  {g \in OfTheRoom: \A other \in OfTheRoom: createdAt[other] <= createdAt[g]}

\* The games that chains have set before the players.
Shown == UNION {answer[g]: g \in {h \in Chains: stage[h] = "loaded"}}

\* initiateGame asks for the game once its own is stored (and getById has found
\* the scheduled game): the database computes the answer.  When one of the
\* queries is rejected, here or later, the chain ends and nothing is changed.
FindGame(g) ==
  /\ stage[g] = "stored" /\ stage' = [stage EXCEPT ![g] = "answered"]
  /\ \E game \in findFirstByScheduledGameId: answer' = [answer EXCEPT ![g] = {game}]
  /\ earlier' = [earlier EXCEPT ![g] = Shown]
  /\ UNCHANGED <<gameWords, createdAt, now, removed, wanted>>

\* The answer has arrived: the room gets the words of that game, whatever has
\* been stored or loaded by others since it was computed.
LoadGame(g) ==
  /\ stage[g] = "answered" /\ stage' = [stage EXCEPT ![g] = "loaded"]
  /\ UNCHANGED <<gameWords, createdAt, now, removed, answer, earlier, wanted>>

\* remove: the row stays.
RemoveGame(g) ==
  /\ Stored(g) /\ removed' = removed \cup {g}
  /\ UNCHANGED <<stage, gameWords, createdAt, now, answer, earlier, wanted>>

-----------------------------------------------------------------------------
(* Specification *)

GameStep(g) ==
  \/ WordsPicked(g) \/ GameSent(g) \/ GameStored(g) \/ CreateFails(g)
  \/ FindGame(g) \/ LoadGame(g) \/ RemoveGame(g)

\* A word that is deleted disappears from the games that are stored.
LosesItsWord(id) ==
  LET losers == {g \in Chains: Stored(g) /\ id \in gameWords[g]} IN
  /\ gameWords' = [g \in Chains |-> IF g \in losers THEN gameWords[g] \ {id}
                                                     ELSE gameWords[g]]
  /\ wanted' = [g \in Chains |-> IF g \in losers THEN wanted[g] - 1 ELSE wanted[g]]
  /\ UNCHANGED <<stage, createdAt, now, removed, answer, earlier>>

Next ==
  \/ \E g \in Chains: GameStep(g) /\ UNCHANGED <<table, listVars>>
  \/ \E key \in Keys: CreateWord(key) /\ UNCHANGED games
  \/ \E id \in Ids, key \in Keys: UpdateWord(id, key) /\ UNCHANGED games
  \/ \E id \in Ids: RemoveWord(id) /\ LosesItsWord(id)
  \/ Scroll /\ UNCHANGED games

Spec == Init /\ [][Next]_vars

-----------------------------------------------------------------------------
(* Properties *)

\* A stored game has as many words as it was to have when they were picked, for
\* all that happened to the table before it was stored; only the deletion of one
\* of its words makes it smaller, and a deleted word is in no stored game.
StoredGamesAreWhole ==
  \A g \in Chains: Stored(g) =>
    gameWords[g] \subseteq DOMAIN words /\ Cardinality(gameWords[g]) = wanted[g]

\* A start chain never sets an older game before the players than the one it has
\* stored itself, nor one older than a game they had when the database was asked:
\* whatever the owner deletes, a restart does not bring back an earlier game.  (Of
\* two games stored in the same millisecond neither is the earlier one.  A game
\* that was set since the database was asked may be newer: the answers of two
\* overlapping chains can arrive in either order.)
GamesMoveForward ==
  \A g \in Chains: stage[g] = "loaded" =>
    \A game \in answer[g], older \in {g} \cup earlier[g]:
      createdAt[older] <= createdAt[game]
=============================================================================
