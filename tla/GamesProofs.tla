----------------------------- MODULE GamesProofs -----------------------------
(***************************************************************************)
(* What Games promises for any number of start chains, any table and any   *)
(* limits.  A game keeps its number of words through everything that       *)
(* happens to the table (WholeGames), which is also what keeps that number *)
(* from falling below zero; an answer names a game that stays stored and   *)
(* was the newest when it was computed (AnswersFit), which it need not be  *)
(* any more when it arrives; and what a list has shown is ListInv of       *)
(* WordsProofs.                                                            *)
(***************************************************************************)
EXTENDS Games, WordsProofs

\* A game has the words it was to have, and once it is stored they exist.
WholeGames ==
  \A g \in Chains:
    /\ Cardinality(gameWords[g]) = wanted[g]
    /\ Stored(g) => gameWords[g] \subseteq DOMAIN words

\* An answer is about games that are stored for good, so their stamps no longer
\* change, and it was the newest of them.
AnswersFit == \A g \in Chains:
  /\ answer[g] \subseteq OfTheRoom /\ earlier[g] \subseteq OfTheRoom
  /\ answer[g] # {} => g \in OfTheRoom
  /\ \A game \in answer[g], older \in {g} \cup earlier[g]:
       createdAt[older] <= createdAt[game]

IInv == TypeOK /\ ListInv /\ WholeGames /\ AnswersFit

-----------------------------------------------------------------------------
(* Words of games *)

\* The number of words of a new game is a number within its limit.
LEMMA GameSizeIsNatural ==
  ASSUME WordsTypeOK
  PROVE  GameSize \in 0..MaxRounds
<1> DEFINE n == Cardinality(DOMAIN words)
<1>1. IsFiniteSet(DOMAIN words)
  BY RowsAreFinite
<1>2. n \in Nat /\ MaxRounds \in Nat
  BY <1>1, FS_CardinalityType, GamesAssumption
<1> HIDE DEF n
<1>3. \E x \in {MaxRounds, n}: \A y \in {MaxRounds, n}: x <= y
  BY <1>2
<1>4. Min({MaxRounds, n}) \in {MaxRounds, n} /\ \A y \in {MaxRounds, n}: Min({MaxRounds, n}) <= y
  BY <1>3 DEF Min
<1>5. GameSize = Min({MaxRounds, n})
  BY DEF GameSize, n
<1> QED BY <1>2, <1>4, <1>5

\* A set of words without one of them has one less.
LEMMA OneWordLess ==
  ASSUME NEW ids \in SUBSET Ids, NEW id
  PROVE  /\ IsFiniteSet(ids) /\ Cardinality(ids) \in Nat
         /\ id \in ids => Cardinality(ids) > 0 /\ Cardinality(ids \ {id}) = Cardinality(ids) - 1
<1>1. IsFiniteSet(Ids)
  BY SizesAssumption, FS_Interval DEF Ids
<1>2. IsFiniteSet(ids)
  BY <1>1, FS_Subset
<1>3. Cardinality(ids) \in Nat
  BY <1>2, FS_CardinalityType
<1>4. ASSUME id \in ids
      PROVE  Cardinality(ids) > 0 /\ Cardinality(ids \ {id}) = Cardinality(ids) - 1
  <2>1. Cardinality(ids \ {id}) = Cardinality(ids) - 1
    BY <1>2, <1>4, FS_RemoveElement
  <2>2. Cardinality(ids) # 0
    BY <1>2, <1>4, FS_EmptySet
  <2> QED BY <1>3, <2>1, <2>2
<1> QED BY <1>2, <1>3, <1>4

-----------------------------------------------------------------------------
(* The inductive invariant *)

\* Every step is one of the table or the list and one of the games.
LEMMA NextIsWordsNext == [Next]_vars => WordsNext
  BY DEF Next, vars, WordsNext

LEMMA InitIInv == Init => IInv
<1> SUFFICES ASSUME Init PROVE IInv
  OBVIOUS
<1>1. WordsTypeOK /\ ListInv
  BY WordsInitTypeOK, ListInvInit DEF Init
<1>2. TypeOK
  BY <1>1, GamesAssumption DEF Init, TypeOK, Stages
<1>3. WholeGames
  BY FS_EmptySet DEF Init, WholeGames, Stored
<1>4. AnswersFit
  BY DEF Init, AnswersFit
<1> QED BY <1>1, <1>2, <1>3, <1>4 DEF IInv

\* No answer is disturbed while the stored games stay stored with their stamps.
LEMMA AnswersStand ==
  ASSUME AnswersFit, UNCHANGED <<answer, earlier>>, OfTheRoom \subseteq OfTheRoom',
         \A g \in OfTheRoom: createdAt'[g] = createdAt[g]
  PROVE  AnswersFit'
<1> SUFFICES ASSUME NEW g \in Chains
             PROVE  /\ answer[g] \subseteq OfTheRoom' /\ earlier[g] \subseteq OfTheRoom'
                    /\ answer[g] # {} => g \in OfTheRoom'
                    /\ \A game \in answer[g], older \in {g} \cup earlier[g]:
                         createdAt'[older] <= createdAt'[game]
  BY DEF AnswersFit
<1>1. /\ answer[g] \subseteq OfTheRoom /\ earlier[g] \subseteq OfTheRoom
      /\ answer[g] # {} => g \in OfTheRoom
      /\ \A game \in answer[g], older \in {g} \cup earlier[g]:
           createdAt[older] <= createdAt[game]
  BY DEF AnswersFit
<1>2. ASSUME NEW game \in answer[g], NEW older \in {g} \cup earlier[g]
      PROVE  createdAt'[older] <= createdAt'[game]
  <2>1. game \in OfTheRoom /\ older \in OfTheRoom
    BY <1>1, <1>2
  <2>2. createdAt'[game] = createdAt[game] /\ createdAt'[older] = createdAt[older]
    BY <2>1
  <2> QED BY <1>1, <1>2, <2>2
<1> QED BY <1>1, <1>2

\* A step of a chain or of an owner, with the table as it is.
LEMMA GameStepIInv ==
  ASSUME IInv, WordsTypeOK', ListInv', UNCHANGED <<table, listVars>>,
         NEW g \in Chains, GameStep(g)
  PROVE  IInv'
<1> USE DEF IInv, TypeOK
<1>1. DOMAIN words' = DOMAIN words
  BY DEF table
<1>2. CASE WordsPicked(g)
  <2>1. PICK ids \in kSubset(GameSize, DOMAIN words): gameWords' = [gameWords EXCEPT ![g] = ids]
    BY <1>2 DEF WordsPicked
  <2>2. ids \in SUBSET DOMAIN words /\ Cardinality(ids) = GameSize
    BY <2>1 DEF kSubset
  <2>3. ids \in SUBSET Ids /\ GameSize \in 0..MaxRounds
    BY <2>2, RowsAreFinite, GameSizeIsNatural
  <2>4. stage[g] = "none" /\ stage' = [stage EXCEPT ![g] = "picked"]
        /\ wanted' = [wanted EXCEPT ![g] = GameSize]
        /\ UNCHANGED <<createdAt, now, removed, answer, earlier>>
    BY <1>2 DEF WordsPicked
  <2>5. TypeOK'
    BY <2>1, <2>3, <2>4 DEF Stages
  <2>6. WholeGames'
    BY <1>1, <2>1, <2>2, <2>3, <2>4 DEF WholeGames, Stored
  <2>7. AnswersFit'
    BY <2>4, AnswersStand DEF OfTheRoom, Stored
  <2> QED BY <2>5, <2>6, <2>7
<1>3. CASE GameSent(g)
  <2>1. TypeOK'
    BY <1>3 DEF GameSent, Stages
  <2>2. WholeGames'
    BY <1>1, <1>3 DEF GameSent, WholeGames, Stored
  <2>3. AnswersFit'
    BY <1>3, AnswersStand DEF GameSent, OfTheRoom, Stored
  <2> QED BY <2>1, <2>2, <2>3
<1>4. CASE GameStored(g)
  <2>1. TypeOK'
    BY <1>4 DEF GameStored, Stages
  <2>2. WholeGames'
    BY <1>1, <1>4 DEF GameStored, WholeGames, Stored
  <2>3. AnswersFit'
    BY <1>4, AnswersStand DEF GameStored, OfTheRoom, Stored
  <2> QED BY <2>1, <2>2, <2>3
<1>5. CASE CreateFails(g)
  <2>1. TypeOK'
    BY <1>5, GamesAssumption DEF CreateFails, Stages
  <2>2. WholeGames'
    BY <1>1, <1>5, FS_EmptySet DEF CreateFails, WholeGames, Stored
  <2>3. AnswersFit'
    BY <1>5, AnswersStand DEF CreateFails, OfTheRoom, Stored
  <2> QED BY <2>1, <2>2, <2>3
<1>6. CASE FindGame(g)
  <2>1. PICK game \in findFirstByScheduledGameId: answer' = [answer EXCEPT ![g] = {game}]
    BY <1>6 DEF FindGame
  <2>2. game \in OfTheRoom /\ \A other \in OfTheRoom: createdAt[other] <= createdAt[game]
    BY <2>1 DEF findFirstByScheduledGameId
  <2>3. /\ stage[g] = "stored" /\ stage' = [stage EXCEPT ![g] = "answered"]
        /\ earlier' = [earlier EXCEPT ![g] = Shown]
        /\ UNCHANGED <<gameWords, createdAt, now, removed, wanted>>
    BY <1>6 DEF FindGame
  <2>4. Shown \subseteq OfTheRoom /\ g \in OfTheRoom
    BY <2>3 DEF Shown, AnswersFit, OfTheRoom, Stored
  <2>5. OfTheRoom' = OfTheRoom
    BY <2>3 DEF OfTheRoom, Stored
  <2>6. TypeOK'
    BY <2>1, <2>2, <2>3, <2>4 DEF OfTheRoom, Stages
  <2>7. WholeGames'
    BY <1>1, <2>3 DEF WholeGames, Stored
  <2>8. AnswersFit'
    <3> SUFFICES ASSUME NEW h \in Chains
                 PROVE  /\ answer'[h] \subseteq OfTheRoom /\ earlier'[h] \subseteq OfTheRoom
                        /\ answer'[h] # {} => h \in OfTheRoom
                        /\ \A new \in answer'[h], older \in {h} \cup earlier'[h]:
                             createdAt[older] <= createdAt[new]
      BY <2>3, <2>5 DEF AnswersFit
    <3>1. CASE h = g
      <4>1. answer'[h] = {game} /\ earlier'[h] = Shown
        BY <2>1, <2>3, <3>1
      <4> QED BY <2>2, <2>4, <3>1, <4>1
    <3>2. CASE h # g
      <4>1. answer'[h] = answer[h] /\ earlier'[h] = earlier[h]
        BY <2>1, <2>3, <3>2
      <4> QED BY <4>1 DEF AnswersFit
    <3> QED BY <3>1, <3>2
  <2> QED BY <2>6, <2>7, <2>8
<1>7. CASE LoadGame(g)
  <2>1. TypeOK'
    BY <1>7 DEF LoadGame, Stages
  <2>2. WholeGames'
    BY <1>1, <1>7 DEF LoadGame, WholeGames, Stored
  <2>3. AnswersFit'
    BY <1>7, AnswersStand DEF LoadGame, OfTheRoom, Stored
  <2> QED BY <2>1, <2>2, <2>3
<1>8. CASE RemoveGame(g)
  <2>1. TypeOK'
    BY <1>8 DEF RemoveGame
  <2>2. WholeGames'
    BY <1>1, <1>8 DEF RemoveGame, WholeGames, Stored
  <2>3. AnswersFit'
    BY <1>8, AnswersStand DEF RemoveGame, OfTheRoom, Stored
  <2> QED BY <2>1, <2>2, <2>3
<1> QED BY <1>2, <1>3, <1>4, <1>5, <1>6, <1>7, <1>8 DEF GameStep

\* A word is deleted, and with it its links to the stored games.
LEMMA RemoveWordIInv ==
  ASSUME IInv, WordsTypeOK', ListInv', NEW id \in Ids, RemoveWord(id), LosesItsWord(id)
  PROVE  IInv'
<1> USE DEF IInv, TypeOK
<1> DEFINE loses(g) == Stored(g) /\ id \in gameWords[g]
<1>1. DOMAIN words' = DOMAIN words \ {id}
  BY TableStep
<1>2. /\ gameWords' = [g \in Chains |-> IF loses(g) THEN gameWords[g] \ {id} ELSE gameWords[g]]
      /\ wanted' = [g \in Chains |-> IF loses(g) THEN wanted[g] - 1 ELSE wanted[g]]
      /\ UNCHANGED <<stage, createdAt, now, removed, answer, earlier>>
  BY DEF LosesItsWord
<1>3. ASSUME NEW g \in Chains
      PROVE  /\ wanted[g] \in 0..MaxRounds /\ Cardinality(gameWords[g]) = wanted[g]
             /\ loses(g) => /\ wanted[g] - 1 \in 0..MaxRounds
                            /\ Cardinality(gameWords[g] \ {id}) = wanted[g] - 1
  <2>1. gameWords[g] \in SUBSET Ids /\ wanted[g] \in 0..MaxRounds
        /\ Cardinality(gameWords[g]) = wanted[g]
    BY DEF WholeGames
  <2>2. id \in gameWords[g] =>
          /\ Cardinality(gameWords[g]) > 0
          /\ Cardinality(gameWords[g] \ {id}) = Cardinality(gameWords[g]) - 1
    BY <2>1, OneWordLess
  <2>3. MaxRounds \in Nat
    BY GamesAssumption
  <2> QED BY <2>1, <2>2, <2>3
<1> HIDE DEF loses
<1>4. TypeOK'
  <2>1. gameWords' \in [Chains -> SUBSET Ids]
    BY <1>2
  <2>2. wanted' \in [Chains -> 0..MaxRounds]
    BY <1>2, <1>3
  <2> QED BY <1>2, <2>1, <2>2
<1>5. WholeGames'
  <2> SUFFICES ASSUME NEW g \in Chains
               PROVE  /\ Cardinality(gameWords'[g]) = wanted'[g]
                      /\ Stored(g)' => gameWords'[g] \subseteq DOMAIN words'
    BY DEF WholeGames
  <2>1. Stored(g)' = Stored(g)
    BY <1>2 DEF Stored
  <2>2. Cardinality(gameWords'[g]) = wanted'[g]
    BY <1>2, <1>3
  <2>3. ASSUME Stored(g) PROVE gameWords'[g] \subseteq DOMAIN words'
    <3>1. gameWords[g] \subseteq DOMAIN words
      BY <2>3 DEF WholeGames
    <3>2. id \notin gameWords'[g] /\ gameWords'[g] \subseteq gameWords[g]
      BY <1>2, <2>3 DEF loses
    <3> QED BY <1>1, <3>1, <3>2
  <2> QED BY <2>1, <2>2, <2>3
<1>6. AnswersFit'
  BY <1>2, AnswersStand DEF OfTheRoom, Stored
<1> QED BY <1>4, <1>5, <1>6

LEMMA IInvStep == IInv /\ [Next]_vars => IInv'
<1> SUFFICES ASSUME IInv, [Next]_vars PROVE IInv'
  OBVIOUS
<1>1. WordsTypeOK' /\ ListInv'
  BY NextIsWordsNext, WordsTypeOKStep, ListInvStep DEF IInv, TypeOK
<1>2. ASSUME DOMAIN words \subseteq DOMAIN words', UNCHANGED games PROVE IInv'
  <2>1. TypeOK'
    BY <1>1, <1>2 DEF IInv, TypeOK, games
  <2>2. WholeGames'
    BY <1>2 DEF IInv, WholeGames, Stored, games
  <2>3. AnswersFit'
    BY <1>2, AnswersStand DEF IInv, OfTheRoom, Stored, games
  <2> QED BY <1>1, <2>1, <2>2, <2>3 DEF IInv
<1>3. ASSUME NEW g \in Chains, GameStep(g), UNCHANGED <<table, listVars>> PROVE IInv'
  BY <1>1, <1>3, GameStepIInv
<1>4. ASSUME NEW key \in Keys, CreateWord(key), UNCHANGED games PROVE IInv'
  BY <1>2, <1>4, TableStep DEF IInv, TypeOK
<1>5. ASSUME NEW id \in Ids, NEW key \in Keys, UpdateWord(id, key), UNCHANGED games PROVE IInv'
  BY <1>2, <1>5, TableStep DEF IInv, TypeOK
<1>6. ASSUME NEW id \in Ids, RemoveWord(id), LosesItsWord(id) PROVE IInv'
  BY <1>1, <1>6, RemoveWordIInv
<1>7. CASE Scroll /\ UNCHANGED games
  <2>1. words' = words
    BY <1>7 DEF Scroll, OpenList, MoreByCursor, MoreByOffset, table
  <2> QED BY <1>2, <1>7, <2>1
<1>8. CASE UNCHANGED vars
  BY <1>2, <1>8 DEF vars, table
<1> QED BY <1>3, <1>4, <1>5, <1>6, <1>7, <1>8 DEF Next

-----------------------------------------------------------------------------
(* The theorems *)

THEOREM GamesInvariance == Spec => []IInv
  BY InitIInv, IInvStep, PTL DEF Spec

\* Table, list and games have their types: in particular no game is ever to have
\* fewer than no words.
THEOREM GamesTypeCorrectness == Spec => []TypeOK
<1>1. IInv => TypeOK
  BY DEF IInv
<1> QED BY <1>1, GamesInvariance, PTL

\* A stored game has exactly the words it was to have that still exist.
THEOREM StoredGamesAreWholeAlways == Spec => []StoredGamesAreWhole
<1>1. IInv => StoredGamesAreWhole
  BY DEF IInv, WholeGames, StoredGamesAreWhole
<1> QED BY <1>1, GamesInvariance, PTL

\* A list that is done has shown all its steady words, and none twice, as far as
\* cursors and offsets can promise it.
THEOREM ListsAreCompleteAlways == Spec => []ListsAreComplete
<1>1. IInv => ListsAreComplete
  BY ListInvImpliesComplete DEF IInv, TypeOK
<1> QED BY <1>1, GamesInvariance, PTL

\* However many chains overlap, and whenever their answers arrive, what a chain
\* loads is as new as its own game and as all that had been loaded when the
\* database was asked.
THEOREM GamesMoveForwardAlways == Spec => []GamesMoveForward
<1>1. IInv => GamesMoveForward
  BY DEF IInv, AnswersFit, GamesMoveForward
<1> QED BY <1>1, GamesInvariance, PTL
=============================================================================
