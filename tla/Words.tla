-------------------------------- MODULE Words --------------------------------
(***************************************************************************)
(* The words table and the list an administrator scrolls through, from     *)
(* WordsService (src/admin/words/words.service.ts).  The table is the      *)
(* function `words` from the ids of its rows to their keys; cues are left  *)
(* out and keys are numbers in the order of the alphabet.  PostgreSQL and  *)
(* Prisma are modelled from the queries the service makes.                 *)
(*                                                                         *)
(* The client that scrolls is not part of the repository: as the names in  *)
(* FindAllWordsDto say, it asks for the words after the last one it has    *)
(* (lastWordId) or, in a sorted list, after as many as it has (offset),    *)
(* until it gets less than a page.  Others change the table between two    *)
(* pages.  A definition X_Slip is X with a plausible slip in it.           *)
(***************************************************************************)
EXTENDS Integers, FiniteSets, FiniteSetsExt, Functions

CONSTANTS
  Keys,       \* keys of words
  Queries,    \* search queries, each the set of the keys that contain it
  PageSize,   \* WORDS_PER_INFINITY_LOAD
  MaxWords    \* bound: words ever created

ASSUME KeysAssumption == Keys \subseteq Nat /\ Queries \subseteq SUBSET Keys
ASSUME SizesAssumption == PageSize \in Nat \ {0} /\ MaxWords \in Nat

VARIABLES
  words,       \* the table
  lastId,      \* the last id the database has given
  list,        \* what the administrator sees
  steady,      \* history: words of the list that nobody has touched since it was opened
  disturbed    \* history: a page was asked for after a word no longer in the list,
               \* or the table was changed while a sorted list was open

table == <<words, lastId>>
listVars == <<list, steady, disturbed>>

Ids == 1..MaxWords
Orders == {"id", "key"}

\* `times` counts how often a word is shown, `offset` the words shown and `last`
\* is the last of them (0: none).
Lists == [order: Orders, query: Queries, times: [Ids -> Nat], last: 0..MaxWords,
          offset: Nat, done: BOOLEAN]

WordsTypeOK ==
  /\ lastId \in 0..MaxWords
  /\ DOMAIN words \subseteq 1..lastId /\ words \in [DOMAIN words -> Keys]
  /\ list \in Lists /\ steady \subseteq Ids /\ disturbed \in BOOLEAN

Matching(query) == {id \in DOMAIN words: words[id] \in query}

Opened(order, query) ==
  [order |-> order, query |-> query, times |-> [id \in Ids |-> 0], last |-> 0,
   offset |-> 0, done |-> FALSE]

WordsInit ==
  /\ words = <<>> /\ lastId = 0
  /\ \E query \in Queries: list = [Opened("id", query) EXCEPT !.done = TRUE]
  /\ steady = {} /\ disturbed = FALSE

-----------------------------------------------------------------------------
(* create, update, remove: the last two fail if there is no such word *)

Touched(id) ==
  /\ steady' = steady \ {id}
  /\ disturbed' = (disturbed \/ list.order = "key")
  /\ UNCHANGED list

CreateWord(key) ==
  /\ lastId < MaxWords /\ lastId' = lastId + 1
  /\ words' = [id \in DOMAIN words \cup {lastId'} |->
                 IF id = lastId' THEN key ELSE words[id]]
  /\ Touched(lastId')

UpdateWord(id, key) ==
  /\ id \in DOMAIN words
  /\ words' = [words EXCEPT ![id] = key]
  /\ Touched(id) /\ UNCHANGED lastId

RemoveWord(id) ==
  /\ id \in DOMAIN words
  /\ words' = Restrict(words, DOMAIN words \ {id})
  /\ Touched(id) /\ UNCHANGED lastId

-----------------------------------------------------------------------------
(* findAll *)

\* The places of some rows in the answer, ordered by id or by key.  The database
\* leaves the order of equal keys open, in every query anew.
ById(rows) == [id \in rows |-> Cardinality({other \in rows: other <= id})]
ByKey(rows) ==
  {place \in [rows -> 1..Cardinality(rows)]:
     /\ IsInjective(place)
     /\ \A a, b \in rows: words[a] < words[b] => place[a] < place[b]}

\* take and skip.
Page(place, skip) ==
  {id \in DOMAIN place: place[id] \in skip + 1 .. skip + PageSize}

\* The rows from the cursor on; none if the cursor's row is gone.
FromCursor(cursor, query) ==
  IF cursor \in {0} \cup DOMAIN words
  THEN {id \in Matching(query): id >= cursor} ELSE {}

\* skip is 1 after a cursor, whether or not the cursor is itself in the answer.
CursorPage_KeepsCursor(cursor, query) == Page(ById(FromCursor(cursor, query)), 0)
CursorPage(cursor, query) ==
  Page(ById(FromCursor(cursor, query)), IF cursor = 0 THEN 0 ELSE 1)

SortedPages(offset, query) ==
  {Page(place, offset): place \in ByKey(Matching(query))}

OpenList(order, query) ==
  /\ list' = Opened(order, query)
  /\ steady' = Matching(query) /\ disturbed' = FALSE
  /\ UNCHANGED table

With(page) ==
  [list EXCEPT !.times = [id \in Ids |-> @[id] + (IF id \in page THEN 1 ELSE 0)],
               !.offset = @ + Cardinality(page),
               !.done = Cardinality(page) < PageSize]

MoreByCursor ==
  LET page == CursorPage(list.last, list.query) IN
  /\ list.order = "id" /\ ~list.done
  /\ list' = [With(page) EXCEPT !.last = IF page = {} THEN @ ELSE Max(page)]
  /\ disturbed' = (disturbed \/ list.last \notin {0} \cup Matching(list.query))
  /\ UNCHANGED <<table, steady>>

MoreByOffset ==
  /\ list.order = "key" /\ ~list.done
  /\ \E page \in SortedPages(list.offset, list.query): list' = With(page)
  /\ UNCHANGED <<table, steady, disturbed>>

Scroll ==
  \/ \E order \in Orders, query \in Queries: OpenList(order, query)
  \/ MoreByCursor \/ MoreByOffset

-----------------------------------------------------------------------------
(* Properties *)

\* However the table changes meanwhile, a list in the order of the ids shows no
\* word twice, and when it ends it has shown every word that was there from the
\* beginning and was left alone, unless the word a page was to continue after had
\* been deleted or changed so that it is not in the list any more.
CursorListIsComplete ==
  list.order = "id" =>
    /\ \A id \in Ids: list.times[id] <= 1
    /\ list.done /\ ~disturbed => \A id \in steady: list.times[id] = 1

\* A list sorted by key shows each word once as long as nobody changes the table
\* and no two of its words have the same key: offsets then mean the same in every
\* page.
SortedListIsComplete ==
  list.order = "key" /\ ~disturbed /\ IsInjective(Restrict(words, steady)) =>
    /\ \A id \in Ids: list.times[id] <= 1
    /\ list.done => \A id \in steady: list.times[id] = 1

\* Both, whichever way an administrator's list is paged.
ListsAreComplete == CursorListIsComplete /\ SortedListIsComplete
=============================================================================
