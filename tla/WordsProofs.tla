----------------------------- MODULE WordsProofs -----------------------------
(***************************************************************************)
(* What the steps on the words table and on the administrator's list of it *)
(* preserve, for any keys, queries, page size and number of words.  The    *)
(* first part is about places and pages, the second has a lemma for each   *)
(* step of Words.  GamesProofs, about the specification these steps belong *)
(* to, puts them together.                                                 *)
(***************************************************************************)
EXTENDS Words, FiniteSetTheorems, FunctionTheorems, TLAPS

\* The place of a row in a list sorted by key, if no two rows have the same key.
KeyRank(rows, id) == Cardinality({other \in rows: words[other] <= words[id]})

\* The words of a list that nobody touched are still in it.
SteadyStay == steady \subseteq Matching(list.query)

\* What a list in the order of the ids has shown so far: nothing beyond its last
\* word, nothing twice, and every steady word up to the last one.
CursorSoFar ==
  list.order = "id" =>
    /\ \A id \in Ids: list.times[id] <= 1
    /\ \A id \in Ids: list.times[id] = 1 => id <= list.last
    /\ ~disturbed => \A id \in steady: id <= list.last => list.times[id] = 1
    /\ list.done /\ ~disturbed => \A id \in steady: list.times[id] = 1

\* What a sorted list of an unchanged table has shown so far: as many words as its
\* offset says, the first ones, and all of them when it is done.
SortedSoFar ==
  list.order = "key" /\ ~disturbed =>
    /\ steady = Matching(list.query)
    /\ IsInjective(Restrict(words, steady)) =>
         \A id \in Ids:
           list.times[id] = IF /\ id \in steady
                               /\ list.done \/ KeyRank(steady, id) <= list.offset
                            THEN 1 ELSE 0

ListInv == SteadyStay /\ CursorSoFar /\ SortedSoFar

-----------------------------------------------------------------------------
(* Places and pages *)

\* Places given one to one from 1 on leave none free: the rows at the places
\* from a + 1 to b are as many as these places, or as many of them as there are.
LEMMA SliceCounts ==
  ASSUME NEW rows, IsFiniteSet(rows),
         NEW place \in Injection(rows, 1..Cardinality(rows)),
         NEW a \in Nat, NEW b \in Nat, a <= b
  PROVE  LET slice == {id \in rows: place[id] \in a + 1 .. b} IN
         /\ IsFiniteSet(slice) /\ Cardinality(slice) <= b - a
         /\ b <= Cardinality(rows) => Cardinality(slice) = b - a
<1> DEFINE n == Cardinality(rows)
           slice == {id \in rows: place[id] \in a + 1 .. b}
           part == Restrict(place, slice)
<1>1. n \in Nat
  BY FS_CardinalityType
<1>2. IsFiniteSet(1..n) /\ Cardinality(1..n) = n
  BY <1>1, FS_Interval
<1>3. IsFiniteSet(a + 1 .. b) /\ Cardinality(a + 1 .. b) = b - a
  <2>1. a + 1 \in Int /\ b \in Int
    OBVIOUS
  <2>2. /\ IsFiniteSet(a + 1 .. b)
        /\ Cardinality(a + 1 .. b) = IF a + 1 > b THEN 0 ELSE b - (a + 1) + 1
    BY <2>1, FS_Interval
  <2> QED BY <2>2
<1>0. place \in Injection(rows, 1..n)
  OBVIOUS
<1> HIDE DEF n
<1>4. place \in [rows -> 1..n] /\ \A x, y \in rows: place[x] = place[y] => x = y
  BY <1>0, Fun_InjectionProperties
<1>5. place \in Surjection(rows, 1..n)
  BY <1>2, FS_Injection DEF n
<1>6. \A k \in 1..n: \E x \in rows: place[x] = k
  BY <1>5, Fun_SurjectionProperties
<1>7. part \in [slice -> a + 1 .. b] /\ \A x, y \in slice: part[x] = part[y] => x = y
  BY <1>4 DEF Restrict
<1>8. part \in Injection(slice, a + 1 .. b)
  BY <1>7, Fun_IsInj
<1>9. IsFiniteSet(slice) /\ Cardinality(slice) <= b - a
  BY <1>3, <1>8, FS_Injection
<1>10. ASSUME b <= n PROVE Cardinality(slice) = b - a
  <2>1. \A k \in a + 1 .. b: \E x \in slice: part[x] = k
    <3> TAKE k \in a + 1 .. b
    <3>1. PICK x \in rows: place[x] = k
      BY <1>1, <1>6, <1>10
    <3> QED BY <3>1 DEF Restrict
  <2>2. part \in Surjection(slice, a + 1 .. b)
    BY <1>7, <2>1, Fun_IsSurj
  <2> HIDE DEF slice, part
  <2>3. Cardinality(slice) = Cardinality(a + 1 .. b)
    BY <1>3, <1>8, <2>2, FS_Injection
  <2> QED BY <1>3, <2>3
<1> HIDE DEF slice, part
<1> QED BY <1>9, <1>10 DEF slice, n

\* A page is never longer than it may be, and when it is shorter nothing comes
\* after it.
LEMMA PageCounts ==
  ASSUME NEW rows, IsFiniteSet(rows),
         NEW place \in Injection(rows, 1..Cardinality(rows)), NEW skip \in Nat
  PROVE  /\ IsFiniteSet(Page(place, skip)) /\ Page(place, skip) \subseteq rows
         /\ Cardinality(Page(place, skip)) \in 0..PageSize
         /\ Cardinality(Page(place, skip)) < PageSize =>
              \A id \in rows: place[id] > skip => id \in Page(place, skip)
<1> DEFINE n == Cardinality(rows)
           page == {id \in rows: place[id] \in skip + 1 .. skip + PageSize}
<1>1. n \in Nat /\ PageSize \in Nat /\ skip + PageSize \in Nat
  BY FS_CardinalityType, SizesAssumption
<1>2. place \in [rows -> 1..n]
  BY Fun_InjectionProperties
<1>3. Page(place, skip) = page
  BY <1>2 DEF Page
<1> HIDE DEF n
<1>4. /\ IsFiniteSet(page) /\ Cardinality(page) <= (skip + PageSize) - skip
      /\ skip + PageSize <= n => Cardinality(page) = (skip + PageSize) - skip
  <2> DEFINE to == skip + PageSize
  <2>1. to \in Nat /\ skip <= to
    BY <1>1
  <2> HIDE DEF page, to
  <2>2. LET slice == {id \in rows: place[id] \in skip + 1 .. to} IN
        /\ IsFiniteSet(slice) /\ Cardinality(slice) <= to - skip
        /\ to <= Cardinality(rows) => Cardinality(slice) = to - skip
    BY <2>1, SliceCounts
  <2> QED BY <2>2 DEF n, page, to
<1>5. Cardinality(page) \in Nat
  BY <1>4, FS_CardinalityType
<1>6. Cardinality(page) \in 0..PageSize
  BY <1>1, <1>4, <1>5
<1>7. ASSUME Cardinality(page) < PageSize, NEW id \in rows, place[id] > skip
      PROVE  id \in page
  <2>1. ~(skip + PageSize <= n)
    BY <1>1, <1>4, <1>5, <1>7
  <2> QED BY <1>1, <1>2, <1>7, <2>1
<1> HIDE DEF page
<1>8. page \subseteq rows
  BY DEF page
<1> QED BY <1>3, <1>4, <1>6, <1>7, <1>8

\* The places in the order of the ids are such places, and grow with the ids.
LEMMA RanksById ==
  ASSUME NEW rows \in SUBSET Nat, IsFiniteSet(rows)
  PROVE  /\ ById(rows) \in Injection(rows, 1..Cardinality(rows))
         /\ \A a, b \in rows: a < b => ById(rows)[a] < ById(rows)[b]
<1> DEFINE n == Cardinality(rows)
           upTo(id) == {other \in rows: other <= id}
<1>1. \A id \in rows: /\ IsFiniteSet(upTo(id))
                      /\ Cardinality(upTo(id)) \in 1..n
  <2> TAKE id \in rows
  <2>1. upTo(id) \in SUBSET rows /\ id \in upTo(id)
    OBVIOUS
  <2> HIDE DEF upTo
  <2>2. IsFiniteSet(upTo(id)) /\ Cardinality(upTo(id)) <= n
    BY <2>1, FS_Subset
  <2>3. Cardinality(upTo(id)) # 0
    BY <2>1, <2>2, FS_EmptySet
  <2> HIDE DEF n
  <2>4. Cardinality(upTo(id)) \in Nat /\ n \in Nat
    BY <2>2, FS_CardinalityType DEF n
  <2> QED BY <2>2, <2>3, <2>4
<1>2. \A a, b \in rows: a < b => Cardinality(upTo(a)) < Cardinality(upTo(b))
  <2> SUFFICES ASSUME NEW a \in rows, NEW b \in rows, a < b
               PROVE  Cardinality(upTo(a)) < Cardinality(upTo(b))
    OBVIOUS
  <2>0. a \in Nat /\ b \in Nat /\ \A other \in rows: other \in Nat
    OBVIOUS
  <2>1. upTo(a) \subseteq upTo(b) /\ b \in upTo(b) /\ b \notin upTo(a)
    <3>1. \A other \in rows: other <= a => other <= b
      BY <2>0
    <3>2. b <= b /\ ~(b <= a)
      BY <2>0
    <3> QED BY <3>1, <3>2
  <2> HIDE DEF upTo, n
  <2>2. /\ Cardinality(upTo(a)) <= Cardinality(upTo(b))
        /\ Cardinality(upTo(b)) = Cardinality(upTo(a)) => upTo(b) = upTo(a)
    BY <1>1, <2>1, FS_Subset
  <2>3. Cardinality(upTo(a)) \in Nat /\ Cardinality(upTo(b)) \in Nat
    BY <1>1, FS_CardinalityType
  <2> QED BY <2>1, <2>2, <2>3
<1>3. \A id \in rows: ById(rows)[id] = Cardinality(upTo(id))
  BY DEF ById
<1>4. ById(rows) \in [rows -> 1..n]
  BY <1>1 DEF ById
<1> HIDE DEF upTo, n
<1>5. \A a, b \in rows: a < b => ById(rows)[a] < ById(rows)[b]
  BY <1>2, <1>3
<1>6. \A a, b \in rows: ById(rows)[a] = ById(rows)[b] => a = b
  <2> SUFFICES ASSUME NEW a \in rows, NEW b \in rows, ById(rows)[a] = ById(rows)[b]
               PROVE  a = b
    OBVIOUS
  <2>1. a \in Nat /\ b \in Nat /\ ById(rows)[a] \in 1..n /\ ById(rows)[b] \in 1..n
    BY <1>4
  <2>2. n \in Nat
    BY FS_CardinalityType DEF n
  <2>3. ~(a < b) /\ ~(b < a)
    BY <1>5, <2>1, <2>2
  <2> QED BY <2>1, <2>3
<1>7. ById(rows) \in Injection(rows, 1..n)
  BY <1>4, <1>6, Fun_IsInj
<1> QED BY <1>5, <1>7 DEF n

\* The last word of a page that is not empty: the one whose place among the words
\* of the page is their number.
LEMMA LastOfAPage ==
  ASSUME NEW page \in SUBSET Nat, IsFiniteSet(page), page # {}
  PROVE  Max(page) \in page /\ \A id \in page: id <= Max(page)
<1> DEFINE n == Cardinality(page)
           rank == ById(page)
<1>1. n \in Nat /\ n # 0
  BY FS_CardinalityType, FS_EmptySet
<1>2. rank \in Injection(page, 1..n) /\ \A a, b \in page: a < b => rank[a] < rank[b]
  BY RanksById
<1> HIDE DEF rank, n
<1>3. IsFiniteSet(1..n) /\ Cardinality(1..n) = n
  BY <1>1, FS_Interval
<1>4. rank \in Surjection(page, 1..n)
  BY <1>2, <1>3, FS_Injection DEF n
<1>5. rank \in [page -> 1..n]
  BY <1>2, Fun_InjectionProperties
<1>6. PICK x \in page: rank[x] = n
  <2>1. \A k \in 1..n: \E x \in page: rank[x] = k
    BY <1>4, Fun_SurjectionProperties
  <2> QED BY <1>1, <2>1
<1>7. \A y \in page: x >= y
  <2> TAKE y \in page
  <2>1. x \in Nat /\ y \in Nat /\ rank[y] <= n /\ rank[y] \in Nat
    BY <1>1, <1>5
  <2>2. ~(x < y)
    BY <1>1, <1>2, <1>6, <2>1
  <2> QED BY <2>1, <2>2
<1>8. Max(page) \in page /\ \A y \in page: Max(page) >= y
  BY <1>7 DEF Max
<1> QED BY <1>8

\* Different keys leave the database no choice: a row has as many rows up to it in
\* the list as there are keys up to its own.
LEMMA SortedPlaces ==
  ASSUME NEW rows, IsFiniteSet(rows), \A id \in rows: words[id] \in Nat,
         \A a, b \in rows: words[a] = words[b] => a = b,
         NEW place \in ByKey(rows)
  PROVE  /\ place \in Injection(rows, 1..Cardinality(rows))
         /\ \A id \in rows: place[id] = KeyRank(rows, id)
<1> DEFINE n == Cardinality(rows)
<1>1. /\ place \in [rows -> 1..n]
      /\ IsInjective(place)
      /\ \A a, b \in rows: words[a] < words[b] => place[a] < place[b]
  BY DEF ByKey
<1>2. place \in Injection(rows, 1..n)
  BY <1>1 DEF IsInjective, Injection
<1>3. n \in Nat
  BY FS_CardinalityType
<1>4. ASSUME NEW id \in rows PROVE place[id] = KeyRank(rows, id)
  <2> DEFINE k == place[id]
  <2>1. k \in 1..n
    BY <1>1
  <2> HIDE DEF n
  <2>2. k \in Nat /\ k <= n /\ 0 <= k
    BY <1>3, <2>1
  <2>3. \A other \in rows: words[other] <= words[id] <=> place[other] \in 1..k
    <3> TAKE other \in rows
    <3>1. words[other] \in Nat /\ words[id] \in Nat /\ place[other] \in Nat /\ 1 <= place[other]
      BY <1>1, <1>3
    <3>2. CASE words[other] < words[id]
      BY <1>1, <2>2, <3>1, <3>2
    <3>3. CASE words[other] = words[id]
      <4>1. other = id
        BY <3>3
      <4> QED BY <2>2, <3>1, <4>1
    <3>4. CASE words[other] > words[id]
      <4>1. place[id] < place[other]
        BY <1>1, <3>1, <3>4
      <4> QED BY <2>2, <3>1, <3>4, <4>1
    <3> QED BY <3>1, <3>2, <3>3, <3>4
  <2> DEFINE slice == {other \in rows: place[other] \in 0 + 1 .. k}
  <2>4. slice = {other \in rows: words[other] <= words[id]}
    BY <2>3
  <2>5. LET part == {other \in rows: place[other] \in 0 + 1 .. k} IN
        /\ IsFiniteSet(part) /\ Cardinality(part) <= k - 0
        /\ k <= Cardinality(rows) => Cardinality(part) = k - 0
    <3> HIDE DEF k, slice
    <3>1. 0 \in Nat
      OBVIOUS
    <3> QED BY <1>2, <2>2, <3>1, SliceCounts DEF n
  <2>6. Cardinality(slice) = k
    BY <2>2, <2>5 DEF n
  <2> QED BY <2>4, <2>6 DEF KeyRank
<1> QED BY <1>2, <1>4

-----------------------------------------------------------------------------
(* Type correctness *)

\* The rows of the table are finitely many numbers.
LEMMA RowsAreFinite ==
  ASSUME WordsTypeOK, NEW rows \in SUBSET DOMAIN words
  PROVE  /\ rows \subseteq Ids /\ rows \in SUBSET Nat /\ IsFiniteSet(rows)
         /\ \A id \in rows: words[id] \in Nat
<1>1. lastId \in Nat /\ lastId <= MaxWords /\ MaxWords \in Nat
  BY SizesAssumption DEF WordsTypeOK
<1>2. IsFiniteSet(1..lastId)
  BY <1>1, FS_Interval
<1>3. rows \in SUBSET (1..lastId)
  BY DEF WordsTypeOK
<1>4. IsFiniteSet(rows)
  BY <1>2, <1>3, FS_Subset
<1>5. rows \subseteq Ids /\ rows \in SUBSET Nat
  BY <1>1, <1>3 DEF Ids
<1>6. \A id \in rows: words[id] \in Nat
  BY KeysAssumption DEF WordsTypeOK
<1> QED BY <1>4, <1>5, <1>6

\* What the administrator sees after a page, field by field.
LEMMA ListWithPage ==
  ASSUME list \in Lists, NEW page, Cardinality(page) \in Nat
  PROVE  /\ With(page) \in Lists
         /\ With(page).order = list.order /\ With(page).query = list.query
         /\ With(page).last = list.last
         /\ \A id \in Ids: With(page).times[id] =
                             list.times[id] + (IF id \in page THEN 1 ELSE 0)
         /\ With(page).offset = list.offset + Cardinality(page)
         /\ With(page).done <=> Cardinality(page) < PageSize
<1> DEFINE shown == [id \in Ids |-> list.times[id] + (IF id \in page THEN 1 ELSE 0)]
<1>1. shown \in [Ids -> Nat]
  BY DEF Lists
<1>2. With(page) = [list EXCEPT !.times = shown,
                                !.offset = list.offset + Cardinality(page),
                                !.done = Cardinality(page) < PageSize]
  BY DEF With, Lists
<1>3. \A id \in Ids: shown[id] = list.times[id] + (IF id \in page THEN 1 ELSE 0)
  OBVIOUS
<1>4. (Cardinality(page) < PageSize) \in BOOLEAN /\ list.offset + Cardinality(page) \in Nat
  BY DEF Lists
<1> HIDE DEF shown
<1>5. With(page) \in Lists
  BY <1>1, <1>2, <1>4 DEF Lists
<1> QED BY <1>2, <1>3, <1>5 DEF Lists

\* A page after a cursor has only words beyond it, leaves out none before its own
\* last word, and when it is short leaves out none at all.  The last two need the
\* cursor's row to be in the answer still.
LEMMA PagesAfterACursor ==
  ASSUME WordsTypeOK, NEW cursor \in 0..MaxWords, NEW query
  PROVE  LET page == CursorPage(cursor, query) IN
         /\ IsFiniteSet(page) /\ page \subseteq Matching(query)
         /\ Cardinality(page) \in 0..PageSize
         /\ \A id \in page: id > cursor
         /\ cursor \in {0} \cup Matching(query) =>
              \A id \in Matching(query): id > cursor =>
                /\ (\E later \in page: id <= later) => id \in page
                /\ Cardinality(page) < PageSize => id \in page
<1> DEFINE rows == FromCursor(cursor, query)
           place == ById(rows)
           skip == IF cursor = 0 THEN 0 ELSE 1
           page == Page(place, skip)
           n == Cardinality(rows)
<1>1. rows \in SUBSET DOMAIN words /\ rows \subseteq Matching(query)
  BY DEF FromCursor, Matching
<1>2. /\ \A id \in rows: id >= cursor
      /\ cursor \in {0} \cup Matching(query) => \A id \in Matching(query): id >= cursor => id \in rows
  BY DEF FromCursor, Matching
<1> HIDE DEF rows
<1>3. IsFiniteSet(rows) /\ rows \in SUBSET Nat /\ rows \subseteq Ids
  BY <1>1, RowsAreFinite
<1>4. /\ place \in Injection(rows, 1..n)
      /\ \A a, b \in rows: a < b => place[a] < place[b]
  BY <1>3, RanksById
<1>5. skip \in Nat /\ cursor \in Nat
  BY SizesAssumption
<1>6. n \in Nat
  BY <1>3, FS_CardinalityType
<1> HIDE DEF place, skip
<1>7. /\ IsFiniteSet(page) /\ page \subseteq rows
      /\ Cardinality(page) \in 0..PageSize
      /\ Cardinality(page) < PageSize => \A id \in rows: place[id] > skip => id \in page
  BY <1>3, <1>4, <1>5, PageCounts
<1> HIDE DEF n
<1>8. place \in [rows -> 1..n]
  BY <1>4, Fun_InjectionProperties
<1>9. \A id: id \in page <=> id \in rows /\ place[id] \in skip + 1 .. skip + PageSize
  BY <1>8 DEF Page
<1> HIDE DEF page
<1>10. ASSUME NEW id \in page PROVE id > cursor
  <2>0. id \in rows /\ place[id] \in skip + 1 .. skip + PageSize
    BY <1>9
  <2>1. id \in rows /\ id \in Nat /\ id >= cursor /\ id >= 1 /\ place[id] > skip
    <3>1. id \in Ids /\ id >= cursor
      BY <1>2, <1>3, <2>0
    <3>2. place[id] > skip
      BY <1>5, <2>0, SizesAssumption
    <3> QED BY <2>0, <3>1, <3>2, SizesAssumption DEF Ids
  <2>2. CASE cursor = 0
    BY <2>1, <2>2
  <2>3. CASE cursor # 0
    <3>1. place[id] > 1
      BY <2>1, <2>3 DEF skip
    <3>2. \E other \in rows: other < id
      <4>1. IsFiniteSet({id}) /\ Cardinality({id}) = 1
        BY FS_Singleton
      <4>2. place[id] = Cardinality({other \in rows: other <= id})
        BY <2>1 DEF place, ById
      <4>3. {other \in rows: other <= id} # {id}
        BY <3>1, <4>1, <4>2
      <4>4. id \in {other \in rows: other <= id}
        BY <2>1
      <4>5. PICK other \in rows: other <= id /\ other # id
        BY <4>3, <4>4
      <4>6. other \in Nat
        BY <1>3
      <4> QED BY <2>1, <4>5, <4>6
    <3> QED BY <1>2, <1>3, <1>5, <2>1, <3>2
  <2> QED BY <2>2, <2>3
<1>11. ASSUME cursor \in {0} \cup Matching(query), NEW id \in Matching(query), id > cursor
       PROVE  /\ (\E later \in page: id <= later) => id \in page
              /\ Cardinality(page) < PageSize => id \in page
  <2>0. id \in Nat
    <3>1. Matching(query) \in SUBSET DOMAIN words
      BY DEF Matching
    <3> QED BY <3>1, RowsAreFinite
  <2>1. id \in rows /\ place[id] \in 1..n
    BY <1>2, <1>5, <1>8, <1>11, <2>0
  <2>2. place[id] > skip
    <3>1. CASE cursor = 0
      BY <1>6, <2>1, <3>1 DEF skip
    <3>2. CASE cursor # 0
      <4>1. cursor \in rows
        BY <1>2, <1>5, <1>11, <3>2
      <4>2. place[cursor] < place[id] /\ place[cursor] \in 1..n
        BY <1>4, <1>8, <1>11, <2>1, <4>1
      <4> QED BY <1>6, <2>1, <3>2, <4>2 DEF skip
    <3> QED BY <3>1, <3>2
  <2>3. ASSUME NEW later \in page, id <= later PROVE id \in page
    <3>1. later \in rows /\ later \in Nat /\ place[later] <= skip + PageSize /\ place[later] \in 1..n
      <4>1. later \in rows /\ place[later] \in skip + 1 .. skip + PageSize
        BY <1>9
      <4>2. later \in Nat /\ place[later] \in 1..n
        BY <1>3, <1>8, <4>1
      <4> QED BY <1>5, <4>1, <4>2, SizesAssumption
    <3>2. place[id] <= place[later]
      <4>1. CASE id = later
        BY <1>6, <2>1, <4>1
      <4>2. CASE id < later
        BY <1>4, <1>6, <2>1, <3>1, <4>2
      <4> QED BY <2>0, <2>3, <3>1, <4>1, <4>2
    <3>3. place[id] \in skip + 1 .. skip + PageSize
      BY <1>5, <1>6, <2>1, <2>2, <3>1, <3>2, SizesAssumption
    <3> QED BY <1>9, <2>1, <3>3
  <2> QED BY <1>7, <2>1, <2>2, <2>3
<1>12. page = CursorPage(cursor, query)
  BY DEF page, place, rows, skip, CursorPage
<1> HIDE DEF rows
<1> QED BY <1>1, <1>7, <1>10, <1>11, <1>12

\* A page of a sorted list is never too long.  With different keys it has the
\* words whose rank follows the offset, up to a whole page of them, and when it is
\* short all of them.
LEMMA PagesByOffset ==
  ASSUME WordsTypeOK, NEW offset \in Nat, NEW query,
         NEW page \in SortedPages(offset, query)
  PROVE  /\ IsFiniteSet(page) /\ page \subseteq Matching(query)
         /\ Cardinality(page) \in 0..PageSize
         /\ (\A a, b \in Matching(query): words[a] = words[b] => a = b) =>
              \A id \in Matching(query):
                LET rank == KeyRank(Matching(query), id) IN
                /\ rank \in Nat
                /\ id \in page <=> rank \in offset + 1 .. offset + PageSize
                /\ Cardinality(page) < PageSize /\ rank > offset => id \in page
<1> DEFINE rows == Matching(query)
           n == Cardinality(rows)
<1>1. rows \in SUBSET DOMAIN words
  BY DEF Matching
<1> HIDE DEF rows
<1>2. IsFiniteSet(rows) /\ \A id \in rows: words[id] \in Nat
  BY <1>1, RowsAreFinite
<1>3. PICK place \in ByKey(rows): page = Page(place, offset)
  BY DEF SortedPages, rows
<1>4. place \in [rows -> 1..n] /\ IsInjective(place)
  BY <1>3 DEF ByKey
<1>5. place \in Injection(rows, 1..n)
  BY <1>4 DEF IsInjective, Injection
<1>6. /\ IsFiniteSet(page) /\ page \subseteq rows
      /\ Cardinality(page) \in 0..PageSize
      /\ Cardinality(page) < PageSize => \A id \in rows: place[id] > offset => id \in page
  BY <1>2, <1>3, <1>5, PageCounts
<1>7. n \in Nat
  BY <1>2, FS_CardinalityType
<1> HIDE DEF n
<1>8. \A id \in rows: id \in page <=> place[id] \in offset + 1 .. offset + PageSize
  BY <1>3, <1>4 DEF Page
<1>9. ASSUME \A a, b \in rows: words[a] = words[b] => a = b, NEW id \in rows
      PROVE  place[id] \in Nat /\ place[id] = KeyRank(rows, id)
  BY <1>2, <1>3, <1>4, <1>7, <1>9, SortedPlaces
<1> QED BY <1>6, <1>8, <1>9 DEF rows

\* The steps of Words.
WordsNext ==
  \/ \E key \in Keys: CreateWord(key)
  \/ \E id \in Ids, key \in Keys: UpdateWord(id, key)
  \/ \E id \in Ids: RemoveWord(id)
  \/ Scroll
  \/ UNCHANGED <<table, listVars>>

\* A change of the table leaves it a table.
LEMMA TableStep ==
  ASSUME WordsTypeOK
  PROVE  /\ \A key \in Keys: CreateWord(key) =>
              /\ lastId' \in 1..MaxWords /\ lastId' = lastId + 1
              /\ DOMAIN words' = DOMAIN words \cup {lastId'}
              /\ words' \in [DOMAIN words' -> Keys]
              /\ \A id \in DOMAIN words: id # lastId' /\ words'[id] = words[id]
         /\ \A id \in Ids, key \in Keys: UpdateWord(id, key) =>
              /\ DOMAIN words' = DOMAIN words /\ words' \in [DOMAIN words' -> Keys]
              /\ \A other \in DOMAIN words: other # id => words'[other] = words[other]
         /\ \A id \in Ids: RemoveWord(id) =>
              /\ DOMAIN words' = DOMAIN words \ {id} /\ words' \in [DOMAIN words' -> Keys]
              /\ \A other \in DOMAIN words': words'[other] = words[other]
<1> USE DEF WordsTypeOK
<1>1. lastId \in Nat /\ MaxWords \in Nat /\ lastId + 1 \notin DOMAIN words
  BY SizesAssumption
<1>2. ASSUME NEW key \in Keys, CreateWord(key)
      PROVE  /\ lastId' \in 1..MaxWords /\ lastId' = lastId + 1
             /\ DOMAIN words' = DOMAIN words \cup {lastId'}
             /\ words' \in [DOMAIN words' -> Keys]
             /\ \A id \in DOMAIN words: id # lastId' /\ words'[id] = words[id]
  BY <1>1, <1>2 DEF CreateWord
<1>3. ASSUME NEW id \in Ids, NEW key \in Keys, UpdateWord(id, key)
      PROVE  /\ DOMAIN words' = DOMAIN words /\ words' \in [DOMAIN words' -> Keys]
             /\ \A other \in DOMAIN words: other # id => words'[other] = words[other]
  BY <1>3 DEF UpdateWord
<1>4. ASSUME NEW id \in Ids, RemoveWord(id)
      PROVE  /\ DOMAIN words' = DOMAIN words \ {id} /\ words' \in [DOMAIN words' -> Keys]
             /\ \A other \in DOMAIN words': words'[other] = words[other]
  BY <1>4 DEF RemoveWord, Restrict
<1> QED BY <1>2, <1>3, <1>4

\* What the administrator sees after a page by cursor, field by field.
LEMMA ListAfterCursor ==
  ASSUME WordsTypeOK, MoreByCursor
  PROVE  LET page == CursorPage(list.last, list.query) IN
         /\ IsFiniteSet(page) /\ page \subseteq Ids /\ Cardinality(page) \in Nat
         /\ list' \in Lists /\ list'.order = "id" /\ list'.query = list.query
         /\ \A id \in Ids: list'.times[id] = list.times[id] + (IF id \in page THEN 1 ELSE 0)
         /\ list'.done <=> Cardinality(page) < PageSize
         /\ list'.last >= list.last
         /\ \A id \in page: id <= list'.last
         /\ list'.last = list.last \/ list'.last \in page
<1> DEFINE page == CursorPage(list.last, list.query)
           last == IF page = {} THEN list.last ELSE Max(page)
<1>1. list \in Lists /\ list.last \in 0..MaxWords /\ MaxWords \in Nat /\ list.order = "id"
  BY SizesAssumption DEF WordsTypeOK, Lists, MoreByCursor
<1>2. /\ IsFiniteSet(page) /\ page \subseteq Matching(list.query)
      /\ Cardinality(page) \in 0..PageSize /\ \A id \in page: id > list.last
  BY <1>1, PagesAfterACursor
<1> HIDE DEF page
<1>3. page \subseteq Ids /\ page \in SUBSET Nat
  <2>1. Matching(list.query) \in SUBSET DOMAIN words
    BY DEF Matching
  <2> QED BY <1>2, <2>1, RowsAreFinite
<1>4. Cardinality(page) \in Nat
  BY <1>2, SizesAssumption
<1>5. /\ last \in 0..MaxWords /\ last >= list.last
      /\ \A id \in page: id <= last
      /\ last = list.last \/ last \in page
  <2>1. CASE page = {}
    BY <1>1, <2>1
  <2>2. CASE page # {}
    <3>1. Max(page) \in page /\ \A id \in page: id <= Max(page)
      BY <1>2, <1>3, <2>2, LastOfAPage
    <3>2. Max(page) \in 1..MaxWords /\ Max(page) > list.last
      <4>1. Max(page) \in Ids
        BY <1>3, <3>1
      <4>2. Max(page) > list.last
        BY <1>2, <3>1
      <4> QED BY <4>1, <4>2 DEF Ids
    <3>3. last = Max(page)
      BY <2>2
    <3> HIDE DEF last
    <3> QED BY <1>1, <3>1, <3>2, <3>3
  <2> QED BY <2>1, <2>2
<1>6. list' = [With(page) EXCEPT !.last = IF page = {} THEN With(page).last ELSE Max(page)]
  BY DEF MoreByCursor, page
<1>7. /\ With(page) \in Lists
      /\ With(page).order = list.order /\ With(page).query = list.query
      /\ With(page).last = list.last
      /\ \A id \in Ids: With(page).times[id] = list.times[id] + (IF id \in page THEN 1 ELSE 0)
      /\ With(page).done <=> Cardinality(page) < PageSize
  BY <1>1, <1>4, ListWithPage
<1>8. list' = [With(page) EXCEPT !.last = last]
  BY <1>6, <1>7
<1> HIDE DEF last
<1>9. /\ list' \in Lists /\ list'.order = "id" /\ list'.query = list.query
      /\ \A id \in Ids: list'.times[id] = list.times[id] + (IF id \in page THEN 1 ELSE 0)
      /\ list'.done <=> Cardinality(page) < PageSize
      /\ list'.last = last
  BY <1>1, <1>5, <1>7, <1>8 DEF Lists
<1>10. /\ list'.last >= list.last
       /\ \A id \in page: id <= list'.last
       /\ list'.last = list.last \/ list'.last \in page
  BY <1>5, <1>9
<1>11. IsFiniteSet(page) /\ page \subseteq Ids /\ Cardinality(page) \in Nat
  BY <1>2, <1>3, <1>4
<1> QED BY <1>9, <1>10, <1>11 DEF page

LEMMA WordsInitTypeOK == WordsInit => WordsTypeOK
<1> SUFFICES ASSUME WordsInit PROVE WordsTypeOK
  OBVIOUS
<1>1. words = <<>> /\ lastId = 0 /\ steady = {} /\ disturbed = FALSE
  BY DEF WordsInit
<1>2. DOMAIN words = {} /\ words \in [DOMAIN words -> Keys]
  BY <1>1
<1>3. PICK query \in Queries: list = [Opened("id", query) EXCEPT !.done = TRUE]
  BY DEF WordsInit
<1>4. Opened("id", query) \in Lists
  BY SizesAssumption DEF Opened, Lists, Orders
<1>5. list \in Lists
  BY <1>3, <1>4 DEF Lists
<1>6. lastId \in 0..MaxWords /\ DOMAIN words \subseteq 1..lastId
  BY <1>1, <1>2, SizesAssumption
<1> QED BY <1>1, <1>2, <1>5, <1>6 DEF WordsTypeOK

\* The table and the list keep their types.
LEMMA WordsTypeOKStep ==
  ASSUME WordsTypeOK, WordsNext
  PROVE  WordsTypeOK'
<1>1. lastId \in 0..MaxWords /\ MaxWords \in Nat /\ list \in Lists /\ steady \subseteq Ids
  BY SizesAssumption DEF WordsTypeOK
<1>2. ASSUME NEW id \in Nat, Touched(id)
      PROVE  list' \in Lists /\ steady' \subseteq Ids /\ disturbed' \in BOOLEAN
  BY <1>1, <1>2 DEF Touched, WordsTypeOK
<1>3. ASSUME NEW key \in Keys, CreateWord(key) PROVE WordsTypeOK'
  <2>1. lastId' \in Nat /\ Touched(lastId')
    BY <1>1, <1>3 DEF CreateWord
  <2>2. list' \in Lists /\ steady' \subseteq Ids /\ disturbed' \in BOOLEAN
    BY <1>2, <2>1
  <2>3. /\ lastId' \in 1..MaxWords /\ lastId' = lastId + 1
        /\ DOMAIN words' = DOMAIN words \cup {lastId'}
        /\ words' \in [DOMAIN words' -> Keys]
    BY <1>3, TableStep
  <2>4. DOMAIN words' \subseteq 1..lastId'
    BY <1>1, <2>3 DEF WordsTypeOK
  <2> QED BY <1>1, <2>2, <2>3, <2>4 DEF WordsTypeOK
<1>4. ASSUME NEW id \in Ids, NEW key \in Keys, UpdateWord(id, key) PROVE WordsTypeOK'
  <2>1. Touched(id) /\ lastId' = lastId /\ id \in Nat
    BY <1>4, SizesAssumption DEF UpdateWord, Ids
  <2> QED BY <1>1, <1>2, <1>4, <2>1, TableStep DEF WordsTypeOK
<1>5. ASSUME NEW id \in Ids, RemoveWord(id) PROVE WordsTypeOK'
  <2>1. Touched(id) /\ lastId' = lastId /\ id \in Nat
    BY <1>5, SizesAssumption DEF RemoveWord, Ids
  <2> QED BY <1>1, <1>2, <1>5, <2>1, TableStep DEF WordsTypeOK
<1>6. ASSUME NEW order \in Orders, NEW query \in Queries, OpenList(order, query)
      PROVE  WordsTypeOK'
  <2>1. list' \in Lists
    BY <1>1, <1>6 DEF OpenList, Opened, Lists
  <2>2. Matching(query) \in SUBSET DOMAIN words
    BY DEF Matching
  <2>3. steady' \subseteq Ids
    BY <1>6, <2>2, RowsAreFinite DEF OpenList
  <2> QED BY <1>6, <2>1, <2>3 DEF OpenList, WordsTypeOK, table
<1>7. ASSUME MoreByCursor PROVE WordsTypeOK'
  BY <1>7, ListAfterCursor DEF MoreByCursor, WordsTypeOK, table
<1>8. ASSUME MoreByOffset PROVE WordsTypeOK'
  <2>1. PICK page \in SortedPages(list.offset, list.query): list' = With(page)
    BY <1>8 DEF MoreByOffset
  <2>2. list.offset \in Nat
    BY <1>1 DEF Lists
  <2>3. Cardinality(page) \in Nat
    BY <2>2, PagesByOffset, SizesAssumption
  <2>4. list' \in Lists
    BY <1>1, <2>1, <2>3, ListWithPage
  <2> QED BY <1>8, <2>4 DEF MoreByOffset, WordsTypeOK, table
<1>9. ASSUME UNCHANGED <<table, listVars>> PROVE WordsTypeOK'
  BY <1>9 DEF WordsTypeOK, table, listVars
<1> QED BY <1>3, <1>4, <1>5, <1>6, <1>7, <1>8, <1>9 DEF WordsNext, Scroll

-----------------------------------------------------------------------------
(* What a list has shown *)

LEMMA ListInvInit == WordsInit => ListInv
<1> SUFFICES ASSUME WordsInit PROVE ListInv
  OBVIOUS
<1>1. PICK query \in Queries: list = [Opened("id", query) EXCEPT !.done = TRUE]
  BY DEF WordsInit
<1>2. list.order = "id" /\ \A id \in Ids: list.times[id] = 0
  BY <1>1 DEF Opened
<1> QED BY <1>2 DEF WordsInit, ListInv, SteadyStay, CursorSoFar, SortedSoFar

\* A change of the table touches one word, and what was steady and another stays.
LEMMA ListInvTouched ==
  ASSUME WordsTypeOK, ListInv, NEW touched, Touched(touched),
         \A id \in DOMAIN words \ {touched}: id \in DOMAIN words' /\ words'[id] = words[id]
  PROVE  ListInv'
<1>1. list' = list /\ steady' = steady \ {touched}
  BY DEF Touched
<1>2. disturbed \in BOOLEAN /\ (disturbed' <=> disturbed \/ list.order = "key")
  BY DEF Touched, WordsTypeOK
<1>3. SteadyStay'
  BY <1>1 DEF ListInv, SteadyStay, Matching
<1>4. CursorSoFar'
  BY <1>1, <1>2 DEF ListInv, CursorSoFar
<1>5. SortedSoFar'
  BY <1>1, <1>2 DEF SortedSoFar
<1> QED BY <1>3, <1>4, <1>5 DEF ListInv

LEMMA ListInvOpened ==
  ASSUME WordsTypeOK, NEW order \in Orders, NEW query \in Queries, OpenList(order, query)
  PROVE  ListInv'
<1>1. /\ list'.order = order /\ list'.query = query
      /\ \A id \in Ids: list'.times[id] = 0
      /\ list'.offset = 0 /\ list'.last = 0 /\ list'.done = FALSE
      /\ steady' = Matching(query) /\ disturbed' = FALSE /\ words' = words
  BY DEF OpenList, Opened, table
<1>2. Matching(list.query)' = Matching(query)
  BY <1>1 DEF Matching
<1>3. Matching(query) \in SUBSET DOMAIN words
  BY DEF Matching
<1>4. IsFiniteSet(Matching(query)) /\ \A id \in Matching(query): id \in Nat /\ id >= 1
  <2>1. Matching(query) \subseteq Ids /\ IsFiniteSet(Matching(query))
    BY <1>3, RowsAreFinite
  <2> QED BY <2>1, SizesAssumption DEF Ids
<1>5. SteadyStay'
  BY <1>1, <1>2 DEF SteadyStay
<1>6. CursorSoFar'
  <2>1. \A id \in steady': ~(id <= list'.last)
    BY <1>1, <1>4
  <2> QED BY <1>1, <2>1 DEF CursorSoFar
<1>7. ASSUME NEW id \in Matching(query) PROVE ~(KeyRank(Matching(query), id) <= 0)
  <2> DEFINE upTo == {other \in Matching(query): words[other] <= words[id]}
  <2>1. words[id] \in Nat
    BY <1>3, RowsAreFinite
  <2>2. upTo \in SUBSET Matching(query) /\ id \in upTo
    BY <2>1
  <2> HIDE DEF upTo
  <2>3. IsFiniteSet(upTo)
    BY <1>4, <2>2, FS_Subset
  <2>4. Cardinality(upTo) \in Nat /\ Cardinality(upTo) # 0
    BY <2>2, <2>3, FS_CardinalityType, FS_EmptySet
  <2>5. KeyRank(Matching(query), id) = Cardinality(upTo)
    BY DEF KeyRank, upTo
  <2> QED BY <2>4, <2>5
<1>8. \A id: KeyRank(steady, id)' = KeyRank(Matching(query), id)
  BY <1>1 DEF KeyRank
<1>9. SortedSoFar'
  BY <1>1, <1>2, <1>7, <1>8 DEF SortedSoFar
<1> QED BY <1>5, <1>6, <1>9 DEF ListInv

LEMMA ListInvCursor ==
  ASSUME WordsTypeOK, ListInv, MoreByCursor
  PROVE  ListInv'
<1> DEFINE page == CursorPage(list.last, list.query)
<1>1. list.order = "id" /\ list.last \in 0..MaxWords /\ MaxWords \in Nat
      /\ \A id \in Ids: list.times[id] \in Nat
  BY SizesAssumption DEF MoreByCursor, WordsTypeOK, Lists
<1>2. /\ page \subseteq Matching(list.query)
      /\ \A id \in page: id > list.last
      /\ list.last \in {0} \cup Matching(list.query) =>
           \A id \in Matching(list.query): id > list.last =>
             /\ (\E later \in page: id <= later) => id \in page
             /\ Cardinality(page) < PageSize => id \in page
  BY <1>1, PagesAfterACursor
<1>3. /\ list'.order = "id" /\ list'.query = list.query
      /\ page \subseteq Ids
      /\ \A id \in Ids: list'.times[id] = list.times[id] + (IF id \in page THEN 1 ELSE 0)
      /\ list'.done <=> Cardinality(page) < PageSize
      /\ list' \in Lists /\ list'.last >= list.last
      /\ \A id \in page: id <= list'.last
      /\ list'.last = list.last \/ list'.last \in page
  BY ListAfterCursor
<1>4. /\ words' = words /\ steady' = steady
      /\ (disturbed' <=> disturbed \/ list.last \notin {0} \cup Matching(list.query))
  BY DEF MoreByCursor, table, WordsTypeOK
<1>5. list'.last \in Nat
  BY <1>3, SizesAssumption DEF Lists
<1> HIDE DEF page
<1>6. ListInv => CursorSoFar /\ SteadyStay
  BY DEF ListInv
<1>7. SteadyStay'
  BY <1>3, <1>4, <1>6 DEF SteadyStay, Matching
<1>8. /\ \A id \in Ids: list.times[id] <= 1
      /\ \A id \in Ids: list.times[id] = 1 => id <= list.last
      /\ ~disturbed => \A id \in steady: id <= list.last => list.times[id] = 1
  BY <1>1, <1>6 DEF CursorSoFar
<1>9. \A id \in page: list.times[id] = 0
  <2> TAKE id \in page
  <2>1. id \in Ids /\ id > list.last /\ id \in Nat
    BY <1>2, <1>3, SizesAssumption DEF Ids
  <2> QED BY <1>1, <1>8, <2>1
<1>10. \A id \in Ids: list'.times[id] <= 1 /\ (list'.times[id] = 1 => id <= list'.last)
  <2> TAKE id \in Ids
  <2>1. CASE id \in page
    BY <1>3, <1>9, <2>1
  <2>2. CASE id \notin page
    <3>1. list'.times[id] = list.times[id]
      BY <1>1, <1>3, <2>2
    <3>2. id \in Nat
      BY SizesAssumption DEF Ids
    <3> QED BY <1>1, <1>3, <1>5, <1>8, <3>1, <3>2
  <2> QED BY <2>1, <2>2
<1>11. ASSUME ~disturbed', NEW id \in steady, id <= list'.last \/ list'.done
       PROVE  list'.times[id] = 1
  <2>1. id \in Ids /\ id \in Nat /\ id \in Matching(list.query)
    BY <1>6, SizesAssumption DEF WordsTypeOK, Ids, SteadyStay
  <2>2. ~disturbed /\ list.last \in {0} \cup Matching(list.query)
    BY <1>4, <1>11
  <2>3. CASE id <= list.last
    <3>1. list.times[id] = 1 /\ id \notin page
      BY <1>1, <1>2, <1>8, <2>1, <2>2, <2>3
    <3> QED BY <1>3, <2>1, <3>1
  <2>4. CASE id > list.last
    <3>1. id \in page
      <4>1. CASE list'.done
        BY <1>2, <1>3, <2>1, <2>2, <2>4, <4>1
      <4>2. CASE id <= list'.last
        <5>1. list'.last # list.last
          BY <1>1, <1>5, <2>1, <2>4, <4>2
        <5> QED BY <1>2, <1>3, <2>1, <2>2, <2>4, <4>2, <5>1
      <4> QED BY <1>11, <4>1, <4>2
    <3> QED BY <1>3, <1>9, <2>1, <3>1
  <2> QED BY <1>1, <2>1, <2>3, <2>4
<1>12. CursorSoFar'
  BY <1>4, <1>10, <1>11 DEF CursorSoFar
<1>13. SortedSoFar'
  BY <1>3 DEF SortedSoFar
<1> QED BY <1>7, <1>12, <1>13 DEF ListInv

LEMMA ListInvOffset ==
  ASSUME WordsTypeOK, ListInv, MoreByOffset
  PROVE  ListInv'
<1>1. PICK page \in SortedPages(list.offset, list.query): list' = With(page)
  BY DEF MoreByOffset
<1>2. /\ list \in Lists /\ list.order = "key" /\ ~list.done /\ list.offset \in Nat
      /\ \A id \in Ids: list.times[id] \in Nat
  BY DEF MoreByOffset, WordsTypeOK, Lists
<1>3. words' = words /\ steady' = steady /\ disturbed' = disturbed
  BY DEF MoreByOffset, table
<1> DEFINE rows == Matching(list.query)
           rank(id) == KeyRank(rows, id)
<1>4. /\ page \subseteq rows /\ Cardinality(page) \in 0..PageSize
      /\ (\A a, b \in rows: words[a] = words[b] => a = b) =>
           \A id \in rows: /\ rank(id) \in Nat
                           /\ id \in page <=> rank(id) \in list.offset + 1 .. list.offset + PageSize
                           /\ Cardinality(page) < PageSize /\ rank(id) > list.offset => id \in page
  BY <1>2, PagesByOffset
<1>5. Cardinality(page) \in Nat /\ Cardinality(page) <= PageSize /\ PageSize \in Nat
  BY <1>4, SizesAssumption
<1>6. /\ list'.order = "key" /\ list'.query = list.query
      /\ \A id \in Ids: list'.times[id] = list.times[id] + (IF id \in page THEN 1 ELSE 0)
      /\ list'.offset = list.offset + Cardinality(page)
      /\ list'.done <=> Cardinality(page) < PageSize
  BY <1>1, <1>2, <1>5, ListWithPage
<1>7. SteadyStay'
  BY <1>3, <1>6 DEF ListInv, SteadyStay, Matching
<1>8. CursorSoFar'
  BY <1>6 DEF CursorSoFar
<1>9. ASSUME ~disturbed PROVE steady = rows
  BY <1>2, <1>9 DEF ListInv, SortedSoFar
<1>10. ASSUME ~disturbed, IsInjective(Restrict(words, steady)), NEW id \in Ids
       PROVE  list'.times[id] = IF /\ id \in steady
                                   /\ list'.done \/ rank(id) <= list'.offset
                                THEN 1 ELSE 0
  <2>1. list.times[id] = IF id \in steady /\ (rank(id) <= list.offset) THEN 1 ELSE 0
    BY <1>2, <1>9, <1>10 DEF ListInv, SortedSoFar
  <2>2. \A a, b \in rows: words[a] = words[b] => a = b
    BY <1>9, <1>10 DEF IsInjective, Restrict
  <2>3. CASE id \notin rows
    BY <1>2, <1>4, <1>6, <1>9, <1>10, <2>1, <2>3
  <2>4. CASE id \in rows
    <3> HIDE DEF rank
    <3>1. /\ rank(id) \in Nat
          /\ id \in page <=> rank(id) \in list.offset + 1 .. list.offset + PageSize
          /\ Cardinality(page) < PageSize /\ rank(id) > list.offset => id \in page
      BY <1>4, <2>2, <2>4
    <3>2. id \in steady
      BY <1>9, <1>10, <2>4
    <3>3. list'.times[id] = 1 <=> id \in page \/ rank(id) <= list.offset
      BY <1>2, <1>5, <1>6, <2>1, <3>1, <3>2
    <3>4. list'.times[id] \in {0, 1}
      BY <1>2, <1>5, <1>6, <2>1, <3>1, <3>2
    <3>5. CASE list'.done
      <4>1. id \in page \/ rank(id) <= list.offset
        BY <1>2, <1>6, <3>1, <3>5
      <4> QED BY <3>2, <3>3, <3>5, <4>1
    <3>6. CASE ~list'.done
      <4>1. list'.offset = list.offset + PageSize
        <5>1. Cardinality(page) = PageSize
          BY <1>5, <1>6, <3>6
        <5> QED BY <1>6, <5>1
      <4> QED BY <1>2, <1>5, <3>1, <3>2, <3>3, <3>4, <3>6, <4>1
    <3> QED BY <3>5, <3>6
  <2> QED BY <2>3, <2>4
<1>11. SortedSoFar'
  <2>1. Matching(list.query)' = rows
    BY <1>3, <1>6 DEF Matching
  <2>2. \A id: KeyRank(steady, id)' = KeyRank(steady, id)
    BY <1>3 DEF KeyRank
  <2>3. IsInjective(Restrict(words, steady))' <=> IsInjective(Restrict(words, steady))
    BY <1>3 DEF IsInjective, Restrict
  <2> HIDE DEF rows
  <2>4. ASSUME ~disturbed, IsInjective(Restrict(words, steady)), NEW id \in Ids
        PROVE  list'.times[id] = IF /\ id \in steady'
                                    /\ list'.done \/ KeyRank(steady, id)' <= list'.offset
                                 THEN 1 ELSE 0
    BY <1>3, <1>9, <1>10, <2>2, <2>4
  <2> QED BY <1>3, <1>9, <2>1, <2>3, <2>4 DEF SortedSoFar
<1> QED BY <1>7, <1>8, <1>11 DEF ListInv

\* No step of Words shows a word twice or leaves a steady one behind.
LEMMA ListInvStep ==
  ASSUME WordsTypeOK, ListInv, WordsNext
  PROVE  ListInv'
<1>1. ASSUME NEW key \in Keys, CreateWord(key) PROVE ListInv'
  BY <1>1, TableStep, ListInvTouched DEF CreateWord
<1>2. ASSUME NEW id \in Ids, NEW key \in Keys, UpdateWord(id, key) PROVE ListInv'
  <2>1. Touched(id)
    BY <1>2 DEF UpdateWord
  <2>2. \A other \in DOMAIN words \ {id}: other \in DOMAIN words' /\ words'[other] = words[other]
    BY <1>2, TableStep
  <2> QED BY <2>1, <2>2, ListInvTouched
<1>3. ASSUME NEW id \in Ids, RemoveWord(id) PROVE ListInv'
  <2>1. Touched(id)
    BY <1>3 DEF RemoveWord
  <2>2. \A other \in DOMAIN words \ {id}: other \in DOMAIN words' /\ words'[other] = words[other]
    BY <1>3, TableStep
  <2> QED BY <2>1, <2>2, ListInvTouched
<1>4. ASSUME Scroll PROVE ListInv'
  BY <1>4, ListInvOpened, ListInvCursor, ListInvOffset DEF Scroll
<1>5. ASSUME UNCHANGED <<table, listVars>> PROVE ListInv'
  <2>1. Matching(list.query)' = Matching(list.query)
    BY <1>5 DEF Matching, table, listVars
  <2>2. \A id: KeyRank(steady, id)' = KeyRank(steady, id)
    BY <1>5 DEF KeyRank, table, listVars
  <2>3. IsInjective(Restrict(words, steady))' <=> IsInjective(Restrict(words, steady))
    BY <1>5 DEF IsInjective, Restrict, table, listVars
  <2> QED BY <1>5, <2>1, <2>2, <2>3 DEF ListInv, SteadyStay, CursorSoFar, SortedSoFar, table, listVars
<1> QED BY <1>1, <1>2, <1>3, <1>4, <1>5 DEF WordsNext

\* What was shown so far is the promise once the list is done.
LEMMA ListInvImpliesComplete ==
  ASSUME WordsTypeOK, ListInv
  PROVE  ListsAreComplete
<1>1. CursorListIsComplete
  BY DEF ListInv, CursorSoFar, CursorListIsComplete
<1>2. SortedListIsComplete
  <2>1. steady \subseteq Ids
    BY DEF WordsTypeOK
  <2> QED BY <2>1 DEF ListInv, SortedSoFar, SortedListIsComplete
<1> QED BY <1>1, <1>2 DEF ListsAreComplete
=============================================================================
