---------------------------- MODULE PagesProofs -----------------------------
(***************************************************************************)
(* Theorems about Pages: a client that follows the cursors of a list is     *)
(* shown no row twice and misses none, for any number of rows and writers.  *)
(***************************************************************************)
EXTENDS Pages, FiniteSetTheorems, WellFoundedInduction, TLAPS

Triple == Int \X Int \X Int

-----------------------------------------------------------------------------
(* The order of the rows.                                                  *)

\* The lexicographic order, spelt out.
LEMMA BeforeMeans ==
  ASSUME NEW k \in Triple, NEW l \in Triple
  PROVE  Before(k, l) <=> \/ k[1] < l[1]
                          \/ k[1] = l[1] /\ k[2] < l[2]
                          \/ k[1] = l[1] /\ k[2] = l[2] /\ k[3] < l[3]
<1>1. /\ k[1] \in Int /\ k[2] \in Int /\ k[3] \in Int
      /\ l[1] \in Int /\ l[2] \in Int /\ l[3] \in Int
  BY DEF Triple
<1>2. 1..3 = {1, 2, 3} /\ 1..0 = {} /\ 1..1 = {1} /\ 1..2 = {1, 2}
  OBVIOUS
<1>3. 1 - 1 = 0 /\ 2 - 1 = 1 /\ 3 - 1 = 2
  OBVIOUS
<1> QED
  BY <1>1, <1>2, <1>3 DEF Before

\* Keys are strictly and totally ordered.
LEMMA BeforeIsTotal ==
  ASSUME NEW k \in Triple, NEW l \in Triple, NEW m \in Triple
  PROVE  /\ ~Before(k, k)
         /\ Before(k, l) => ~Before(l, k)
         /\ Before(k, l) /\ Before(l, m) => Before(k, m)
         /\ k # l => Before(k, l) \/ Before(l, k)
<1>1. /\ k[1] \in Int /\ k[2] \in Int /\ k[3] \in Int
      /\ l[1] \in Int /\ l[2] \in Int /\ l[3] \in Int
      /\ m[1] \in Int /\ m[2] \in Int /\ m[3] \in Int
  BY DEF Triple
<1>2. k # l => k[1] # l[1] \/ k[2] # l[2] \/ k[3] # l[3]
  BY DEF Triple
<1> QED
  BY <1>1, <1>2, BeforeMeans

\* Rows of a list that can be put in order.
Ordered(list, rows) ==
  /\ IsFiniteSet(rows)
  /\ \A i \in rows : Key(list, i) \in Triple
  /\ \A i, j \in rows : Key(list, i) = Key(list, j) => i = j

LEMMA OrderedSubset ==
  ASSUME NEW list, NEW rows, Ordered(list, rows), NEW some \in SUBSET rows
  PROVE  Ordered(list, some)
BY FS_Subset DEF Ordered

\* A finite set has an element with none above it in a strict order.
LEMMA FiniteHasLast ==
  ASSUME NEW S, IsFiniteSet(S), S # {}, NEW Less,
         \A x, y, z \in S : <<x, y>> \in Less /\ <<y, z>> \in Less => <<x, z>> \in Less,
         \A x \in S : <<x, x>> \notin Less
  PROVE  \E m \in S : \A n \in S : <<m, n>> \notin Less
<1> DEFINE Bad == {U \in SUBSET S : U # {} /\ \A m \in U : \E n \in U : <<m, n>> \in Less}
<1>1. IsWellFoundedOn(StrictSubsetOrdering(S), SUBSET S)
  BY FS_StrictSubsetOrderingWellFounded, FS_FiniteSubsetsOfFinite
<1>2. SUFFICES ASSUME Bad # {} PROVE FALSE
  OBVIOUS
<1>3. Bad \subseteq SUBSET S
  OBVIOUS
<1>4. PICK U \in Bad : \A V \in Bad : <<V, U>> \notin StrictSubsetOrdering(S)
  <2> HIDE DEF Bad
  <2> QED
    BY <1>1, <1>2, <1>3, WFMin
<1>5. PICK x \in U : TRUE
  OBVIOUS
<1>6. PICK y \in U : <<x, y>> \in Less
  OBVIOUS
<1>7. y \in U \ {x}
  BY <1>6
<1>8. U \ {x} \notin Bad
  <2>1. <<U \ {x}, U>> \in StrictSubsetOrdering(S)
    BY <1>5 DEF StrictSubsetOrdering
  <2> HIDE DEF Bad
  <2> QED
    BY <1>4, <2>1
<1>9. PICK m \in U \ {x} : \A n \in U \ {x} : <<m, n>> \notin Less
  BY <1>7, <1>8
<1>10. <<m, x>> \in Less
  BY <1>9
<1>11. <<m, y>> \in Less
  BY <1>6, <1>10
<1>12. <<m, y>> \notin Less
  BY <1>7, <1>9
<1> QED
  BY <1>11, <1>12

\* Some row is the last of all, and some the first.
LEMMA OrderedEnds ==
  ASSUME NEW list, NEW rows, Ordered(list, rows), rows # {}
  PROVE  /\ \E i \in rows : \A j \in rows : ~Before(Key(list, i), Key(list, j))
         /\ \E i \in rows : \A j \in rows : ~Before(Key(list, j), Key(list, i))
<1> DEFINE Up == {p \in rows \X rows : Before(Key(list, p[1]), Key(list, p[2]))}
           Down == {p \in rows \X rows : Before(Key(list, p[2]), Key(list, p[1]))}
<1>1. IsFiniteSet(rows) /\ \A i \in rows : Key(list, i) \in Triple
  BY DEF Ordered
<1>2. \A i, j, k \in rows : /\ ~Before(Key(list, i), Key(list, i))
                            /\ Before(Key(list, i), Key(list, j)) /\ Before(Key(list, j), Key(list, k))
                                 => Before(Key(list, i), Key(list, k))
  BY <1>1, BeforeIsTotal
<1>3. \A i, j \in rows : <<i, j>> \in Up <=> Before(Key(list, i), Key(list, j))
  OBVIOUS
<1>4. \A i, j \in rows : <<i, j>> \in Down <=> Before(Key(list, j), Key(list, i))
  OBVIOUS
<1> HIDE DEF Up, Down
<1>5. \E i \in rows : \A j \in rows : <<i, j>> \notin Up
  <2>1. \A x, y, z \in rows : <<x, y>> \in Up /\ <<y, z>> \in Up => <<x, z>> \in Up
    BY <1>2, <1>3
  <2>2. \A x \in rows : <<x, x>> \notin Up
    BY <1>2, <1>3
  <2> QED
    BY <1>1, <2>1, <2>2, FiniteHasLast
<1>6. \E i \in rows : \A j \in rows : <<i, j>> \notin Down
  <2>1. \A x, y, z \in rows : <<x, y>> \in Down /\ <<y, z>> \in Down => <<x, z>> \in Down
    BY <1>2, <1>4
  <2>2. \A x \in rows : <<x, x>> \notin Down
    BY <1>2, <1>4
  <2> QED
    BY <1>1, <2>1, <2>2, FiniteHasLast
<1> QED
  BY <1>3, <1>4, <1>5, <1>6

\* The last of some rows is one of them, and none of them comes after it.
LEMMA LastOfIsLast ==
  ASSUME NEW list, NEW rows, Ordered(list, rows), rows # {}
  PROVE  /\ LastOf(list, rows) \in rows
         /\ \A j \in rows : ~Before(Key(list, LastOf(list, rows)), Key(list, j))
BY OrderedEnds DEF LastOf

Earlier(list, rows, i) == {j \in rows : Before(Key(list, j), Key(list, i))}

LEMMA FirstMeans ==
  ASSUME NEW list, NEW rows, NEW n
  PROVE  First(list, rows, n) = {i \in rows : Cardinality(Earlier(list, rows, i)) < n}
BY DEF First, Earlier

\* The first rows come before the others.
LEMMA FirstComeFirst ==
  ASSUME NEW list, NEW rows, Ordered(list, rows), NEW n \in Nat,
         NEW i \in First(list, rows, n), NEW j \in rows, j \notin First(list, rows, n)
  PROVE  Before(Key(list, i), Key(list, j))
<1>1. i \in rows /\ i # j /\ Key(list, i) \in Triple /\ Key(list, j) \in Triple
      /\ Key(list, i) # Key(list, j)
  BY DEF First, Ordered
<1>2. SUFFICES ASSUME Before(Key(list, j), Key(list, i)) PROVE FALSE
  BY <1>1, BeforeIsTotal
<1>3. Earlier(list, rows, j) \subseteq Earlier(list, rows, i)
  BY <1>1, <1>2, BeforeIsTotal DEF Earlier, Ordered
<1>4. IsFiniteSet(Earlier(list, rows, i))
  BY FS_Subset DEF Earlier, Ordered
<1>5. /\ Cardinality(Earlier(list, rows, j)) <= Cardinality(Earlier(list, rows, i))
      /\ Cardinality(Earlier(list, rows, j)) \in Nat /\ Cardinality(Earlier(list, rows, i)) \in Nat
  BY <1>3, <1>4, FS_Subset, FS_CardinalityType
<1>6. Cardinality(Earlier(list, rows, i)) < n
  BY FirstMeans
<1>7. Cardinality(Earlier(list, rows, j)) < n
  BY <1>5, <1>6
<1> QED
  BY <1>7, FirstMeans

\* Of rows there are, one is first.
LEMMA FirstNotEmpty ==
  ASSUME NEW list, NEW rows, Ordered(list, rows), rows # {}, NEW n \in Nat \ {0}
  PROVE  First(list, rows, n) # {}
<1>1. PICK i \in rows : \A j \in rows : ~Before(Key(list, j), Key(list, i))
  BY OrderedEnds
<1>2. Earlier(list, rows, i) = {}
  BY <1>1 DEF Earlier
<1>3. Cardinality(Earlier(list, rows, i)) < n
  BY <1>2, FS_EmptySet
<1> QED
  BY <1>3, FirstMeans

\* A page that is not full has every row.
LEMMA ShortPageHasAll ==
  ASSUME NEW list, NEW rows, Ordered(list, rows), NEW n \in Nat,
         Cardinality(First(list, rows, n)) < n
  PROVE  First(list, rows, n) = rows
<1> DEFINE Rest == rows \ First(list, rows, n)
<1>1. SUFFICES ASSUME Rest # {} PROVE FALSE
  BY DEF First
<1>2. Ordered(list, Rest)
  BY OrderedSubset
<1>3. PICK i \in Rest : \A j \in Rest : ~Before(Key(list, j), Key(list, i))
  <2> HIDE DEF Rest
  <2> QED
    BY <1>1, <1>2, OrderedEnds
<1>4. Earlier(list, rows, i) \subseteq First(list, rows, n)
  BY <1>3 DEF Earlier
<1>5. IsFiniteSet(First(list, rows, n))
  BY FS_Subset DEF First, Ordered
<1>6. /\ Cardinality(Earlier(list, rows, i)) <= Cardinality(First(list, rows, n))
      /\ Cardinality(Earlier(list, rows, i)) \in Nat /\ Cardinality(First(list, rows, n)) \in Nat
  BY <1>4, <1>5, FS_Subset, FS_CardinalityType
<1>7. Cardinality(Earlier(list, rows, i)) < n
  BY <1>6
<1> QED
  BY <1>7, FirstMeans

\* Rows that fit on a page are all on it.
LEMMA FewRowsFit ==
  ASSUME NEW list, NEW rows, Ordered(list, rows), NEW n \in Nat, Cardinality(rows) <= n
  PROVE  First(list, rows, n) = rows
<1>1. SUFFICES ASSUME NEW i \in rows PROVE Cardinality(Earlier(list, rows, i)) < n
  BY FirstMeans
<1>2. i \notin Earlier(list, rows, i)
  BY BeforeIsTotal DEF Earlier, Ordered
<1>3. /\ Cardinality(Earlier(list, rows, i)) <= Cardinality(rows)
      /\ Cardinality(Earlier(list, rows, i)) # Cardinality(rows)
      /\ Cardinality(rows) \in Nat /\ Cardinality(Earlier(list, rows, i)) \in Nat
  <2>1. IsFiniteSet(rows) /\ Earlier(list, rows, i) \in SUBSET rows
    BY DEF Ordered, Earlier
  <2> QED
    BY <1>2, <2>1, FS_Subset, FS_CardinalityType
<1> QED
  BY <1>3

-----------------------------------------------------------------------------
(* Types.                                                                  *)

ListName == {"topics", "messages", "runs", "topicRuns", "events"}
Cursor   == [key : Triple, id : Nat]
Reader   == [list : ListName, status : STRING, topic : Nat, limit : Nat \ {0},
             state : {"closed", "more", "end", "failed"}, cursor : Cursor \cup {NoCursor},
             page : SUBSET Nat, seen : SUBSET Nat]

MessageRow == [topic : Nat, created_at : Nat]
RunRow     == [topic : Nat, started_at : Nat, status : {"running", "done", "error"}]
EventRow   == [topic : Nat, next_run_at : Nat, created_at : Nat,
               status : {"scheduled", "done", "canceled"}]

\* Types; ids are given out once, and no row is younger than the clock.
IdsOK      == clock \in Nat /\ used \in SUBSET Nat /\ IsFiniteSet(used)
TopicsOK   == /\ DOMAIN topics \subseteq used
              /\ \A t \in DOMAIN topics : topics[t] \in Nat /\ topics[t] <= clock
MessagesOK == /\ DOMAIN messages \subseteq used
              /\ \A m \in DOMAIN messages : messages[m] \in MessageRow /\ messages[m].created_at <= clock
RunsOK     == DOMAIN runs \subseteq used /\ \A r \in DOMAIN runs : runs[r] \in RunRow
EventsOK   == DOMAIN events \subseteq used /\ \A e \in DOMAIN events : events[e] \in EventRow
TablesOK   == IdsOK /\ TopicsOK /\ MessagesOK /\ RunsOK /\ EventsOK

\* The rows a list is made of, and those that it has now.
Table(list) ==
  CASE list = "topics"    -> DOMAIN topics
    [] list = "messages"  -> DOMAIN messages
    [] list = "runs"      -> DOMAIN runs
    [] list = "topicRuns" -> DOMAIN runs
    [] list = "events"    -> DOMAIN events

Listed(list, status, topic) ==
  IF list \in Keyed THEN Selected(list, status, topic)
  ELSE PostFilter(list, status, Selected(list, status, topic))

\* A set of numbers that has a bound has a greatest one.
LEMMA MaxOf ==
  ASSUME NEW S \in SUBSET Nat, NEW c \in Nat, S # {}, \A n \in S : n <= c
  PROVE  /\ Max(S) \in S
         /\ \A n \in S : n <= Max(S)
<1> DEFINE Less == {p \in S \X S : p[1] < p[2]}
<1>1. IsFiniteSet(S)
  BY FS_BoundedSetOfNaturals
<1>2. \A x, y \in S : <<x, y>> \in Less <=> x < y
  OBVIOUS
<1> HIDE DEF Less
<1>3. \A x, y, z \in S : <<x, y>> \in Less /\ <<y, z>> \in Less => <<x, z>> \in Less
  BY <1>2
<1>4. \A x \in S : <<x, x>> \notin Less
  BY <1>2
<1>5. PICK m \in S : \A n \in S : <<m, n>> \notin Less
  BY <1>1, <1>3, <1>4, FiniteHasLast
<1>6. \A n \in S : n <= m
  <2>1. \A n \in S : ~(m < n)
    BY <1>2, <1>5
  <2> QED
    BY <2>1
<1>7. \A n \in S : m >= n
  BY <1>6
<1> QED
  BY <1>5, <1>7 DEF Max

\* When a topic was last written to.
LEMMA LastMessage ==
  ASSUME TablesOK, NEW t \in DOMAIN topics
  PROVE  /\ last_message_at(t) \in Nat
         /\ last_message_at(t) <= clock
         /\ topics[t] <= last_message_at(t)
         /\ \A m \in MessagesOf(t) : messages[m].created_at <= last_message_at(t)
         /\ \/ last_message_at(t) = topics[t]
            \/ \E m \in MessagesOf(t) : last_message_at(t) = messages[m].created_at
<1> DEFINE S == {topics[t]} \cup {messages[m].created_at : m \in MessagesOf(t)}
<1>1. clock \in Nat /\ topics[t] \in Nat /\ topics[t] <= clock
      /\ \A m \in MessagesOf(t) : messages[m].created_at \in Nat /\ messages[m].created_at <= clock
  BY DEF TablesOK, IdsOK, TopicsOK, MessagesOK, MessagesOf, MessageRow
<1>2. S \in SUBSET Nat /\ S # {} /\ \A n \in S : n <= clock
  BY <1>1
<1>3. last_message_at(t) = Max(S)
  BY DEF last_message_at
<1>4. Max(S) \in S /\ \A n \in S : n <= Max(S)
  <2> HIDE DEF S
  <2> QED
    BY <1>1, <1>2, MaxOf
<1>5. topics[t] \in S /\ \A m \in MessagesOf(t) : messages[m].created_at \in S
  OBVIOUS
<1>6. \A n \in S : n = topics[t] \/ \E m \in MessagesOf(t) : n = messages[m].created_at
  OBVIOUS
<1> HIDE DEF S
<1> QED
  BY <1>1, <1>2, <1>3, <1>4, <1>5, <1>6

\* Every row has a key of its own.
LEMMA KeyTypes ==
  ASSUME TablesOK, NEW list \in ListName
  PROVE  /\ Ordered(list, Table(list))
         /\ Table(list) \subseteq used
         /\ \A i \in Table(list) : i \in Nat /\ Key(list, i) \in Triple
<1>1. IsFiniteSet(Table(list)) /\ Table(list) \subseteq used /\ \A i \in Table(list) : i \in Nat
  <2>1. Table(list) \subseteq used /\ used \in SUBSET Nat /\ IsFiniteSet(used)
    BY DEF TablesOK, IdsOK, TopicsOK, MessagesOK, RunsOK, EventsOK, Table, ListName
  <2> QED
    BY <2>1, FS_Subset
<1>2. ASSUME NEW i \in Table(list)
      PROVE  Key(list, i) \in Triple /\ \A j \in Table(list) : Key(list, i) = Key(list, j) => i = j
  <2>1. CASE list = "topics"
    <3>1. \A t \in DOMAIN topics : last_message_at(t) \in Nat
      BY LastMessage
    <3>2. Table(list) = DOMAIN topics /\ \A j \in DOMAIN topics : Key(list, j) = <<-last_message_at(j), 0, -j>>
      BY <2>1 DEF Table, Key
    <3> QED
      BY <1>1, <3>1, <3>2 DEF Triple
  <2>2. CASE list = "messages"
    BY <1>1, <2>2 DEF Table, Key, Triple
  <2>3. CASE list = "runs"
    <3>1. \A r \in DOMAIN runs : runs[r].started_at \in Nat
      BY DEF TablesOK, RunsOK, RunRow
    <3> QED
      BY <1>1, <2>3, <3>1 DEF Table, Key, Triple
  <2>4. CASE list = "topicRuns"
    <3>1. \A r \in DOMAIN runs : runs[r].started_at \in Nat
      BY DEF TablesOK, RunsOK, RunRow
    <3> QED
      BY <1>1, <2>4, <3>1 DEF Table, Key, Triple
  <2>5. CASE list = "events"
    <3>1. \A e \in DOMAIN events : events[e].next_run_at \in Nat /\ events[e].created_at \in Nat
      BY DEF TablesOK, EventsOK, EventRow
    <3> QED
      BY <1>1, <2>5, <3>1 DEF Table, Key, Triple
  <2> QED
    BY <2>1, <2>2, <2>3, <2>4, <2>5 DEF ListName
<1> QED
  BY <1>1, <1>2 DEF Ordered

\* What is selected are rows of the table.
LEMMA SelectedRows ==
  ASSUME NEW list \in ListName, NEW status, NEW topic
  PROVE  /\ Selected(list, status, topic) \subseteq Table(list)
         /\ Listed(list, status, topic) \subseteq Selected(list, status, topic)
         /\ \A rows : PostFilter(list, status, rows) \subseteq rows
<1>1. Selected(list, status, topic) \subseteq Table(list)
  BY DEF Selected, Table, ListName, MessagesOf
<1>2. \A rows : PostFilter(list, status, rows) \subseteq rows
  BY DEF PostFilter
<1> QED
  BY <1>1, <1>2 DEF Listed

-----------------------------------------------------------------------------
(* A page.                                                                 *)

\* The rows that are left to be shown.
Ahead(r) ==
  LET listed == Listed(r.list, r.status, r.topic)
  IN  IF r.list \in Keyed
      THEN {i \in listed : r.cursor # NoCursor => Before(r.cursor.key, Key(r.list, i))}
      ELSE IF r.cursor # NoCursor /\ r.cursor.id \in listed
           THEN {i \in listed : Before(Key(r.list, r.cursor.id), Key(r.list, i))} ELSE listed

\* A page shows rows that were left, and its cursor stands at the last of them.
GoodPage(list, page, ahead) ==
  /\ page.data \subseteq ahead
  /\ page.has_more \in BOOLEAN
  /\ ~page.has_more => page.cursor = NoCursor
  /\ page.has_more => \E x \in page.data :
       page.cursor = encodeCursor(list, x) /\ \A i \in page.data : ~Before(Key(list, x), Key(list, i))

\* A page leaves out only what lies behind its cursor.
WholePage(list, page, ahead) ==
  IF page.has_more THEN \A i \in ahead \ page.data : Before(page.cursor.key, Key(list, i))
  ELSE ahead \subseteq page.data

LEMMA CursorMeans ==
  ASSUME NEW list, NEW i
  PROVE  encodeCursor(list, i).key = Key(list, i) /\ encodeCursor(list, i).id = i
BY DEF encodeCursor

LEMMA PaginateGood ==
  ASSUME NEW list, NEW rows, Ordered(list, rows), NEW limit \in Nat \ {0}
  PROVE  /\ GoodPage(list, paginate(list, rows, limit), rows)
         /\ WholePage(list, paginate(list, rows, limit), rows)
<1> DEFINE data == First(list, rows, limit)
           page == paginate(list, rows, limit)
<1>1. /\ page.data = data
      /\ page.has_more = (Cardinality(rows) > limit)
      /\ page.cursor = IF Cardinality(rows) > limit THEN encodeCursor(list, LastOf(list, data)) ELSE NoCursor
  BY DEF paginate
<1>2. data \subseteq rows /\ Ordered(list, data) /\ Cardinality(rows) \in Nat
  BY OrderedSubset, FS_CardinalityType DEF First, Ordered
<1>3. CASE Cardinality(rows) > limit
  <2>1. rows # {}
    BY <1>3, FS_EmptySet
  <2>2. data # {}
    BY <2>1, FirstNotEmpty
  <2>3. LastOf(list, data) \in data /\ \A i \in data : ~Before(Key(list, LastOf(list, data)), Key(list, i))
    BY <1>2, <2>2, LastOfIsLast
  <2>4. \A i \in rows \ data : Before(Key(list, LastOf(list, data)), Key(list, i))
    BY <2>3, FirstComeFirst
  <2>5. page.cursor = encodeCursor(list, LastOf(list, data)) /\ page.has_more = TRUE
    BY <1>1, <1>3
  <2>6. page.cursor.key = Key(list, LastOf(list, data))
    BY <2>5 DEF encodeCursor
  <2> HIDE DEF page, data
  <2> QED
    BY <1>1, <1>2, <2>3, <2>4, <2>5, <2>6 DEF GoodPage, WholePage, page
<1>4. CASE ~(Cardinality(rows) > limit)
  <2>1. Cardinality(rows) <= limit
    BY <1>2, <1>4
  <2>2. data = rows
    BY <2>1, FewRowsFit
  <2> HIDE DEF page, data
  <2>3. page.data = rows /\ page.has_more \in BOOLEAN /\ ~page.has_more /\ page.cursor = NoCursor
    <3>1. page.has_more \in BOOLEAN
      BY <1>1
    <3>2. ~page.has_more
      BY <1>1, <1>4, Zenon
    <3> QED
      BY <1>1, <1>4, <2>2, <3>1, <3>2
  <2> QED
    BY <2>3 DEF GoodPage, WholePage, page
<1> QED
  BY <1>3, <1>4

\* A page of the topics or of the runs of all topics: no filter after the query.
LEMMA KeyedPageGood ==
  ASSUME TablesOK, NEW r \in Reader, r.list \in {"topics", "runs"}
  PROVE  /\ GoodPage(r.list, Page(r), Ahead(r))
         /\ (r.list = "topics" => r.status = "all") => WholePage(r.list, Page(r), Ahead(r))
<1> DEFINE after == Ahead(r)
           asked == First(r.list, after, r.limit + 1)
           rows  == PostFilter(r.list, r.status, asked)
<1>1. r.list \in ListName /\ r.limit \in Nat \ {0} /\ r.list \in Keyed
  BY DEF Reader, Keyed
<1>2. Selected(r.list, r.status, r.topic) = Selected(r.list, r.status, 0)
  BY DEF Selected
<1>3. Page(r) = paginate(r.list, rows, r.limit)
  BY <1>1, <1>2 DEF Page, KeyedPage, Ahead, Listed
<1>4. Ordered(r.list, after) /\ asked \subseteq after /\ rows \subseteq asked
  <2>1. after \subseteq Table(r.list)
    BY <1>1, SelectedRows DEF Ahead, Listed
  <2>2. Ordered(r.list, after)
    BY <1>1, <2>1, KeyTypes, OrderedSubset
  <2> QED
    BY <1>1, <2>2, SelectedRows DEF First
<1>5. Ordered(r.list, rows) /\ Ordered(r.list, asked)
  <2> HIDE DEF after, asked, rows
  <2> QED
    BY <1>4, OrderedSubset
<1>6. GoodPage(r.list, Page(r), rows) /\ WholePage(r.list, Page(r), rows)
  <2> HIDE DEF after, asked, rows
  <2> QED
    BY <1>1, <1>3, <1>5, PaginateGood
<1>7. GoodPage(r.list, Page(r), after)
  <2> HIDE DEF after, asked, rows
  <2> QED
    BY <1>4, <1>6 DEF GoodPage
<1>8. ASSUME r.list = "topics" => r.status = "all"
      PROVE  WholePage(r.list, Page(r), after)
  <2>1. rows = asked
    BY <1>8 DEF PostFilter
  <2>2. CASE Page(r).has_more
    <3>1. \A i \in asked \ Page(r).data : Before(Page(r).cursor.key, Key(r.list, i))
      BY <1>6, <2>1, <2>2 DEF WholePage
    <3>2. PICK x \in Page(r).data : Page(r).cursor = encodeCursor(r.list, x)
      BY <1>6, <2>2 DEF GoodPage
    <3>3. Page(r).cursor.key = Key(r.list, x) /\ x \in asked
      BY <1>6, <2>1, <3>2 DEF encodeCursor, GoodPage
    <3>4. r.limit + 1 \in Nat
      BY <1>1
    <3>5. \A i \in after \ asked : Before(Key(r.list, x), Key(r.list, i))
      <4> HIDE DEF after
      <4> QED
        BY <1>4, <3>3, <3>4, FirstComeFirst
    <3> HIDE DEF after, asked, rows
    <3> QED
      BY <2>2, <3>1, <3>3, <3>5 DEF WholePage
  <2>3. CASE ~Page(r).has_more
    <3>1. asked \subseteq Page(r).data /\ Page(r).data \subseteq asked
      BY <1>6, <2>1, <2>3 DEF WholePage, GoodPage
    <3>2. Page(r).has_more = (Cardinality(rows) > r.limit)
      BY <1>3 DEF paginate
    <3>3. Cardinality(asked) \in Nat
      BY <1>5, FS_CardinalityType DEF Ordered
    <3>4. Cardinality(asked) < r.limit + 1 /\ r.limit + 1 \in Nat
      <4>1. ~(Cardinality(asked) > r.limit)
        BY <2>1, <2>3, <3>2
      <4> HIDE DEF asked
      <4> QED
        BY <1>1, <3>3, <4>1
    <3>5. asked = after
      <4> HIDE DEF after
      <4> QED
        BY <1>4, <3>4, ShortPageHasAll
    <3> HIDE DEF after, asked, rows
    <3> QED
      BY <2>3, <3>1, <3>5 DEF WholePage
  <2> QED
    BY <2>2, <2>3
<1> QED
  BY <1>7, <1>8

\* A page of messages.
LEMMA MessagesPageGood ==
  ASSUME TablesOK, NEW r \in Reader, r.list = "messages",
         r.cursor # NoCursor => r.cursor.key = <<0, 0, -r.cursor.id>>
  PROVE  /\ GoodPage(r.list, Page(r), Ahead(r))
         /\ WholePage(r.list, Page(r), Ahead(r))
<1> DEFINE after == Ahead(r)
           rows  == First("messages", after, r.limit)
           all   == MessagesOf(r.topic)
           more  == rows # {} /\ \E m \in all : \A i \in rows : m < i
<1>1. r.limit \in Nat \ {0} /\ r.list \in Keyed /\ (r.cursor # NoCursor => r.cursor.id \in Nat)
  BY DEF Reader, Keyed, Cursor
<1>2. Table("messages") = DOMAIN messages /\ all \subseteq DOMAIN messages
  BY DEF Table, MessagesOf
<1>3. \A i : Key("messages", i) = <<0, 0, -i>>
  BY DEF Key
<1>4. \A i \in all : i \in Nat
  BY <1>2, KeyTypes DEF ListName
<1>5. \A i, j \in Nat : Before(<<0, 0, -i>>, <<0, 0, -j>>) <=> j < i
  <2> TAKE i, j \in Nat
  <2>1. <<0, 0, -i>> \in Triple /\ <<0, 0, -j>> \in Triple
    BY DEF Triple
  <2> QED
    BY <2>1, BeforeMeans
<1>6. after = {m \in all : r.cursor # NoCursor => m < r.cursor.id}
  <2>1. Listed(r.list, r.status, r.topic) = all
    BY <1>1 DEF Listed, Selected
  <2> QED
    BY <1>1, <1>3, <1>4, <1>5, <2>1 DEF Ahead
<1>7. /\ Page(r).data = rows /\ Page(r).has_more = more
      /\ Page(r).cursor = IF more THEN encodeCursor("messages", LastOf("messages", rows)) ELSE NoCursor
  BY <1>6 DEF Page, loadMessagesPage
<1>8. rows \subseteq after /\ Ordered("messages", after)
  <2>1. after \subseteq Table("messages")
    BY <1>2, <1>6
  <2> QED
    BY <2>1, KeyTypes, OrderedSubset DEF First, ListName
<1>9. Ordered("messages", rows)
  <2> HIDE DEF after, rows
  <2> QED
    BY <1>8, OrderedSubset
<1>10. CASE more
  <2>1. LastOf("messages", rows) \in rows
        /\ \A i \in rows : ~Before(Key("messages", LastOf("messages", rows)), Key("messages", i))
    BY <1>9, <1>10, LastOfIsLast
  <2>2. \A i \in after \ rows : Before(Key("messages", LastOf("messages", rows)), Key("messages", i))
    BY <1>1, <1>8, <2>1, FirstComeFirst
  <2>3. /\ Page(r).cursor = encodeCursor("messages", LastOf("messages", rows))
        /\ Page(r).cursor.key = Key("messages", LastOf("messages", rows)) /\ Page(r).has_more = TRUE
    <3> HIDE DEF after, rows, all, more
    <3>1. Page(r).has_more = TRUE
      BY <1>7, <1>10, Zenon
    <3> QED
      BY <1>7, <1>10, <3>1, CursorMeans
  <2> HIDE DEF after, rows, all, more
  <2> QED
    BY <1>7, <1>8, <2>1, <2>2, <2>3 DEF GoodPage, WholePage, after
<1>11. CASE ~more
  <2>1. after = rows
    <3>1. SUFFICES ASSUME after \ rows # {} PROVE FALSE
      BY <1>8
    <3>2. rows # {}
      BY <1>1, <1>8, <3>1, FirstNotEmpty
    <3>3. PICK m \in after \ rows : TRUE
      BY <3>1
    <3>4. \A i \in rows : Before(Key("messages", i), Key("messages", m))
      BY <1>1, <1>8, <3>3, FirstComeFirst
    <3>5. m \in all /\ m \in Nat /\ \A i \in rows : i \in Nat
      BY <1>4, <1>6, <1>8, <3>3
    <3>6. \A i \in rows : m < i
      BY <1>3, <1>5, <3>4, <3>5
    <3> QED
      BY <1>11, <3>2, <3>5, <3>6
  <2>2. Page(r).has_more = FALSE /\ Page(r).cursor = NoCursor
    BY <1>7, <1>11
  <2> HIDE DEF after, rows, all, more
  <2> QED
    BY <1>7, <2>1, <2>2 DEF GoodPage, WholePage, after
<1> QED
  BY <1>10, <1>11

\* A page of a list that is read whole.
LEMMA IndexedPageGood ==
  ASSUME TablesOK, NEW r \in Reader, r.list \in {"topicRuns", "events"}
  PROVE  /\ GoodPage(r.list, Page(r), Ahead(r))
         /\ WholePage(r.list, Page(r), Ahead(r))
<1>1. r.list \in ListName /\ r.limit \in Nat \ {0} /\ r.list \notin Keyed
  BY DEF Reader, Keyed
<1>2. Page(r) = paginate(r.list, Ahead(r), r.limit)
  BY <1>1 DEF Page, IndexedPage, Ahead, Listed
<1>3. Ahead(r) \subseteq Table(r.list)
  BY <1>1, SelectedRows DEF Ahead
<1>4. Ordered(r.list, Ahead(r))
  BY <1>1, <1>3, KeyTypes, OrderedSubset
<1> QED
  BY <1>1, <1>2, <1>4, PaginateGood

\* Lists that are filtered by the query alone.
Unfiltered(r) == r.list = "topics" => r.status = "all"

CursorOK(r) == r.list = "messages" /\ r.cursor # NoCursor => r.cursor.key = <<0, 0, -r.cursor.id>>

LEMMA PageGood ==
  ASSUME TablesOK, NEW r \in Reader, CursorOK(r)
  PROVE  /\ GoodPage(r.list, Page(r), Ahead(r))
         /\ Unfiltered(r) => WholePage(r.list, Page(r), Ahead(r))
         /\ Page(r).data \subseteq used /\ Page(r).cursor \in Cursor \cup {NoCursor}
         /\ r.list = "messages" /\ Page(r).cursor # NoCursor => Page(r).cursor.key = <<0, 0, -Page(r).cursor.id>>
<1>1. r.list \in ListName
  BY DEF Reader
<1>2. /\ GoodPage(r.list, Page(r), Ahead(r))
      /\ Unfiltered(r) => WholePage(r.list, Page(r), Ahead(r))
  BY <1>1, KeyedPageGood, MessagesPageGood, IndexedPageGood DEF ListName, CursorOK, Unfiltered
<1>3. Ahead(r) \subseteq Table(r.list)
  BY <1>1, SelectedRows DEF Ahead
<1>4. /\ Table(r.list) \subseteq used
      /\ \A i \in Table(r.list) : i \in Nat /\ Key(r.list, i) \in Triple
  BY <1>1, KeyTypes
<1>5. Page(r).data \subseteq Table(r.list)
  BY <1>2, <1>3 DEF GoodPage
<1>6. Page(r).cursor = NoCursor \/ \E x \in Table(r.list) : Page(r).cursor = encodeCursor(r.list, x)
  BY <1>2, <1>5 DEF GoodPage
<1>7. Page(r).cursor \in Cursor \cup {NoCursor}
  <2> SUFFICES ASSUME NEW x \in Table(r.list) PROVE encodeCursor(r.list, x) \in Cursor
    BY <1>6
  <2>1. x \in Nat /\ Key(r.list, x) \in Triple
    BY <1>4
  <2> QED
    BY <2>1 DEF encodeCursor, Cursor
<1>8. r.list = "messages" /\ Page(r).cursor # NoCursor => Page(r).cursor.key = <<0, 0, -Page(r).cursor.id>>
  <2>1. \A x : Key("messages", x) = <<0, 0, -x>>
    BY DEF Key
  <2> QED
    BY <1>6, <2>1, CursorMeans
<1> QED
  BY <1>2, <1>4, <1>5, <1>7, <1>8

-----------------------------------------------------------------------------
(* The writers.                                                            *)

Writer ==
  \/ createTopic \/ saveMessages \/ createRun \/ finishRun
  \/ createEvent \/ advanceDueEvent \/ updateEvent \/ cancelEvent \/ deleteTopic \/ Tick

\* Tables that a step leaves alone keep their types.
LEMMA StillOK ==
  ASSUME TablesOK, used \subseteq used', clock' \in Nat, clock <= clock'
  PROVE  /\ topics' = topics => TopicsOK'
         /\ messages' = messages => MessagesOK'
         /\ runs' = runs => RunsOK'
         /\ events' = events => EventsOK'
<1>1. clock \in Nat /\ DOMAIN topics \subseteq used' /\ DOMAIN messages \subseteq used'
      /\ DOMAIN runs \subseteq used' /\ DOMAIN events \subseteq used'
  BY DEF TablesOK, IdsOK, TopicsOK, MessagesOK, RunsOK, EventsOK
<1>2. \A t \in DOMAIN topics : topics[t] \in Nat /\ topics[t] <= clock'
  BY <1>1 DEF TablesOK, TopicsOK
<1>3. \A m \in DOMAIN messages : messages[m] \in MessageRow /\ messages[m].created_at <= clock'
  <2> SUFFICES ASSUME NEW m \in DOMAIN messages
               PROVE  messages[m] \in MessageRow /\ messages[m].created_at <= clock'
    OBVIOUS
  <2>1. messages[m] \in MessageRow /\ messages[m].created_at <= clock
    BY DEF TablesOK, MessagesOK
  <2>2. messages[m].created_at \in Nat
    BY <2>1 DEF MessageRow
  <2> QED
    BY <1>1, <2>1, <2>2
<1>4. topics' = topics => TopicsOK'
  BY <1>1, <1>2 DEF TopicsOK
<1>5. messages' = messages => MessagesOK'
  BY <1>1, <1>3 DEF MessagesOK
<1>6. runs' = runs => RunsOK'
  BY <1>1 DEF TablesOK, RunsOK
<1>7. events' = events => EventsOK'
  BY <1>1 DEF TablesOK, EventsOK
<1> QED
  BY <1>4, <1>5, <1>6, <1>7

\* A new id is a number that no row has had.
LEMMA NewId ==
  ASSUME TablesOK, NEW i \in Topics \cup RunIds \cup EventIds \cup 1..MaxMessages,
         i \notin used, used' = used \cup {i}, clock' = clock
  PROVE  /\ i \in Nat /\ IdsOK' /\ used \subseteq used'
         /\ i \notin DOMAIN topics \cup DOMAIN messages \cup DOMAIN runs \cup DOMAIN events
<1>1. i \in Nat
  BY PagesAssumption
<1>2. IsFiniteSet(used')
  BY FS_AddElement DEF TablesOK, IdsOK
<1> QED
  BY <1>1, <1>2 DEF TablesOK, IdsOK, TopicsOK, MessagesOK, RunsOK, EventsOK

\* What the writers put into a row.
LEMMA Rows ==
  ASSUME NEW t \in Nat, NEW at \in Nat, NEW now \in Nat
  PROVE  /\ [topic |-> t, started_at |-> now, status |-> "running"] \in RunRow
         /\ [topic |-> t, next_run_at |-> at, created_at |-> now, status |-> "scheduled"] \in EventRow
         /\ \A run \in RunRow : \A status \in {"done", "error"} : [run EXCEPT !.status = status] \in RunRow
         /\ \A event \in EventRow :
              /\ \A status \in {"scheduled", "done", "canceled"} : [event EXCEPT !.status = status] \in EventRow
              /\ [event EXCEPT !.next_run_at = at] \in EventRow /\ event.next_run_at \in Nat
<1>1. [topic |-> t, started_at |-> now, status |-> "running"] \in RunRow
  BY DEF RunRow
<1>2. [topic |-> t, next_run_at |-> at, created_at |-> now, status |-> "scheduled"] \in EventRow
  BY DEF EventRow
<1>3. ASSUME NEW run \in RunRow, NEW status \in {"done", "error"} PROVE [run EXCEPT !.status = status] \in RunRow
  BY DEF RunRow
<1>4. ASSUME NEW event \in EventRow
      PROVE  /\ \A status \in {"scheduled", "done", "canceled"} : [event EXCEPT !.status = status] \in EventRow
             /\ [event EXCEPT !.next_run_at = at] \in EventRow /\ event.next_run_at \in Nat
  BY DEF EventRow
<1> QED
  BY <1>1, <1>2, <1>3, <1>4

\* Types are kept by the writers.
LEMMA TablesStay ==
  ASSUME TablesOK, Writer
  PROVE  TablesOK' /\ used \subseteq used'
<1>0. IdsOK /\ clock \in Nat /\ clock <= clock
  BY DEF TablesOK, IdsOK
<1>1. CASE createTopic
  <2>1. PICK t \in Fresh(Topics) : topics' = Insert(topics, t, clock) /\ used' = used \cup {t} /\ Touch({t})
    BY <1>1 DEF createTopic
  <2>2. UNCHANGED <<clock, messages, runs, events>>
    BY <1>1, <2>1 DEF createTopic, Touch
  <2>3. t \in Nat /\ IdsOK' /\ used \subseteq used'
    BY <2>1, <2>2, NewId DEF Fresh
  <2>4. DOMAIN topics' = {t} \cup DOMAIN topics /\ topics'[t] = clock
        /\ \A i \in DOMAIN topics : i # t => topics'[i] = topics[i]
    BY <2>1 DEF Insert
  <2>5. DOMAIN topics' \subseteq used'
    BY <2>1, <2>4 DEF TablesOK, TopicsOK
  <2>6. \A i \in DOMAIN topics' : topics'[i] \in Nat /\ topics'[i] <= clock'
    BY <1>0, <2>2, <2>4 DEF TablesOK, TopicsOK
  <2> QED
    BY <1>0, <2>2, <2>3, <2>5, <2>6, StillOK DEF TablesOK, TopicsOK
<1>2. CASE saveMessages
  <2>1. PICK t \in DOMAIN topics, m \in Fresh(1..MaxMessages) :
          /\ messages' = Insert(messages, m, [topic |-> t, created_at |-> clock])
          /\ used' = used \cup {m}
    BY <1>2 DEF saveMessages
  <2>2. UNCHANGED <<clock, topics, runs, events>>
    BY <1>2 DEF saveMessages, Touch
  <2>3. t \in Nat /\ IdsOK' /\ used \subseteq used'
    BY <2>1, <2>2, NewId DEF Fresh, TablesOK, IdsOK, TopicsOK
  <2>4. DOMAIN messages' = {m} \cup DOMAIN messages /\ messages'[m] = [topic |-> t, created_at |-> clock]
        /\ \A i \in DOMAIN messages : i # m => messages'[i] = messages[i]
    BY <2>1 DEF Insert
  <2>5. messages'[m] \in MessageRow /\ messages'[m].created_at <= clock
    BY <1>0, <2>3, <2>4 DEF MessageRow
  <2>6. DOMAIN messages' \subseteq used'
    BY <2>1, <2>4 DEF TablesOK, MessagesOK
  <2>7. \A i \in DOMAIN messages' : messages'[i] \in MessageRow /\ messages'[i].created_at <= clock'
    BY <2>2, <2>4, <2>5 DEF TablesOK, MessagesOK
  <2> QED
    BY <1>0, <2>2, <2>3, <2>6, <2>7, StillOK DEF TablesOK, MessagesOK
<1>3. CASE createRun
  <2>1. PICK t \in DOMAIN topics, r \in Fresh(RunIds) :
          /\ runs' = Insert(runs, r, [topic |-> t, started_at |-> clock, status |-> "running"])
          /\ used' = used \cup {r}
    BY <1>3 DEF createRun
  <2>2. UNCHANGED <<clock, topics, messages, events>>
    BY <1>3 DEF createRun, Touch
  <2>3. t \in Nat /\ IdsOK' /\ used \subseteq used'
    BY <2>1, <2>2, NewId DEF Fresh, TablesOK, IdsOK, TopicsOK
  <2>4. DOMAIN runs' = {r} \cup DOMAIN runs
        /\ runs'[r] = [topic |-> t, started_at |-> clock, status |-> "running"]
        /\ \A i \in DOMAIN runs : i # r => runs'[i] = runs[i]
    BY <2>1 DEF Insert
  <2>5. runs'[r] \in RunRow
    BY <1>0, <2>3, <2>4, Rows
  <2>6. DOMAIN runs' \subseteq used'
    BY <2>1, <2>4 DEF TablesOK, RunsOK
  <2>7. \A i \in DOMAIN runs' : runs'[i] \in RunRow
    BY <2>4, <2>5 DEF TablesOK, RunsOK
  <2> QED
    BY <1>0, <2>2, <2>3, <2>6, <2>7, StillOK DEF TablesOK, RunsOK
<1>4. CASE finishRun
  <2>1. PICK r \in DOMAIN runs, status \in {"done", "error"} : runs' = [runs EXCEPT ![r].status = status]
    BY <1>4 DEF finishRun
  <2>2. UNCHANGED <<clock, topics, messages, events, used>>
    BY <1>4 DEF finishRun, Touch
  <2>3. runs[r] \in RunRow
    BY <2>1 DEF TablesOK, RunsOK
  <2>4. [runs[r] EXCEPT !.status = status] \in RunRow
    BY <2>3, Rows
  <2>5. DOMAIN runs' = DOMAIN runs /\ runs'[r] = [runs[r] EXCEPT !.status = status]
        /\ \A i \in DOMAIN runs : i # r => runs'[i] = runs[i]
    BY <2>1
  <2>6. RunsOK'
    BY <2>2, <2>4, <2>5 DEF TablesOK, RunsOK
  <2> QED
    BY <1>0, <2>2, <2>6, StillOK DEF TablesOK, IdsOK
<1>5. CASE createEvent
  <2>1. PICK t \in DOMAIN topics, e \in Fresh(EventIds), at \in clock + 1..MaxClock + 1 :
          /\ events' = Insert(events, e, [topic |-> t, next_run_at |-> at, created_at |-> clock, status |-> "scheduled"])
          /\ used' = used \cup {e}
    BY <1>5 DEF createEvent
  <2>2. UNCHANGED <<clock, topics, messages, runs>>
    BY <1>5 DEF createEvent, Touch
  <2>3. t \in Nat /\ IdsOK' /\ used \subseteq used'
    BY <2>1, <2>2, NewId DEF Fresh, TablesOK, IdsOK, TopicsOK
  <2>4. DOMAIN events' = {e} \cup DOMAIN events
        /\ events'[e] = [topic |-> t, next_run_at |-> at, created_at |-> clock, status |-> "scheduled"]
        /\ \A i \in DOMAIN events : i # e => events'[i] = events[i]
    BY <2>1 DEF Insert
  <2>5. at \in Nat
    BY <1>0, <2>1, PagesAssumption
  <2>6. events'[e] \in EventRow
    <3>1. [topic |-> t, next_run_at |-> at, created_at |-> clock, status |-> "scheduled"] \in EventRow
      BY <1>0, <2>3, <2>5, Rows
    <3> QED
      BY <2>4, <3>1
  <2>7. DOMAIN events' \subseteq used'
    BY <2>1, <2>4 DEF TablesOK, EventsOK
  <2>8. \A i \in DOMAIN events' : events'[i] \in EventRow
    BY <2>4, <2>6 DEF TablesOK, EventsOK
  <2> QED
    BY <1>0, <2>2, <2>3, <2>7, <2>8, StillOK DEF TablesOK, EventsOK
<1>6. ASSUME NEW e \in DOMAIN events, NEW row \in EventRow, events' = [events EXCEPT ![e] = row],
             UNCHANGED <<clock, topics, messages, runs, used>>
      PROVE  TablesOK' /\ used \subseteq used'
  <2>1. EventsOK'
    BY <1>6 DEF TablesOK, EventsOK
  <2> QED
    BY <1>0, <1>6, <2>1, StillOK DEF TablesOK, IdsOK
<1>7. CASE advanceDueEvent
  <2>1. PICK e \in DOMAIN events, at \in clock + 1..MaxClock + 1, status \in {"scheduled", "done"} :
          events' = [events EXCEPT ![e].status = status, ![e].next_run_at = IF status = "done" THEN @ ELSE at]
    BY <1>7 DEF advanceDueEvent
  <2>2. UNCHANGED <<clock, topics, messages, runs, used>>
    BY <1>7 DEF advanceDueEvent, Touch
  <2>3. at \in Nat /\ events[e] \in EventRow
    BY <1>0, <2>1, PagesAssumption DEF TablesOK, EventsOK
  <2> DEFINE next == IF status = "done" THEN events[e].next_run_at ELSE at
             put  == [events[e] EXCEPT !.status = status]
             row  == [put EXCEPT !.next_run_at = next]
  <2>4. next \in Nat
    BY <2>3, Rows
  <2>5. put \in EventRow
    BY <2>1, <2>3, Rows
  <2>6. row \in EventRow
    <3> HIDE DEF next, put
    <3> QED
      BY <2>4, <2>5, Rows
  <2>7. events' = [events EXCEPT ![e] = row]
    <3>1. row = [events[e] EXCEPT !.status = status, !.next_run_at = next]
      OBVIOUS
    <3> QED
      BY <2>1, <3>1
  <2> HIDE DEF row
  <2> QED
    BY <1>6, <2>2, <2>6, <2>7
<1>8. CASE updateEvent
  <2>1. PICK e \in DOMAIN events, at \in clock + 1..MaxClock + 1 : events' = [events EXCEPT ![e].next_run_at = at]
    BY <1>8 DEF updateEvent
  <2>2. UNCHANGED <<clock, topics, messages, runs, used>>
    BY <1>8 DEF updateEvent, Touch
  <2>3. at \in Nat /\ events[e] \in EventRow
    BY <1>0, <2>1, PagesAssumption DEF TablesOK, EventsOK
  <2> DEFINE row == [events[e] EXCEPT !.next_run_at = at]
  <2>4. row \in EventRow
    BY <2>3, Rows
  <2>5. events' = [events EXCEPT ![e] = row]
    BY <2>1
  <2> HIDE DEF row
  <2> QED
    BY <1>6, <2>2, <2>4, <2>5
<1>9. CASE cancelEvent
  <2>1. PICK e \in DOMAIN events : events' = [events EXCEPT ![e].status = "canceled"]
    BY <1>9 DEF cancelEvent
  <2>2. UNCHANGED <<clock, topics, messages, runs, used>>
    BY <1>9 DEF cancelEvent, Touch
  <2>3. events[e] \in EventRow
    BY <2>1 DEF TablesOK, EventsOK
  <2> DEFINE row == [events[e] EXCEPT !.status = "canceled"]
  <2>4. row \in EventRow
    BY <2>3, Rows
  <2>5. events' = [events EXCEPT ![e] = row]
    BY <2>1
  <2> HIDE DEF row
  <2> QED
    BY <1>6, <2>2, <2>4, <2>5
<1>10. CASE deleteTopic
  <2>1. \E a, b, c, d : /\ topics' = Without(topics, a) /\ messages' = Without(messages, b)
                        /\ runs' = Without(runs, c) /\ events' = Without(events, d)
    BY <1>10 DEF deleteTopic
  <2>2. UNCHANGED <<clock, used>>
    BY <1>10 DEF deleteTopic, Touch
  <2>3. DOMAIN topics' \subseteq DOMAIN topics /\ \A i \in DOMAIN topics' : topics'[i] = topics[i]
    BY <2>1 DEF Without
  <2>4. DOMAIN messages' \subseteq DOMAIN messages /\ \A i \in DOMAIN messages' : messages'[i] = messages[i]
    BY <2>1 DEF Without
  <2>5. DOMAIN runs' \subseteq DOMAIN runs /\ \A i \in DOMAIN runs' : runs'[i] = runs[i]
    BY <2>1 DEF Without
  <2>6. DOMAIN events' \subseteq DOMAIN events /\ \A i \in DOMAIN events' : events'[i] = events[i]
    BY <2>1 DEF Without
  <2>7. TopicsOK' /\ MessagesOK'
    BY <2>2, <2>3, <2>4 DEF TablesOK, TopicsOK, MessagesOK
  <2>8. RunsOK' /\ EventsOK'
    BY <2>2, <2>5, <2>6 DEF TablesOK, RunsOK, EventsOK
  <2> QED
    BY <1>0, <2>2, <2>7, <2>8 DEF TablesOK, IdsOK
<1>11. CASE Tick
  <2>1. clock' = clock + 1 /\ UNCHANGED <<topics, messages, runs, events, used>>
    BY <1>11 DEF Tick, tables
  <2>2. IdsOK' /\ clock <= clock'
    BY <1>0, <2>1 DEF IdsOK
  <2> QED
    BY <2>1, <2>2, StillOK DEF TablesOK, IdsOK
<1> QED
  BY <1>1, <1>2, <1>3, <1>4, <1>5, <1>7, <1>8, <1>9, <1>10, <1>11 DEF Writer

RunsOf(t)   == {r \in DOMAIN runs : runs[r].topic = t}
EventsOf(t) == {e \in DOMAIN events : events[e].topic = t}

\* What goes with a topic, and which rows are no longer quiet.
LEMMA DeleteMeans ==
  ASSUME deleteTopic
  PROVE  \E t \in DOMAIN topics :
           /\ DOMAIN topics' = DOMAIN topics \ {t}
           /\ DOMAIN messages' = DOMAIN messages \ MessagesOf(t)
           /\ DOMAIN runs' = DOMAIN runs \ RunsOf(t)
           /\ DOMAIN events' = DOMAIN events \ EventsOf(t)
           /\ \A i \in DOMAIN topics' : topics'[i] = topics[i]
           /\ \A i \in DOMAIN messages' : messages'[i] = messages[i]
           /\ \A i \in DOMAIN runs' : runs'[i] = runs[i]
           /\ \A i \in DOMAIN events' : events'[i] = events[i]
           /\ reader.list = "topics" => quiet' = quiet \ {t}
           /\ reader.list = "messages" => quiet' = quiet \ MessagesOf(t)
           /\ reader.list = "events" => quiet' = quiet \ EventsOf(t)
           /\ reader.list \in {"runs", "topicRuns"} => quiet' = quiet \ RunsOf(t)
           /\ quiet' \subseteq quiet /\ UNCHANGED <<reader, lost, clock, used>>
<1> DEFINE of(f, t) == {i \in DOMAIN f : f[i].topic = t}
<1>1. PICK t \in DOMAIN topics :
        /\ topics' = Without(topics, {t}) /\ messages' = Without(messages, of(messages, t))
        /\ runs' = Without(runs, of(runs, t)) /\ events' = Without(events, of(events, t))
        /\ Touch(CASE reader.list = "topics"   -> {t}
                   [] reader.list = "messages" -> of(messages, t)
                   [] reader.list = "events"   -> of(events, t)
                   [] OTHER                    -> of(runs, t))
        /\ UNCHANGED used
  BY DEF deleteTopic
<1>2. of(messages, t) = MessagesOf(t) /\ of(runs, t) = RunsOf(t) /\ of(events, t) = EventsOf(t)
  BY DEF MessagesOf, RunsOf, EventsOf
<1> HIDE DEF of
<1>3. DOMAIN topics' = DOMAIN topics \ {t} /\ \A i \in DOMAIN topics' : topics'[i] = topics[i]
  BY <1>1 DEF Without
<1>4. DOMAIN messages' = DOMAIN messages \ MessagesOf(t) /\ \A i \in DOMAIN messages' : messages'[i] = messages[i]
  BY <1>1, <1>2 DEF Without
<1>5. DOMAIN runs' = DOMAIN runs \ RunsOf(t) /\ \A i \in DOMAIN runs' : runs'[i] = runs[i]
  BY <1>1, <1>2 DEF Without
<1>6. DOMAIN events' = DOMAIN events \ EventsOf(t) /\ \A i \in DOMAIN events' : events'[i] = events[i]
  BY <1>1, <1>2 DEF Without
<1>7. /\ reader.list = "topics" => quiet' = quiet \ {t}
      /\ reader.list = "messages" => quiet' = quiet \ MessagesOf(t)
      /\ reader.list = "events" => quiet' = quiet \ EventsOf(t)
      /\ reader.list \in {"runs", "topicRuns"} => quiet' = quiet \ RunsOf(t)
      /\ quiet' \subseteq quiet /\ UNCHANGED <<reader, lost, clock, used>>
  BY <1>1, <1>2 DEF Touch
<1> QED
  BY <1>3, <1>4, <1>5, <1>6, <1>7

\* Which table each writer writes.
LEMMA WriterWrites ==
  ASSUME Writer
  PROVE  /\ UNCHANGED <<reader, lost>> /\ quiet' \subseteq quiet
         /\ topics' = topics \/ createTopic \/ deleteTopic
         /\ messages' = messages \/ saveMessages \/ deleteTopic
         /\ runs' = runs \/ createRun \/ finishRun \/ deleteTopic
         /\ events' = events \/ createEvent \/ advanceDueEvent \/ updateEvent \/ cancelEvent \/ deleteTopic
<1>1. CASE createTopic
  BY <1>1 DEF createTopic, Touch
<1>2. CASE saveMessages
  BY <1>2 DEF saveMessages, Touch
<1>3. CASE createRun
  BY <1>3 DEF createRun, Touch
<1>4. CASE finishRun
  BY <1>4 DEF finishRun, Touch
<1>5. CASE createEvent
  BY <1>5 DEF createEvent, Touch
<1>6. CASE advanceDueEvent
  BY <1>6 DEF advanceDueEvent, Touch
<1>7. CASE updateEvent
  BY <1>7 DEF updateEvent, Touch
<1>8. CASE cancelEvent
  BY <1>8 DEF cancelEvent, Touch
<1>9. CASE deleteTopic
  BY <1>9, DeleteMeans
<1>10. CASE Tick
  BY <1>10 DEF Tick, tables
<1> QED
  BY <1>1, <1>2, <1>3, <1>4, <1>5, <1>6, <1>7, <1>8, <1>9, <1>10 DEF Writer

\* A topic that was there is still the topic it was; a quiet one has got no message.
LEMMA TopicsMove ==
  ASSUME TablesOK, Writer
  PROVE  /\ \A i \in DOMAIN topics' \cap used : i \in DOMAIN topics /\ topics'[i] = topics[i]
         /\ reader.list = "topics" => \A i \in quiet' \cap DOMAIN topics : i \in DOMAIN topics'
<1>1. CASE topics' = topics
  BY <1>1
<1>2. CASE createTopic
  <2>1. PICK t \in Fresh(Topics) : topics' = Insert(topics, t, clock)
    BY <1>2 DEF createTopic
  <2>2. DOMAIN topics' = {t} \cup DOMAIN topics /\ \A i \in DOMAIN topics : i # t => topics'[i] = topics[i]
    BY <2>1 DEF Insert
  <2> QED
    BY <2>1, <2>2 DEF Fresh, TablesOK, TopicsOK
<1>3. CASE deleteTopic
  BY <1>3, DeleteMeans
<1> QED
  BY <1>1, <1>2, <1>3, WriterWrites

LEMMA MessagesMove ==
  ASSUME TablesOK, Writer
  PROVE  /\ \A m \in DOMAIN messages' \cap used : m \in DOMAIN messages /\ messages'[m] = messages[m]
         /\ \A i \in DOMAIN topics' : \A m \in MessagesOf(i) : m \in DOMAIN messages' \cap used
         /\ reader.list = "messages" => \A m \in quiet' \cap DOMAIN messages : m \in DOMAIN messages'
         /\ reader.list = "topics" => \A i \in quiet' : MessagesOf(i)' \subseteq used
<1>1. DOMAIN messages \subseteq used /\ \A i : MessagesOf(i) \subseteq DOMAIN messages
  BY DEF TablesOK, MessagesOK, MessagesOf
<1>2. CASE messages' = messages
  <2>1. \A i : MessagesOf(i)' = MessagesOf(i)
    BY <1>2 DEF MessagesOf
  <2> QED
    BY <1>1, <1>2, <2>1
<1>3. CASE saveMessages
  <2>1. PICK t \in DOMAIN topics, m \in Fresh(1..MaxMessages) :
          /\ messages' = Insert(messages, m, [topic |-> t, created_at |-> clock])
          /\ Touch(IF reader.list = "topics" THEN {t} ELSE {m})
    BY <1>3 DEF saveMessages
  <2>2. DOMAIN messages' = {m} \cup DOMAIN messages /\ messages'[m] = [topic |-> t, created_at |-> clock]
        /\ \A i \in DOMAIN messages : i # m => messages'[i] = messages[i]
    BY <2>1 DEF Insert
  <2>3. m \notin used
    BY <2>1 DEF Fresh
  <2>4. ASSUME reader.list = "topics", NEW i \in quiet' PROVE MessagesOf(i)' \subseteq used
    <3>1. i # t
      BY <2>1, <2>4 DEF Touch
    <3>2. MessagesOf(i)' = {n \in DOMAIN messages' : messages'[n].topic = i}
      BY DEF MessagesOf
    <3>3. m \notin MessagesOf(i)'
      BY <2>2, <3>1, <3>2
    <3> QED
      BY <1>1, <2>2, <3>2, <3>3
  <2> QED
    BY <1>1, <2>2, <2>3, <2>4
<1>4. CASE deleteTopic
  <2>1. PICK t \in DOMAIN topics :
          /\ DOMAIN topics' = DOMAIN topics \ {t}
          /\ DOMAIN messages' = DOMAIN messages \ MessagesOf(t)
          /\ \A i \in DOMAIN messages' : messages'[i] = messages[i]
          /\ reader.list = "messages" => quiet' = quiet \ MessagesOf(t)
    BY <1>4, DeleteMeans
  <2>2. \A i \in DOMAIN topics' : \A m \in MessagesOf(i) : m \in DOMAIN messages'
    BY <2>1 DEF MessagesOf
  <2>3. \A i : MessagesOf(i)' \subseteq DOMAIN messages'
    BY DEF MessagesOf
  <2> QED
    BY <1>1, <2>1, <2>2, <2>3
<1> QED
  BY <1>2, <1>3, <1>4, WriterWrites

\* A run keeps its start and its topic; a quiet one is as it was.
LEMMA RunsMove ==
  ASSUME TablesOK, Writer
  PROVE  /\ \A r \in DOMAIN runs' \cap used : /\ r \in DOMAIN runs
                                             /\ runs'[r].started_at = runs[r].started_at
         /\ reader.list \in {"runs", "topicRuns"} =>
              \A r \in quiet' \cap DOMAIN runs : r \in DOMAIN runs' /\ runs'[r] = runs[r]
<1>1. CASE runs' = runs
  BY <1>1
<1>2. CASE createRun
  <2>1. PICK t \in DOMAIN topics, r \in Fresh(RunIds) :
          runs' = Insert(runs, r, [topic |-> t, started_at |-> clock, status |-> "running"])
    BY <1>2 DEF createRun
  <2>2. DOMAIN runs' = {r} \cup DOMAIN runs /\ \A i \in DOMAIN runs : i # r => runs'[i] = runs[i]
    BY <2>1 DEF Insert
  <2> QED
    BY <2>1, <2>2 DEF Fresh, TablesOK, RunsOK
<1>3. CASE finishRun
  <2>1. PICK r \in DOMAIN runs, status \in {"done", "error"} :
          /\ runs' = [runs EXCEPT ![r].status = status]
          /\ Touch(IF reader.list = "topics" THEN {runs[r].topic} ELSE {r})
    BY <1>3 DEF finishRun
  <2>2. DOMAIN runs' = DOMAIN runs /\ runs'[r] = [runs[r] EXCEPT !.status = status]
        /\ \A i \in DOMAIN runs : i # r => runs'[i] = runs[i]
    BY <2>1
  <2>3. runs'[r].started_at = runs[r].started_at
    BY <2>2 DEF TablesOK, RunsOK, RunRow
  <2>4. reader.list \in {"runs", "topicRuns"} => r \notin quiet'
    BY <2>1 DEF Touch
  <2> QED
    BY <2>2, <2>3, <2>4
<1>4. CASE deleteTopic
  BY <1>4, DeleteMeans
<1> QED
  BY <1>1, <1>2, <1>3, <1>4, WriterWrites

\* A quiet event is as it was.
LEMMA EventsMove ==
  ASSUME TablesOK, Writer, reader.list = "events"
  PROVE  \A e \in quiet' \cap DOMAIN events : e \in DOMAIN events' /\ events'[e] = events[e]
<1>1. CASE events' = events
  BY <1>1
<1>2. CASE createEvent
  <2>1. PICK t \in DOMAIN topics, e \in Fresh(EventIds), at \in clock + 1..MaxClock + 1 :
          /\ events' = Insert(events, e, [topic |-> t, next_run_at |-> at, created_at |-> clock, status |-> "scheduled"])
    BY <1>2 DEF createEvent
  <2>2. DOMAIN events' = {e} \cup DOMAIN events /\ \A i \in DOMAIN events : i # e => events'[i] = events[i]
    BY <2>1 DEF Insert
  <2> QED
    BY <2>1, <2>2 DEF Fresh, TablesOK, EventsOK
<1>3. ASSUME NEW e \in DOMAIN events, Touch({e}), DOMAIN events' = DOMAIN events,
             \A i \in DOMAIN events : i # e => events'[i] = events[i]
      PROVE  \A i \in quiet' \cap DOMAIN events : i \in DOMAIN events' /\ events'[i] = events[i]
  BY <1>3 DEF Touch
<1>4. CASE advanceDueEvent
  <2>1. PICK e \in DOMAIN events, at \in clock + 1..MaxClock + 1, status \in {"scheduled", "done"} :
          /\ events' = [events EXCEPT ![e].status = status, ![e].next_run_at = IF status = "done" THEN @ ELSE at]
          /\ Touch({e})
    BY <1>4 DEF advanceDueEvent
  <2>2. DOMAIN events' = DOMAIN events /\ \A i \in DOMAIN events : i # e => events'[i] = events[i]
    BY <2>1
  <2> QED
    BY <1>3, <2>1, <2>2
<1>5. CASE updateEvent
  <2>1. PICK e \in DOMAIN events, at \in clock + 1..MaxClock + 1 :
          events' = [events EXCEPT ![e].next_run_at = at] /\ Touch({e})
    BY <1>5 DEF updateEvent
  <2>2. DOMAIN events' = DOMAIN events /\ \A i \in DOMAIN events : i # e => events'[i] = events[i]
    BY <2>1
  <2> QED
    BY <1>3, <2>1, <2>2
<1>6. CASE cancelEvent
  <2>1. PICK e \in DOMAIN events : events' = [events EXCEPT ![e].status = "canceled"] /\ Touch({e})
    BY <1>6 DEF cancelEvent
  <2>2. DOMAIN events' = DOMAIN events /\ \A i \in DOMAIN events : i # e => events'[i] = events[i]
    BY <2>1
  <2> QED
    BY <1>3, <2>1, <2>2
<1>7. CASE deleteTopic
  BY <1>7, DeleteMeans
<1> QED
  BY <1>1, <1>2, <1>4, <1>5, <1>6, <1>7, WriterWrites

\* What is known of the times and of the keys in every state.
TimesOK ==
  \A t \in DOMAIN topics :
    /\ last_message_at(t) \in Nat /\ topics[t] <= last_message_at(t)
    /\ \A m \in MessagesOf(t) : messages[m].created_at <= last_message_at(t)
    /\ \/ last_message_at(t) = topics[t]
       \/ \E m \in MessagesOf(t) : last_message_at(t) = messages[m].created_at

KeysOK == \A list \in ListName : \A i \in Table(list) : i \in Nat /\ Key(list, i) \in Triple

LEMMA TimesAndKeys == TablesOK => TimesOK /\ KeysOK
<1> SUFFICES ASSUME TablesOK PROVE TimesOK /\ KeysOK
  OBVIOUS
<1>1. TimesOK
  BY LastMessage DEF TimesOK
<1>2. KeysOK
  BY KeyTypes DEF KeysOK
<1> QED
  BY <1>1, <1>2

\* Rows of a list that is read by key move to its front if they move at all.
LEMMA KeysMove ==
  ASSUME TablesOK, Writer, NEW list \in Keyed
  PROVE  \A i \in Table(list)' \cap used : /\ i \in Table(list)
                                          /\ ~Before(Key(list, i), Key(list, i)')
<1>1. TablesOK'
  BY TablesStay
<1>2. TimesOK /\ KeysOK /\ TimesOK' /\ KeysOK'
  BY <1>1, TimesAndKeys, PTL
<1>3. CASE list = "topics"
  <2> SUFFICES ASSUME NEW i \in DOMAIN topics' \cap used
               PROVE  i \in DOMAIN topics /\ ~Before(Key(list, i), Key(list, i)')
    BY <1>3 DEF Table
  <2>1. i \in DOMAIN topics /\ topics'[i] = topics[i]
    BY TopicsMove
  <2>2. \A m \in MessagesOf(i) : m \in MessagesOf(i)' /\ messages'[m] = messages[m]
    BY MessagesMove DEF MessagesOf
  <2>3. /\ last_message_at(i) \in Nat /\ last_message_at(i)' \in Nat /\ topics'[i] <= last_message_at(i)'
        /\ \A m \in MessagesOf(i)' : messages'[m].created_at <= last_message_at(i)'
        /\ \/ last_message_at(i) = topics[i]
           \/ \E m \in MessagesOf(i) : last_message_at(i) = messages[m].created_at
    BY <1>2, <2>1 DEF TimesOK
  <2>4. last_message_at(i) <= last_message_at(i)'
    BY <2>1, <2>2, <2>3
  <2>5. i \in Nat /\ Key(list, i) \in Triple /\ Key(list, i)' \in Triple
    BY <1>2, <1>3, <2>1 DEF KeysOK, Table, ListName
  <2>6. Key(list, i) = <<-last_message_at(i), 0, -i>> /\ Key(list, i)' = <<-last_message_at(i)', 0, -i>>
    BY <1>3 DEF Key
  <2> QED
    BY <2>1, <2>3, <2>4, <2>5, <2>6, BeforeMeans
<1>4. CASE list = "messages"
  <2> SUFFICES ASSUME NEW i \in DOMAIN messages' \cap used
               PROVE  i \in DOMAIN messages /\ ~Before(Key(list, i), Key(list, i)')
    BY <1>4 DEF Table
  <2>1. i \in DOMAIN messages
    BY MessagesMove
  <2>2. Key(list, i)' = Key(list, i)
    BY <1>4 DEF Key
  <2>3. Key(list, i) \in Triple
    BY <1>2, <1>4, <2>1 DEF KeysOK, Table, ListName
  <2> QED
    BY <2>1, <2>2, <2>3, BeforeIsTotal
<1>5. CASE list = "runs"
  <2> SUFFICES ASSUME NEW i \in DOMAIN runs' \cap used
               PROVE  i \in DOMAIN runs /\ ~Before(Key(list, i), Key(list, i)')
    BY <1>5 DEF Table
  <2>1. i \in DOMAIN runs /\ runs'[i].started_at = runs[i].started_at
    BY RunsMove
  <2>2. Key(list, i)' = Key(list, i)
    BY <1>5, <2>1 DEF Key
  <2>3. Key(list, i) \in Triple
    BY <1>2, <1>5, <2>1 DEF KeysOK, Table, ListName
  <2> QED
    BY <2>1, <2>2, <2>3, BeforeIsTotal
<1> QED
  BY <1>3, <1>4, <1>5 DEF Keyed

\* A row nobody writes stays in the list, where it was.
LEMMA QuietStay ==
  ASSUME TablesOK, Writer, NEW list \in ListName, list = reader.list, NEW status, NEW topic
  PROVE  \A i \in quiet' \cap Listed(list, status, topic) :
           i \in Listed(list, status, topic)' /\ Key(list, i)' = Key(list, i)
<1> SUFFICES ASSUME NEW i \in quiet' \cap Listed(list, status, topic)
             PROVE  i \in Listed(list, status, topic)' /\ Key(list, i)' = Key(list, i)
  OBVIOUS
<1>1. TablesOK'
  BY TablesStay
<1>2. TimesOK /\ KeysOK /\ TimesOK' /\ KeysOK'
  BY <1>1, TimesAndKeys, PTL
<1>3. CASE list = "topics"
  <2>1. i \in DOMAIN topics
    BY <1>3 DEF Listed, Selected, Keyed
  <2>2. i \in DOMAIN topics' \cap used
    BY <1>3, <2>1, TopicsMove DEF TablesOK, TopicsOK
  <2>3. topics'[i] = topics[i]
    BY <2>2, TopicsMove
  <2>4. \A m \in MessagesOf(i) : m \in MessagesOf(i)' /\ messages'[m] = messages[m]
    BY <2>2, MessagesMove DEF MessagesOf
  <2>5. \A m \in MessagesOf(i)' : m \in MessagesOf(i) /\ messages'[m] = messages[m]
    <3>1. MessagesOf(i)' \subseteq used
      BY <1>3, MessagesMove
    <3>2. \A m \in MessagesOf(i)' : m \in DOMAIN messages' \cap used
      BY <3>1 DEF MessagesOf
    <3> QED
      BY <3>2, MessagesMove DEF MessagesOf
  <2>6. MessagesOf(i)' = MessagesOf(i)
    BY <2>4, <2>5
  <2>7. {topics'[i]} \cup {messages'[m].created_at : m \in MessagesOf(i)'}
        = {topics[i]} \cup {messages[m].created_at : m \in MessagesOf(i)}
    BY <2>3, <2>4, <2>6
  <2>8. last_message_at(i)' = last_message_at(i)
    BY <2>7 DEF last_message_at
  <2> QED
    BY <1>3, <2>2, <2>8 DEF Listed, Selected, Keyed, Key
<1>4. CASE list = "messages"
  <2>1. i \in DOMAIN messages /\ messages[i].topic = topic
    BY <1>4 DEF Listed, Selected, Keyed, MessagesOf
  <2>2. i \in DOMAIN messages' /\ messages'[i] = messages[i]
    BY <1>4, <2>1, MessagesMove DEF TablesOK, MessagesOK
  <2> QED
    BY <1>4, <2>1, <2>2 DEF Listed, Selected, Keyed, MessagesOf, Key
<1>5. CASE list = "runs"
  <2>1. i \in DOMAIN runs /\ status \in {"all", runs[i].status}
    BY <1>5 DEF Listed, Selected, Keyed
  <2>2. i \in DOMAIN runs' /\ runs'[i] = runs[i]
    BY <1>5, <2>1, RunsMove
  <2> QED
    BY <1>5, <2>1, <2>2 DEF Listed, Selected, Keyed, Key
<1>6. CASE list = "topicRuns"
  <2>1. i \in DOMAIN runs /\ runs[i].topic = topic /\ (status # "all" => runs[i].status = status)
    BY <1>6 DEF Listed, Selected, PostFilter, Keyed
  <2>2. i \in DOMAIN runs' /\ runs'[i] = runs[i]
    BY <1>6, <2>1, RunsMove
  <2> QED
    BY <1>6, <2>1, <2>2 DEF Listed, Selected, PostFilter, Keyed, Key
<1>7. CASE list = "events"
  <2>1. /\ i \in DOMAIN events /\ (status # "all" => events[i].status = status)
        /\ status \in {"all", "canceled"} \/ events[i].status # "canceled"
    BY <1>7 DEF Listed, Selected, PostFilter, Keyed
  <2>2. i \in DOMAIN events' /\ events'[i] = events[i]
    BY <1>7, <2>1, EventsMove
  <2> QED
    BY <1>7, <2>1, <2>2 DEF Listed, Selected, PostFilter, Keyed, Key
<1> QED
  BY <1>3, <1>4, <1>5, <1>6, <1>7 DEF ListName

-----------------------------------------------------------------------------
(* The invariant.                                                          *)

Seen(r) == r.page \cup r.seen

\* Where the cursor stands, and whether that is known: a cursor into a list
\* that is read whole stands where its row does.
Place(r) == IF r.list \in Keyed THEN r.cursor.key ELSE Key(r.list, r.cursor.id)
Sure(r)  == r.list \in Keyed \/ (~lost /\ r.cursor.id \in quiet)
Kept(r)  == IF r.list \in Keyed THEN Table(r.list) ELSE quiet

ReaderOK(r) ==
  /\ r \in Reader /\ CursorOK(r) /\ lost \in BOOLEAN
  /\ Seen(r) \subseteq used
  /\ r.state = "closed" => Seen(r) = {} /\ r.cursor = NoCursor
  /\ r.state = "more" => r.cursor # NoCursor

\* No row that was shown lies ahead of the cursor.
ShownIsBehind(r) ==
  r.state = "more" /\ Sure(r) => \A i \in Seen(r) \cap Kept(r) : ~Before(Place(r), Key(r.list, i))

ShownOnce(r) == \A i \in r.page \cap r.seen : r.list \notin Keyed /\ (lost \/ i \notin quiet)

\* A quiet row is in the list, and was shown or lies ahead of the cursor.
QuietIsListed(r) == IF r.state = "closed" THEN quiet = {} ELSE quiet \subseteq Listed(r.list, r.status, r.topic)

QuietIsAhead(r) ==
  r.state = "more" /\ Sure(r) => \A i \in quiet : i \in Seen(r) \/ Before(Place(r), Key(r.list, i))

QuietWasShown(r) == r.state = "end" /\ (r.list \in Keyed \/ ~lost) => quiet \subseteq Seen(r)

PagesInv ==
  /\ TablesOK /\ ReaderOK(reader) /\ QuietIsListed(reader)
  /\ ShownIsBehind(reader) /\ ShownOnce(reader)
  /\ Unfiltered(reader) => QuietIsAhead(reader) /\ QuietWasShown(reader)

LEMMA WritersKeep ==
  ASSUME PagesInv, Writer
  PROVE  PagesInv'
<1>1. PICK r : r = reader
  OBVIOUS
<1>2. /\ TablesOK /\ ReaderOK(r) /\ QuietIsListed(r) /\ ShownIsBehind(r) /\ ShownOnce(r)
      /\ Unfiltered(r) => QuietIsAhead(r) /\ QuietWasShown(r)
  BY <1>1 DEF PagesInv
<1>3. reader' = r /\ lost' = lost /\ quiet' \subseteq quiet /\ TablesOK' /\ used \subseteq used'
  BY <1>1, <1>2, WriterWrites, TablesStay
<1>4. r.list \in ListName
  BY <1>2 DEF ReaderOK, Reader
<1>5. \A i \in quiet' \cap Listed(r.list, r.status, r.topic) :
        i \in Listed(r.list, r.status, r.topic)' /\ Key(r.list, i)' = Key(r.list, i)
  BY <1>1, <1>2, <1>4, QuietStay
<1>6. r.list \in Keyed => \A i \in Table(r.list)' \cap used :
        i \in Table(r.list) /\ ~Before(Key(r.list, i), Key(r.list, i)')
  BY <1>2, KeysMove
<1>7. KeysOK /\ KeysOK'
  BY <1>2, <1>3, TimesAndKeys, PTL
<1>8. ReaderOK(r)'
  BY <1>2, <1>3 DEF ReaderOK, CursorOK, Seen
<1>9. QuietIsListed(r)'
  BY <1>2, <1>3, <1>5 DEF QuietIsListed
<1>10. ShownOnce(r)'
  BY <1>2, <1>3 DEF ShownOnce
<1>11. ASSUME r.state = "more"
       PROVE  \A i \in quiet' : i \in Listed(r.list, r.status, r.topic) /\ Key(r.list, i)' = Key(r.list, i)
  BY <1>2, <1>3, <1>5, <1>11 DEF QuietIsListed
<1>12. ASSUME r.state = "more", Sure(r)'
       PROVE  Sure(r) /\ Place(r)' = Place(r)
  BY <1>3, <1>11, <1>12 DEF Sure, Place
<1>13. ShownIsBehind(r)'
  <2> SUFFICES ASSUME r.state = "more", Sure(r)', NEW i \in Seen(r) \cap Kept(r)'
               PROVE  ~Before(Place(r)', Key(r.list, i)')
    BY DEF ShownIsBehind, Seen
  <2>1. CASE r.list \in Keyed
    <3>1. i \in Table(r.list)' \cap used
      BY <1>2, <2>1 DEF Kept, ReaderOK
    <3>2. i \in Table(r.list) /\ ~Before(Key(r.list, i), Key(r.list, i)')
      BY <1>6, <2>1, <3>1
    <3>3. ~Before(Place(r), Key(r.list, i))
      BY <1>2, <1>12, <2>1, <3>2 DEF ShownIsBehind, Kept
    <3>4. Key(r.list, i) \in Triple /\ Key(r.list, i)' \in Triple
      BY <1>4, <1>7, <3>1, <3>2 DEF KeysOK
    <3>5. Place(r) \in Triple
      BY <1>2, <2>1 DEF Place, ReaderOK, Reader, Cursor
    <3> QED
      BY <1>12, <3>2, <3>3, <3>4, <3>5, BeforeIsTotal
  <2>2. CASE r.list \notin Keyed
    <3>1. i \in quiet' /\ i \in Seen(r) \cap Kept(r)
      BY <1>3, <2>2 DEF Kept
    <3>2. ~Before(Place(r), Key(r.list, i))
      BY <1>2, <1>12, <3>1 DEF ShownIsBehind
    <3> QED
      BY <1>11, <1>12, <3>1, <3>2
  <2> QED
    BY <2>1, <2>2
<1>14. Unfiltered(r) => QuietIsAhead(r)'
  <2> SUFFICES ASSUME Unfiltered(r), r.state = "more", Sure(r)', NEW i \in quiet'
               PROVE  i \in Seen(r) \/ Before(Place(r)', Key(r.list, i)')
    BY DEF QuietIsAhead, Seen
  <2>1. i \in Seen(r) \/ Before(Place(r), Key(r.list, i))
    BY <1>2, <1>3, <1>12 DEF QuietIsAhead
  <2> QED
    BY <1>11, <1>12, <2>1
<1>15. Unfiltered(r) => QuietWasShown(r)'
  BY <1>2, <1>3 DEF QuietWasShown, Seen
<1> QED
  BY <1>3, <1>8, <1>9, <1>10, <1>13, <1>14, <1>15 DEF PagesInv, Unfiltered

\* Tables that nobody writes are read as before.
LEMMA SameRows ==
  ASSUME UNCHANGED tables
  PROVE  \A list, status, topic, i :
           /\ Key(list, i)' = Key(list, i) /\ Table(list)' = Table(list)
           /\ Listed(list, status, topic)' = Listed(list, status, topic)
<1>1. topics' = topics /\ messages' = messages /\ runs' = runs /\ events' = events
  BY DEF tables
<1>2. \A i : MessagesOf(i)' = MessagesOf(i)
  BY <1>1 DEF MessagesOf
<1>3. \A i : last_message_at(i)' = last_message_at(i)
  BY <1>1, <1>2 DEF last_message_at
<1>4. \A list, i : Key(list, i)' = Key(list, i) /\ Table(list)' = Table(list)
  BY <1>1, <1>3 DEF Key, Table
<1>5. \A list, status, topic : Selected(list, status, topic)' = Selected(list, status, topic)
  BY <1>1, <1>2 DEF Selected
<1>6. getActiveRunTopics' = getActiveRunTopics
  BY <1>1 DEF getActiveRunTopics
<1>7. \A list, status, rows : PostFilter(list, status, rows)' = PostFilter(list, status, rows)
  BY <1>1, <1>6 DEF PostFilter
<1> QED
  BY <1>4, <1>5, <1>7 DEF Listed

\* A page is turned: the first one, or the one after the cursor.
LEMMA TurnPage ==
  ASSUME TablesOK, UNCHANGED <<tables, clock, used>>,
         NEW r \in Reader, CursorOK(r), Seen(r) \subseteq used,
         NEW s, s = [r EXCEPT !.state = IF Page(r).has_more THEN "more" ELSE "end",
                              !.page = Page(r).data, !.seen = Seen(r), !.cursor = Page(r).cursor],
         lost' \in BOOLEAN, quiet' \subseteq Listed(r.list, r.status, r.topic),
         r.cursor = NoCursor => Seen(r) = {},
         r.cursor # NoCursor /\ Sure(r)' => \A i \in Seen(r) \cap Kept(r)' : ~Before(Place(r), Key(r.list, i)),
         r.list \in Keyed \/ lost' \/ r.cursor = NoCursor \/ r.cursor.id \in quiet'
  PROVE  /\ TablesOK' /\ ReaderOK(s)' /\ QuietIsListed(s)' /\ ShownIsBehind(s)' /\ ShownOnce(s)'
         /\ \/ ~Unfiltered(r)
            \/ ~(r.cursor # NoCursor /\ Sure(r)' => \A i \in quiet' : i \in Seen(r) \/ Before(Place(r), Key(r.list, i)))
            \/ QuietIsAhead(s)' /\ QuietWasShown(s)'
<1> DEFINE page == Page(r)
<1>1. r.list \in ListName
  BY DEF Reader
<1>2. /\ GoodPage(r.list, page, Ahead(r))
      /\ Unfiltered(r) => WholePage(r.list, page, Ahead(r))
      /\ page.data \subseteq used /\ page.cursor \in Cursor \cup {NoCursor}
      /\ r.list = "messages" /\ page.cursor # NoCursor => page.cursor.key = <<0, 0, -page.cursor.id>>
  BY PageGood
<1> HIDE DEF page
<1>3. /\ s.list = r.list /\ s.status = r.status /\ s.topic = r.topic /\ s.limit = r.limit
      /\ s.state = (IF page.has_more THEN "more" ELSE "end")
      /\ s.page = page.data /\ s.seen = Seen(r) /\ s.cursor = page.cursor
  BY DEF Reader, page
<1>4. \A i : Key(r.list, i)' = Key(r.list, i) /\ Table(r.list)' = Table(r.list)
             /\ Listed(r.list, r.status, r.topic)' = Listed(r.list, r.status, r.topic)
  BY SameRows
<1>5. /\ Listed(r.list, r.status, r.topic) \subseteq Table(r.list) /\ Ahead(r) \subseteq Listed(r.list, r.status, r.topic)
      /\ \A i \in Table(r.list) : i \in Nat /\ Key(r.list, i) \in Triple
  <2>1. Ahead(r) \subseteq Listed(r.list, r.status, r.topic)
    BY DEF Ahead
  <2> QED
    BY <1>1, <2>1, SelectedRows, KeyTypes
<1>6. TablesOK'
  BY DEF TablesOK, IdsOK, TopicsOK, MessagesOK, RunsOK, EventsOK, tables
<1>7. ASSUME page.has_more
      PROVE  \E x \in page.data : /\ page.cursor = encodeCursor(r.list, x) /\ page.cursor # NoCursor
                                  /\ page.cursor.key = Key(r.list, x) /\ page.cursor.id = x
                                  /\ \A i \in page.data : ~Before(Key(r.list, x), Key(r.list, i))
  <2>1. PICK x \in page.data :
          page.cursor = encodeCursor(r.list, x) /\ \A i \in page.data : ~Before(Key(r.list, x), Key(r.list, i))
    BY <1>2, <1>7 DEF GoodPage
  <2>2. page.cursor.key = Key(r.list, x) /\ page.cursor.id = x
    BY <2>1, CursorMeans
  <2>3. Key(r.list, x) \in Triple /\ x \in Nat
    BY <1>2, <1>5, <2>1 DEF GoodPage
  <2>4. encodeCursor(r.list, x) # NoCursor
    BY <2>3, PagesAssumption DEF encodeCursor, Triple
  <2> QED
    BY <2>1, <2>2, <2>4
<1>8. ReaderOK(s)'
  <2>1. s \in Reader
    <3>1. page.data \in SUBSET Nat /\ Seen(r) \in SUBSET Nat
      BY <1>2 DEF TablesOK, IdsOK
    <3>2. s.state \in {"closed", "more", "end", "failed"}
      BY <1>3
    <3> QED
      BY <1>2, <3>1, <3>2 DEF Reader, page
  <2>2. CursorOK(s)
    BY <1>2, <1>3 DEF CursorOK
  <2>3. Seen(s) \subseteq used
    BY <1>2, <1>3 DEF Seen
  <2>4. s.state # "closed" /\ (s.state = "more" => s.cursor # NoCursor)
    BY <1>3, <1>7
  <2> QED
    BY <2>1, <2>2, <2>3, <2>4 DEF ReaderOK, Seen, CursorOK
<1>9. QuietIsListed(s)'
  BY <1>3, <1>4 DEF QuietIsListed
\* What the cursor that was handed in says, if it says anything.
<1>10. ASSUME r.cursor # NoCursor, Sure(r)'
       PROVE  /\ Place(r) \in Triple
              /\ \A i \in Listed(r.list, r.status, r.topic) : i \in Ahead(r) <=> Before(Place(r), Key(r.list, i))
  <2>1. CASE r.list \in Keyed
    BY <1>10, <2>1 DEF Place, Ahead, Reader, Cursor
  <2>2. CASE r.list \notin Keyed
    <3>1. r.cursor.id \in Listed(r.list, r.status, r.topic)
      BY <1>10, <2>2 DEF Sure
    <3> QED
      BY <1>5, <1>10, <2>2, <3>1 DEF Place, Ahead
  <2> QED
    BY <2>1, <2>2
<1>11. ASSUME r.cursor = NoCursor
       PROVE  Ahead(r) = Listed(r.list, r.status, r.topic)
  BY <1>11 DEF Ahead
<1>12. ASSUME r.list \in Keyed \/ ~lost'
       PROVE  r.cursor # NoCursor => Sure(r)'
  BY <1>12 DEF Sure
<1>13. ASSUME NEW i \in page.data \cap Seen(r), r.list \in Keyed \/ (~lost' /\ i \in quiet')
       PROVE  FALSE
  <2>1. r.cursor # NoCursor /\ Sure(r)'
    BY <1>12, <1>13
  <2>2. i \in Kept(r)'
    BY <1>2, <1>4, <1>5, <1>13 DEF Kept, GoodPage
  <2>3. ~Before(Place(r), Key(r.list, i))
    BY <2>1, <2>2
  <2>4. i \in Ahead(r) /\ i \in Listed(r.list, r.status, r.topic)
    BY <1>2, <1>5 DEF GoodPage
  <2> QED
    BY <1>10, <2>1, <2>3, <2>4
<1>14. ShownOnce(s)'
  <2> SUFFICES ASSUME NEW i \in s.page \cap s.seen PROVE s.list \notin Keyed /\ (lost' \/ i \notin quiet')
    BY DEF ShownOnce
  <2> QED
    BY <1>3, <1>13
<1>15. ASSUME s.state = "more", Sure(s)'
       PROVE  \E x \in page.data : /\ Place(s)' = Key(r.list, x) /\ page.cursor.key = Key(r.list, x)
                                   /\ \A i \in page.data : ~Before(Key(r.list, x), Key(r.list, i))
  <2>1. page.has_more
    BY <1>3, <1>15
  <2>2. PICK x \in page.data : /\ page.cursor.key = Key(r.list, x) /\ page.cursor.id = x
                               /\ \A i \in page.data : ~Before(Key(r.list, x), Key(r.list, i))
    BY <1>7, <2>1
  <2>3. Place(s)' = IF s.list \in Keyed THEN s.cursor.key ELSE Key(s.list, s.cursor.id)'
    BY DEF Place
  <2>4. Place(s)' = Key(r.list, x)
    BY <1>3, <1>4, <2>2, <2>3
  <2> QED
    BY <2>2, <2>4
<1>16. ASSUME Sure(s)' PROVE r.list \in Keyed \/ ~lost'
  BY <1>3, <1>16 DEF Sure
<1>17. ShownIsBehind(s)'
  <2> SUFFICES ASSUME s.state = "more", Sure(s)', NEW i \in Seen(s) \cap Kept(s)'
               PROVE  ~Before(Place(s)', Key(s.list, i)')
    BY DEF ShownIsBehind, Seen
  <2>1. PICK x \in page.data : /\ Place(s)' = Key(r.list, x)
                               /\ \A j \in page.data : ~Before(Key(r.list, x), Key(r.list, j))
    BY <1>15
  <2>2. Key(s.list, i)' = Key(r.list, i)
    BY <1>3, <1>4
  <2>3. CASE i \in page.data
    BY <2>1, <2>2, <2>3
  <2>4. CASE i \in Seen(r)
    <3>1. r.cursor # NoCursor /\ Sure(r)'
      BY <1>12, <1>16, <2>4
    <3>2. i \in Kept(r)' /\ i \in Table(r.list)
      BY <1>3, <1>4, <1>5 DEF Kept
    <3>3. ~Before(Place(r), Key(r.list, i))
      BY <2>4, <3>1, <3>2
    <3>4. x \in Ahead(r) /\ x \in Listed(r.list, r.status, r.topic)
      BY <1>2, <1>5 DEF GoodPage
    <3>5. Before(Place(r), Key(r.list, x)) /\ Place(r) \in Triple
      BY <1>10, <3>1, <3>4
    <3>6. Key(r.list, i) \in Triple /\ Key(r.list, x) \in Triple
      BY <1>5, <3>2, <3>4
    <3> QED
      BY <2>1, <2>2, <3>3, <3>5, <3>6, BeforeIsTotal
  <2> QED
    BY <1>3, <2>3, <2>4 DEF Seen
<1>18. ASSUME Unfiltered(r),
              r.cursor # NoCursor /\ Sure(r)' => \A i \in quiet' : i \in Seen(r) \/ Before(Place(r), Key(r.list, i))
       PROVE  QuietIsAhead(s)' /\ QuietWasShown(s)'
  <2>1. ASSUME r.list \in Keyed \/ ~lost', NEW i \in quiet' PROVE i \in Seen(r) \cup Ahead(r)
    <3>1. i \in Listed(r.list, r.status, r.topic)
      OBVIOUS
    <3>2. CASE r.cursor = NoCursor
      BY <1>11, <3>1, <3>2
    <3>3. CASE r.cursor # NoCursor
      BY <1>10, <1>12, <1>18, <2>1, <3>1, <3>3
    <3> QED
      BY <3>2, <3>3
  <2>2. WholePage(r.list, page, Ahead(r))
    BY <1>2, <1>18
  <2>3. QuietIsAhead(s)'
    <3> SUFFICES ASSUME s.state = "more", Sure(s)', NEW i \in quiet'
                 PROVE  i \in Seen(s) \/ Before(Place(s)', Key(s.list, i)')
      BY DEF QuietIsAhead, Seen
    <3>1. i \in Seen(r) \cup Ahead(r) /\ page.has_more
      BY <1>3, <1>16, <2>1
    <3>2. Place(s)' = page.cursor.key /\ Key(s.list, i)' = Key(r.list, i)
      BY <1>3, <1>4, <1>15
    <3>3. i \in Ahead(r) \ page.data => Before(page.cursor.key, Key(r.list, i))
      BY <2>2, <3>1 DEF WholePage
    <3> QED
      BY <1>3, <3>1, <3>2, <3>3 DEF Seen
  <2>4. QuietWasShown(s)'
    <3> SUFFICES ASSUME s.state = "end", s.list \in Keyed \/ ~lost', NEW i \in quiet' PROVE i \in Seen(s)
      BY DEF QuietWasShown, Seen
    <3>1. i \in Seen(r) \cup Ahead(r) /\ ~page.has_more
      BY <1>3, <2>1
    <3>2. Ahead(r) \subseteq page.data
      BY <2>2, <3>1 DEF WholePage
    <3> QED
      BY <1>3, <3>1, <3>2 DEF Seen
  <2> QED
    BY <2>3, <2>4
<1> QED
  BY <1>6, <1>8, <1>9, <1>14, <1>17, <1>18

LEMMA OpenKeeps ==
  ASSUME PagesInv, Open
  PROVE  PagesInv'
<1>1. PICK r : r = reader
  OBVIOUS
<1>2. /\ TablesOK /\ ReaderOK(r) /\ r.state = "closed" /\ lost' = lost
      /\ UNCHANGED <<tables, clock, used>>
  BY <1>1 DEF PagesInv, Open
<1>3. PICK t \in IF r.list \in {"messages", "topicRuns"} THEN DOMAIN topics ELSE {0} :
        LET asked == [r EXCEPT !.topic = t]
        IN  /\ reader' = [asked EXCEPT !.state = IF Page(asked).has_more THEN "more" ELSE "end",
                                       !.page = Page(asked).data, !.cursor = Page(asked).cursor]
            /\ quiet' = PostFilter(r.list, r.status, Selected(r.list, r.status, t))
  BY <1>1 DEF Open
<1> DEFINE asked == [r EXCEPT !.topic = t]
<1>4. t \in Nat /\ r \in Reader /\ Seen(r) = {} /\ r.cursor = NoCursor
  <2>1. \A i \in DOMAIN topics : i \in Nat
    BY <1>2 DEF TablesOK, IdsOK, TopicsOK
  <2>2. r \in Reader /\ Seen(r) = {} /\ r.cursor = NoCursor
    BY <1>2 DEF ReaderOK
  <2> QED
    BY <1>3, <2>1, <2>2
<1>5. /\ asked \in Reader /\ asked.list = r.list /\ asked.status = r.status /\ asked.topic = t
      /\ asked.cursor = NoCursor /\ asked.page = {} /\ asked.seen = {}
  BY <1>4 DEF Reader, Seen
<1>6. PICK s : s = [asked EXCEPT !.state = IF Page(asked).has_more THEN "more" ELSE "end",
                                 !.page = Page(asked).data, !.seen = Seen(asked), !.cursor = Page(asked).cursor]
  OBVIOUS
<1>7. Seen(asked) = {} /\ CursorOK(asked)
  BY <1>5 DEF Seen, CursorOK
<1>8. reader' = s
  <2>1. asked.seen = Seen(asked)
    BY <1>5, <1>7
  <2>2. reader' = [asked EXCEPT !.state = IF Page(asked).has_more THEN "more" ELSE "end",
                                !.page = Page(asked).data, !.cursor = Page(asked).cursor]
    BY <1>3
  <2> HIDE DEF asked
  <2> QED
    BY <1>5, <1>6, <2>1, <2>2 DEF Reader
<1>9. quiet' \subseteq Listed(asked.list, asked.status, asked.topic)
  <2>1. quiet' = PostFilter(r.list, r.status, Selected(r.list, r.status, t))
    BY <1>3
  <2>2. r.list \in ListName
    BY <1>4 DEF Reader
  <2> QED
    BY <1>5, <2>1, <2>2, SelectedRows DEF Listed
<1>10. lost' \in BOOLEAN
  BY <1>2 DEF ReaderOK
<1> HIDE DEF asked
<1>11. /\ TablesOK' /\ ReaderOK(s)' /\ QuietIsListed(s)' /\ ShownIsBehind(s)' /\ ShownOnce(s)'
       /\ Unfiltered(asked) => QuietIsAhead(s)' /\ QuietWasShown(s)'
  BY <1>2, <1>5, <1>6, <1>7, <1>9, <1>10, TurnPage
<1>12. Unfiltered(s) <=> Unfiltered(asked)
  BY <1>5, <1>6 DEF Unfiltered, Reader
<1> QED
  BY <1>8, <1>11, <1>12 DEF PagesInv, Unfiltered

LEMMA MoreKeeps ==
  ASSUME PagesInv, More
  PROVE  PagesInv'
<1>1. PICK r : r = reader
  OBVIOUS
<1>2. /\ TablesOK /\ ReaderOK(r) /\ QuietIsListed(r) /\ ShownIsBehind(r) /\ ShownOnce(r)
      /\ Unfiltered(r) => QuietIsAhead(r) /\ QuietWasShown(r)
  BY <1>1 DEF PagesInv
<1>3. /\ r.state = "more" /\ UNCHANGED <<tables, clock, used, quiet>>
      /\ lost' = (lost \/ r.cursor.id \notin quiet)
  BY <1>1 DEF More
<1>4. /\ r \in Reader /\ CursorOK(r) /\ Seen(r) \subseteq used /\ r.cursor # NoCursor /\ lost \in BOOLEAN
      /\ quiet' \subseteq Listed(r.list, r.status, r.topic)
  BY <1>2, <1>3 DEF ReaderOK, QuietIsListed
<1>5. lost' \in BOOLEAN /\ (lost => lost') /\ (r.list \in Keyed \/ lost' \/ r.cursor.id \in quiet')
  BY <1>3, <1>4
<1>6. Sure(r)' => Sure(r)
  BY <1>3, <1>5 DEF Sure
<1>7. r.list \in ListName
  BY <1>4 DEF Reader
<1>8. CASE r.list = "messages" /\ r.topic \notin DOMAIN topics
  <2>1. PICK s : s = [r EXCEPT !.state = "failed"]
    OBVIOUS
  <2>2. reader' = s
    BY <1>1, <1>8, <2>1 DEF More
  <2>3. /\ s \in Reader /\ s.state = "failed" /\ s.list = r.list /\ s.status = r.status /\ s.topic = r.topic
        /\ s.page = r.page /\ s.seen = r.seen /\ s.cursor = r.cursor
    BY <1>4, <2>1 DEF Reader
  <2>4. TablesOK'
    BY <1>2, <1>3 DEF TablesOK, IdsOK, TopicsOK, MessagesOK, RunsOK, EventsOK, tables
  <2>5. ReaderOK(s)'
    BY <1>3, <1>4, <1>5, <2>3 DEF ReaderOK, Seen, CursorOK
  <2>6. QuietIsListed(s)'
    BY <1>3, <1>4, <2>3, SameRows DEF QuietIsListed
  <2>7. ShownOnce(s)'
    BY <1>2, <1>3, <1>5, <2>3 DEF ShownOnce
  <2>8. ShownIsBehind(s)' /\ QuietIsAhead(s)' /\ QuietWasShown(s)'
    BY <2>3 DEF ShownIsBehind, QuietIsAhead, QuietWasShown
  <2> QED
    BY <2>2, <2>4, <2>5, <2>6, <2>7, <2>8 DEF PagesInv
<1>9. CASE ~(r.list = "messages" /\ r.topic \notin DOMAIN topics)
  <2>1. PICK s : s = [r EXCEPT !.state = IF Page(r).has_more THEN "more" ELSE "end",
                               !.page = Page(r).data, !.seen = Seen(r), !.cursor = Page(r).cursor]
    OBVIOUS
  <2>2. reader' = s
    <3>1. Answered(Page(r))
      BY <1>1, <1>9 DEF More
    <3>2. r.seen \cup r.page = Seen(r)
      BY DEF Seen
    <3> QED
      BY <1>1, <2>1, <3>1, <3>2 DEF Answered
  <2>3. r.cursor # NoCursor /\ Sure(r)' => \A i \in Seen(r) \cap Kept(r)' : ~Before(Place(r), Key(r.list, i))
    <3>1. Kept(r)' = Kept(r)
      BY <1>3, SameRows DEF Kept
    <3> QED
      BY <1>2, <1>3, <1>6, <3>1 DEF ShownIsBehind
  <2>4. Unfiltered(r) =>
          (r.cursor # NoCursor /\ Sure(r)' => \A i \in quiet' : i \in Seen(r) \/ Before(Place(r), Key(r.list, i)))
    BY <1>2, <1>3, <1>6 DEF QuietIsAhead
  <2>5. /\ TablesOK' /\ ReaderOK(s)' /\ QuietIsListed(s)' /\ ShownIsBehind(s)' /\ ShownOnce(s)'
        /\ Unfiltered(r) => QuietIsAhead(s)' /\ QuietWasShown(s)'
    BY <1>2, <1>3, <1>4, <1>5, <2>1, <2>3, <2>4, TurnPage
  <2>6. Unfiltered(s) <=> Unfiltered(r)
    BY <1>4, <2>1 DEF Unfiltered, Reader
  <2> QED
    BY <2>2, <2>5, <2>6 DEF PagesInv, Unfiltered
<1> QED
  BY <1>8, <1>9

LEMMA PagesInductive == PagesSpec => []PagesInv
<1>1. PagesInit => PagesInv
  <2> SUFFICES ASSUME PagesInit PROVE PagesInv
    OBVIOUS
  <2>1. PICK asked \in Lists, limit \in Limits :
          reader = [list |-> asked[1], status |-> asked[2], topic |-> 0, limit |-> limit,
                    state |-> "closed", cursor |-> NoCursor, page |-> {}, seen |-> {}]
    BY DEF PagesInit
  <2>2. asked[1] \in ListName /\ asked[2] \in STRING /\ limit \in Nat \ {0}
    BY PagesAssumption DEF ListName
  <2>3. reader \in Reader
    BY <2>1, <2>2 DEF Reader
  <2>4. reader.state = "closed" /\ reader.page = {} /\ reader.seen = {} /\ reader.cursor = NoCursor
    BY <2>1
  <2>5. clock = 0 /\ used = {} /\ quiet = {} /\ lost = FALSE
        /\ DOMAIN topics = {} /\ DOMAIN messages = {} /\ DOMAIN runs = {} /\ DOMAIN events = {}
    BY DEF PagesInit
  <2>6. TablesOK
    BY <2>5, FS_EmptySet DEF TablesOK, IdsOK, TopicsOK, MessagesOK, RunsOK, EventsOK
  <2>7. ReaderOK(reader)
    BY <2>3, <2>4, <2>5 DEF ReaderOK, CursorOK, Seen
  <2> QED
    BY <2>4, <2>5, <2>6, <2>7 DEF PagesInv, QuietIsListed, ShownIsBehind, ShownOnce, QuietIsAhead, QuietWasShown
<1>2. PagesInv /\ [PagesNext]_pagesVars => PagesInv'
  <2> SUFFICES ASSUME PagesInv, [PagesNext]_pagesVars PROVE PagesInv'
    OBVIOUS
  <2>1. CASE Writer
    BY <2>1, WritersKeep
  <2>2. CASE Open
    BY <2>2, OpenKeeps
  <2>3. CASE More
    BY <2>3, MoreKeeps
  <2>4. CASE UNCHANGED pagesVars
    <3>1. UNCHANGED <<clock, tables, used, reader, quiet, lost>>
      BY <2>4 DEF pagesVars
    <3>2. TablesOK'
      BY <3>1 DEF tables, PagesInv, TablesOK, IdsOK, TopicsOK, MessagesOK, RunsOK, EventsOK
    <3>3. PICK r : r = reader
      OBVIOUS
    <3>4. ReaderOK(r)' /\ QuietIsListed(r)' /\ ShownIsBehind(r)' /\ ShownOnce(r)'
          /\ (Unfiltered(r) => QuietIsAhead(r)' /\ QuietWasShown(r)')
      BY <3>1, <3>3, SameRows DEF PagesInv, ReaderOK, QuietIsListed, ShownIsBehind, ShownOnce, QuietIsAhead,
                                  QuietWasShown, Seen, CursorOK, Sure, Kept, Place
    <3> QED
      BY <3>1, <3>2, <3>3, <3>4 DEF PagesInv, Unfiltered
  <2> QED
    BY <2>1, <2>2, <2>3, <2>4 DEF PagesNext, Writer
<1> QED
  BY <1>1, <1>2, PTL DEF PagesSpec

\* A list that is read by key shows no row twice, whatever is written between
\* its pages; one that is read whole shows none twice that was not written, as
\* long as the rows that its cursors stand at are not.
THEOREM NoRepeatsHolds == PagesSpec => []NoRepeats
<1>1. PagesInv => NoRepeats
  BY DEF PagesInv, ShownOnce, NoRepeats
<1> QED
  BY <1>1, PagesInductive, PTL

\* A client that has come to the end was shown every row of the list that nobody
\* wrote meanwhile.  The list of topics is meant whole: its filter by status is
\* applied to the rows of a page that were read, and may leave none of them.
THEOREM QuietRowsListedHolds ==
  ASSUME \A asked \in Lists : asked[1] = "topics" => asked[2] = "all"
  PROVE  PagesSpec => []QuietRowsListed
<1>1. PagesSpec => []Unfiltered(reader)
  <2>1. PagesInit => Unfiltered(reader)
    BY DEF PagesInit, Unfiltered
  <2>2. Unfiltered(reader) /\ PagesInv /\ [PagesNext]_pagesVars => Unfiltered(reader)'
    <3> SUFFICES ASSUME Unfiltered(reader), PagesInv, [PagesNext]_pagesVars PROVE Unfiltered(reader)'
      OBVIOUS
    <3>1. reader \in Reader
      BY DEF PagesInv, ReaderOK
    <3>2. reader'.list = reader.list /\ reader'.status = reader.status
      <4>1. CASE Writer
        BY <4>1, WriterWrites
      <4>2. CASE Open
        BY <3>1, <4>2 DEF Open, Reader
      <4>3. CASE More
        BY <3>1, <4>3 DEF More, Answered, Reader
      <4>4. CASE UNCHANGED pagesVars
        BY <4>4 DEF pagesVars
      <4> QED
        BY <4>1, <4>2, <4>3, <4>4 DEF PagesNext, Writer
    <3> QED
      BY <3>2 DEF Unfiltered
  <2> QED
    BY <2>1, <2>2, PagesInductive, PTL DEF PagesSpec
<1>2. PagesInv /\ Unfiltered(reader) => QuietRowsListed
  BY DEF PagesInv, QuietWasShown, QuietRowsListed, Seen
<1> QED
  BY <1>1, <1>2, PagesInductive, PTL

=============================================================================
