----------------------------- MODULE ChatProofs -----------------------------
(***************************************************************************)
(* Theorems about Chat: the types of the page and the server; and, for a    *)
(* user who waits for answers, that the screen shows the topic that is      *)
(* current, with no message missing or twice, whatever the number of        *)
(* topics, turns and tokens and the length of a page.                       *)
(***************************************************************************)
EXTENDS Chat, FiniteSetTheorems, SequenceTheorems, WellFoundedInduction, TLAPS

-----------------------------------------------------------------------------
(* Pages of rows.                                                          *)

\* A set of numbers that is not empty has a least element.
LEMMA LeastOf ==
  ASSUME NEW S \in SUBSET Nat, S # {}
  PROVE  \E n \in S : \A m \in S : n <= m
<1>1. PICK n \in S : \A m \in S : <<m, n>> \notin OpToRel(<, Nat)
  BY NatLessThanWellFounded, WFMin
<1>2. \A m \in S : ~(m < n)
  BY <1>1 DEF OpToRel
<1>3. n \in Nat /\ \A m \in S : m \in Nat
  OBVIOUS
<1> QED
  BY <1>2, <1>3

\* If it is bounded, it has a greatest.
LEMMA GreatestOf ==
  ASSUME NEW L \in Nat, NEW S, S # {}, \A j \in S : j \in Nat /\ j <= L
  PROVE  \E n \in S : \A m \in S : m <= n
<1> DEFINE T == {L - j : j \in S}
<1>1. \A j \in S : L - j \in Nat
  OBVIOUS
<1>2. T \in SUBSET Nat /\ T # {}
  BY <1>1
<1>3. PICK k \in T : \A m \in T : k <= m
  <2> HIDE DEF T
  <2> QED
    BY <1>2, LeastOf
<1>4. PICK n \in S : k = L - n
  OBVIOUS
<1>5. \A m \in S : L - n <= L - m
  BY <1>3, <1>4
<1>6. \A m \in S : m \in Nat
  OBVIOUS
<1> QED
  BY <1>5, <1>6

UpTo(ids, k) == {j \in ids : j <= k}

\* InOrder has all the ids of a set, and each is greater than the one before.
LEMMA InOrderIs ==
  ASSUME NEW L \in Nat, NEW S, \A j \in S : j \in Nat /\ 0 < j /\ j <= L
  PROVE  /\ IsFiniteSet(S) /\ Cardinality(S) \in Nat
         /\ DOMAIN InOrder(S) = 1..Cardinality(S)
         /\ \A n \in 1..Cardinality(S) : InOrder(S)[n] \in S
         /\ \A m, n \in 1..Cardinality(S) : m < n => InOrder(S)[m] < InOrder(S)[n]
         /\ \A i \in S : \E n \in 1..Cardinality(S) : InOrder(S)[n] = i
<1>0. \A j \in S : j \in Nat /\ 0 < j /\ j <= L
  OBVIOUS
<1>1. IsFiniteSet(S) /\ Cardinality(S) \in Nat
  <2>1. IsFiniteSet(1..L)
    BY FS_Interval
  <2>2. S \in SUBSET (1..L)
    OBVIOUS
  <2> QED
    BY <2>1, <2>2, FS_Subset, FS_CardinalityType
<1>2. ASSUME NEW i \in Nat
      PROVE  IsFiniteSet(UpTo(S, i)) /\ Cardinality(UpTo(S, i)) \in 0..Cardinality(S)
  <2>1. UpTo(S, i) \in SUBSET S
    BY DEF UpTo
  <2> QED
    BY <1>1, <2>1, FS_Subset, FS_CardinalityType
<1>3. ASSUME NEW i \in Nat, NEW j \in S, i < j
      PROVE  Cardinality(UpTo(S, i)) < Cardinality(UpTo(S, j))
  <2>1. i \in Nat /\ j \in Nat
    OBVIOUS
  <2>2. UpTo(S, i) \subseteq UpTo(S, j) /\ j \in UpTo(S, j) /\ j \notin UpTo(S, i)
    <3>1. \A k \in S : k <= i => k <= j
      BY <1>0, <2>1, <1>3
    <3>2. j <= j /\ ~(j <= i)
      BY <2>1, <1>3
    <3> QED
      BY <3>1, <3>2 DEF UpTo
  <2>3. UpTo(S, i) # UpTo(S, j)
    BY <2>2
  <2>4. IsFiniteSet(UpTo(S, j))
    BY <1>2, <2>1
  <2>5. Cardinality(UpTo(S, i)) < Cardinality(UpTo(S, j))
    <3>1. /\ Cardinality(UpTo(S, i)) <= Cardinality(UpTo(S, j))
          /\ Cardinality(UpTo(S, i)) # Cardinality(UpTo(S, j))
      BY <2>2, <2>3, <2>4, FS_Subset
    <3>2. Cardinality(UpTo(S, i)) \in Int /\ Cardinality(UpTo(S, j)) \in Int
      BY <1>2, <2>1
    <3> QED
      BY <3>1, <3>2
  <2> QED
    BY <2>5
<1>4. ASSUME NEW n \in 1..Cardinality(S)
      PROVE  \E i \in S : Cardinality(UpTo(S, i)) = n
  <2> DEFINE T == {i \in Nat : n <= Cardinality(UpTo(S, i))}
  <2>1. UpTo(S, L) = S
    BY <1>0 DEF UpTo
  <2>2. L \in T
    BY <1>1, <2>1
  <2>3. PICK i \in T : \A k \in T : i <= k
    <3>1. T \in SUBSET Nat /\ T # {}
      BY <2>2
    <3> HIDE DEF T
    <3> QED
      BY <3>1, LeastOf
  <2>14. i \in Nat /\ n <= Cardinality(UpTo(S, i))
    OBVIOUS
  <2>15. i - 1 \in Nat => (n <= Cardinality(UpTo(S, i - 1)) => i <= i - 1)
    BY <2>3
  <2> HIDE DEF T
  <2>4. UpTo(S, 0) = {}
    BY <1>0, 0 \in Nat DEF UpTo
  <2>5. Cardinality(UpTo(S, 0)) = 0
    BY <2>4, FS_EmptySet
  <2>6. i \in Nat /\ n <= Cardinality(UpTo(S, i))
    BY <2>14
  <2>7. i # 0
    BY <2>5, <2>6, <1>1
  <2>8. i - 1 \in Nat /\ ~(n <= Cardinality(UpTo(S, i - 1)))
    BY <2>7, <2>14, <2>15
  <2>9. i \in S
    <3>1. SUFFICES ASSUME i \notin S PROVE FALSE
      OBVIOUS
    <3>2. UpTo(S, i) = UpTo(S, i - 1)
      BY <1>0, <2>6, <2>8, <3>1 DEF UpTo
    <3> QED
      BY <2>6, <2>8, <3>2
  <2>10. UpTo(S, i) = UpTo(S, i - 1) \cup {i} /\ i \notin UpTo(S, i - 1)
    <3>1. \A j \in S : j <= i <=> j <= i - 1 \/ j = i
      BY <1>0, <2>6, <2>8
    <3>2. ~(i <= i - 1)
      BY <2>6
    <3> QED
      BY <3>1, <3>2, <2>9 DEF UpTo
  <2>11. Cardinality(UpTo(S, i)) = Cardinality(UpTo(S, i - 1)) + 1
    BY <1>2, <2>8, <2>10, FS_AddElement
  <2>12. Cardinality(UpTo(S, i - 1)) \in Nat /\ n \in Nat
    BY <1>1, <1>2, <2>8
  <2>13. Cardinality(UpTo(S, i)) = n
    BY <2>6, <2>8, <2>11, <2>12
  <2> QED
    BY <2>9, <2>13
<1>5. ASSUME NEW n \in 1..Cardinality(S)
      PROVE  InOrder(S)[n] \in S /\ Cardinality(UpTo(S, InOrder(S)[n])) = n
  BY <1>4 DEF InOrder, UpTo
<1>6. ASSUME NEW m \in 1..Cardinality(S), NEW n \in 1..Cardinality(S), m < n
      PROVE  InOrder(S)[m] < InOrder(S)[n]
  <2>1. InOrder(S)[m] \in Nat /\ InOrder(S)[n] \in Nat
    BY <1>0, <1>5
  <2>2. InOrder(S)[n] < InOrder(S)[m] => n < m
    <3>1. SUFFICES ASSUME InOrder(S)[n] < InOrder(S)[m] PROVE n < m
      OBVIOUS
    <3>2. Cardinality(UpTo(S, InOrder(S)[n])) < Cardinality(UpTo(S, InOrder(S)[m]))
      BY <1>3, <1>5, <2>1, <3>1
    <3> QED
      BY <1>5, <3>2
  <2>3. InOrder(S)[n] = InOrder(S)[m] => n = m
    BY <1>5
  <2>4. m \in Nat /\ n \in Nat
    BY <1>1
  <2> QED
    BY <2>1, <2>2, <2>3, <2>4, <1>6
<1>7. ASSUME NEW i \in S
      PROVE  \E n \in 1..Cardinality(S) : InOrder(S)[n] = i
  <2>1. i \in Nat /\ 0 \in Nat /\ 0 < i
    OBVIOUS
  <2>2. Cardinality(UpTo(S, 0)) < Cardinality(UpTo(S, i))
    BY <1>3, <2>1
  <2>3. Cardinality(UpTo(S, 0)) \in 0..Cardinality(S) /\ Cardinality(UpTo(S, i)) \in 0..Cardinality(S)
    BY <1>2, <2>1
  <2> DEFINE n == Cardinality(UpTo(S, i))
  <2>4. n \in 1..Cardinality(S)
    BY <1>1, <2>2, <2>3
  <2>5. InOrder(S)[n] \in S /\ Cardinality(UpTo(S, InOrder(S)[n])) = n
    BY <1>5, <2>4
  <2> DEFINE j == InOrder(S)[n]
  <2>6. j \in S /\ Cardinality(UpTo(S, j)) = Cardinality(UpTo(S, i))
    BY <2>5
  <2> HIDE DEF j
  <2>7. j \in Nat /\ ~(i < j) /\ ~(j < i)
    BY <1>3, <2>1, <2>6, <1>2
  <2>8. j = i
    BY <2>1, <2>7
  <2> QED
    BY <2>4, <2>8 DEF j
<1>8. DOMAIN InOrder(S) = 1..Cardinality(S)
  BY DEF InOrder
<1> QED
  BY <1>1, <1>5, <1>6, <1>7, <1>8

Rows == [topic : Topic, turn : Turn \cup Past, role : {"user", "assistant"}]

\* The rows of a topic that are older than a cursor, and those of the page.
Older(t, before) ==
  {i \in DOMAIN log : log[i].topic = t /\ (before # None => i < before)}
OnPage(t, before) ==
  {i \in Older(t, before) : Cardinality({j \in Older(t, before) : j > i}) < PageSize}
Saved(i) == Entry(log[i].turn, log[i].role, "done", Tokens, FALSE)

LEMMA PageIs ==
  ASSUME NEW t, NEW before
  PROVE  LET page == OnPage(t, before)
             more == \E i \in Older(t, before) : \A j \in page : i < j
         IN  Page(t, before) =
               [messages |-> [n \in DOMAIN InOrder(page) |-> Saved(InOrder(page)[n])],
                has_more |-> more,
                cursor   |-> IF more THEN InOrder(page)[1] ELSE None]
<1>1. (IF before = None THEN {i \in DOMAIN log : log[i].topic = t}
       ELSE {i \in {i \in DOMAIN log : log[i].topic = t} : i < before}) = Older(t, before)
  BY DEF Older
<1> QED
  BY <1>1, Zenon DEF Page, OnPage, Saved

\* The rows of a page: the latest of those that are older than the cursor, in
\* their order; the cursor is the first of them if there are more.
PageOf(t, before, reply) ==
  /\ OnPage(t, before) \subseteq Older(t, before)
  /\ \A i \in OnPage(t, before), j \in Older(t, before) : i < j => j \in OnPage(t, before)
  /\ \A i \in Older(t, before) : (\A j \in Older(t, before) : ~(i < j)) => i \in OnPage(t, before)
  /\ reply.messages \in Seq({Saved(i) : i \in OnPage(t, before)})
  /\ \A n \in DOMAIN reply.messages : /\ InOrder(OnPage(t, before))[n] \in OnPage(t, before)
                                      /\ reply.messages[n] = Saved(InOrder(OnPage(t, before))[n])
  /\ \A m, n \in DOMAIN reply.messages :
       m < n => InOrder(OnPage(t, before))[m] < InOrder(OnPage(t, before))[n]
  /\ \A i \in OnPage(t, before) : \E n \in DOMAIN reply.messages : InOrder(OnPage(t, before))[n] = i
  /\ reply.has_more \in BOOLEAN
  /\ reply.has_more => /\ reply.cursor \in OnPage(t, before)
                       /\ \A i \in OnPage(t, before) : reply.cursor <= i
  /\ ~reply.has_more => reply.cursor = None /\ OnPage(t, before) = Older(t, before)

LEMMA PageIsPageOf ==
  ASSUME NEW t, NEW before, log \in Seq(Rows), before = None \/ before \in Nat
  PROVE  PageOf(t, before, Page(t, before))
<1> DEFINE O == Older(t, before)
           P == OnPage(t, before)
           Newer(i) == {j \in O : j > i}
           r == Page(t, before)
<1>0. PICK L \in Nat : DOMAIN log = 1..L
  BY Len(log) \in Nat, DOMAIN log = 1..Len(log)
<1>1. \A i \in O : i \in Nat /\ 0 < i /\ i <= L /\ i \in 1..L
  BY <1>0 DEF Older
<1>2. P \subseteq O /\ \A i \in O : i \in P <=> Cardinality(Newer(i)) < PageSize
  BY DEF OnPage
<1>3. \A i \in O : IsFiniteSet(Newer(i)) /\ Cardinality(Newer(i)) \in Nat
  <2>1. IsFiniteSet(1..L)
    BY FS_Interval
  <2>2. IsFiniteSet(O)
    BY <1>1, <2>1, FS_Subset
  <2> QED
    BY <2>2, FS_Subset, FS_CardinalityType
<1>4. PageSize \in Nat /\ 0 < PageSize
  BY ChatAssumption
<1>5. ASSUME NEW i \in P, NEW j \in O, i < j PROVE j \in P
  <2>1. i \in O /\ i \in Nat /\ j \in Nat
    BY <1>1, <1>2
  <2>2. \A k \in O : k > j => k > i
    BY <1>1, <1>5, <2>1
  <2>3. Newer(j) \in SUBSET Newer(i)
    BY <2>2
  <2>4. Cardinality(Newer(j)) <= Cardinality(Newer(i))
    BY <2>1, <1>3, <2>3, FS_Subset
  <2>5. Cardinality(Newer(j)) \in Nat /\ Cardinality(Newer(i)) \in Nat /\ Cardinality(Newer(i)) < PageSize
    BY <1>2, <1>3, <2>1
  <2> HIDE DEF Newer
  <2>6. Cardinality(Newer(j)) < PageSize
    BY <1>4, <2>4, <2>5
  <2> QED
    BY <1>2, <2>6
<1>6. ASSUME NEW i \in O, \A j \in O : ~(i < j) PROVE i \in P
  <2>1. \A j \in O : ~(j > i)
    BY <1>1, <1>6
  <2>2. Newer(i) = {}
    BY <2>1
  <2>3. Cardinality(Newer(i)) = 0
    BY <2>2, FS_EmptySet
  <2> QED
    BY <1>2, <1>4, <2>3
<1>7. /\ IsFiniteSet(P) /\ Cardinality(P) \in Nat
      /\ DOMAIN InOrder(P) = 1..Cardinality(P)
      /\ \A n \in 1..Cardinality(P) : InOrder(P)[n] \in P
      /\ \A m, n \in 1..Cardinality(P) : m < n => InOrder(P)[m] < InOrder(P)[n]
      /\ \A i \in P : \E n \in 1..Cardinality(P) : InOrder(P)[n] = i
  <2>1. \A j \in P : j \in Nat /\ 0 < j /\ j <= L
    BY <1>1, <1>2
  <2> HIDE DEF P
  <2> QED
    BY <2>1, InOrderIs
<1> DEFINE more == \E i \in O : \A j \in P : i < j
<1>8. r = [messages |-> [n \in DOMAIN InOrder(P) |-> Saved(InOrder(P)[n])],
           has_more |-> more,
           cursor   |-> IF more THEN InOrder(P)[1] ELSE None]
  BY PageIs, Zenon
<1> HIDE DEF O, P, r
<1>9. DOMAIN r.messages = 1..Cardinality(P) /\ r.has_more = more /\ (more => r.cursor = InOrder(P)[1])
      /\ (~more => r.cursor = None)
      /\ \A n \in 1..Cardinality(P) : r.messages[n] = Saved(InOrder(P)[n])
  BY <1>7, <1>8
<1>10. r.messages \in Seq({Saved(i) : i \in P})
  <2>1. r.messages = [n \in 1..Cardinality(P) |-> Saved(InOrder(P)[n])]
    BY <1>7, <1>8
  <2>2. \A n \in 1..Cardinality(P) : Saved(InOrder(P)[n]) \in {Saved(i) : i \in P}
    BY <1>7
  <2> DEFINE T == {Saved(i) : i \in P}
             f == [n \in 1..Cardinality(P) |-> Saved(InOrder(P)[n])]
  <2>3. f \in [1..Cardinality(P) -> T]
    BY <2>2
  <2>4. r.messages = f
    BY <2>1
  <2> HIDE DEF T, f
  <2>5. f \in Seq(T)
    BY <1>7, <2>3
  <2> QED
    BY <2>4, <2>5 DEF T
<1>11. more => InOrder(P)[1] \in P /\ \A i \in P : InOrder(P)[1] <= i
  <2>1. SUFFICES ASSUME more PROVE InOrder(P)[1] \in P /\ \A i \in P : InOrder(P)[1] <= i
    OBVIOUS
  <2>2. PICK i \in O : \A j \in P : i < j
    BY <2>1
  <2>3. P # {}
    <3>1. SUFFICES ASSUME P = {} PROVE FALSE
      OBVIOUS
    <3>2. \A k \in O : k \in Nat /\ k <= L
      BY <1>1
    <3>3. PICK k \in O : \A j \in O : j <= k
      BY <2>2, <3>2, GreatestOf
    <3>4. \A j \in O : ~(k < j)
      BY <3>2, <3>3
    <3> QED
      BY <1>6, <3>1, <3>4
  <2>4. PICK j \in P : TRUE
    BY <2>3
  <2>5. 1 \in 1..Cardinality(P)
    BY <1>7, <2>4
  <2>6. \A n \in 1..Cardinality(P) : n = 1 \/ 1 < n
    BY <1>7
  <2>7. \A k \in P : k \in Int
    BY <1>1, <1>2
  <2> QED
    BY <1>7, <2>5, <2>6, <2>7
<1>12. ~more => P = O
  <2>1. SUFFICES ASSUME ~more, NEW i \in O PROVE i \in P
    BY <1>2
  <2>2. PICK j \in P : ~(i < j)
    BY <2>1
  <2>3. i \in Int /\ j \in Int /\ j \in O
    BY <1>1, <1>2, <2>2
  <2>4. i = j \/ j < i
    BY <2>2, <2>3
  <2> QED
    BY <1>5, <2>2, <2>4
<1> HIDE DEF more
<1>13. more \in BOOLEAN
  BY DEF more
<1> QED
  BY <1>2, <1>5, <1>6, <1>7, <1>9, <1>10, <1>11, <1>12, <1>13 DEF PageOf, O, P, r

-----------------------------------------------------------------------------
(* Types.                                                                  *)

Phases == {"new", "create", "upload", "sent", "open", "over", "failed", "dropped"}
Runs == {None, "refused", "running", "answered", "saved", "failed"}
Events == {"info", "text", "done", "exit0", "exit1"}

Turns == [phase : Phases, target : Topic \cup {None}, topic : Topic \cup {None},
          said : 0..Tokens, got : 0..Tokens, unheard : BOOLEAN]
Replied == [messages : Seq(Message), has_more : BOOLEAN, cursor : (DOMAIN log) \cup {None}]
Requests == [kind : {"select", "more", "delete"}, topic : Topic,
             before : (DOMAIN log) \cup {None}, was : Topic \cup {None},
             reply : {None, Error} \cup Replied]

ServerTypes ==
  /\ topics \subseteq Topic
  /\ log \in Seq(Rows)
  /\ run \in [Turn -> Runs]
  /\ turn \in [Turn -> Turns]
  /\ wire \in [Turn -> Seq(Events)]

ScreenTypes ==
  /\ current \in Topic \cup {None}
  /\ screen \in Seq(Message)
  /\ isStreaming \in BOOLEAN
  /\ cache \in [Topic -> {None} \cup Seq(Message)]
  /\ stream = None \/ stream \in [topic : Topic \cup {None}, aborts : Turn \cup {None}]

LoadTypes ==
  /\ requests \subseteq Requests
  /\ hasMore \in BOOLEAN
  /\ isLoadingMore \in BOOLEAN
  /\ cursor \in (DOMAIN log) \cup {None}

Types == ServerTypes /\ ScreenTypes /\ LoadTypes

\* What belongs together in the closure of send and the run of its turn.
TurnFits(k) ==
  /\ turn[k].phase \in {"new", "create"} => turn[k].topic = None
  /\ turn[k].phase \in {"upload", "open", "over"} => turn[k].topic # None
  /\ turn[k].target # None => turn[k].topic = turn[k].target
  /\ turn[k].phase \in {"new", "create", "upload", "open"} => ~turn[k].unheard
  /\ turn[k].phase = "dropped" => turn[k].unheard
  /\ run[k] = None <=> turn[k].phase \notin {"open", "over"}
  /\ ~turn[k].unheard /\ turn[k].phase = "over" => run[k] \in {"refused", "saved", "failed"}

\* Events under way: the name of the topic, the tokens that the page has not
\* got, the end of the answer, the end of the stream.
Has(w, event) == \E i \in DOMAIN w : w[i] = event
Opening(w) == IF w # <<>> /\ w[1] = "info" THEN 1 ELSE 0
Told(k) == Opening(wire[k]) + (turn[k].said - turn[k].got)

WireFits(k) ==
  /\ turn[k].phase \notin {"open", "over"} => wire[k] = <<>> /\ turn[k].said = 0 /\ turn[k].got = 0
  /\ turn[k].phase = "open" =>
    /\ turn[k].got <= turn[k].said /\ Told(k) <= Len(wire[k])
    /\ \A i \in DOMAIN wire[k] :
         /\ wire[k][i] = "info" => i = 1
         /\ wire[k][i] = "text" <=> Opening(wire[k]) < i /\ i <= Told(k)
         /\ wire[k][i] = "done" => i = Told(k) + 1 /\ turn[k].said = Tokens
         /\ wire[k][i] = "exit0" => i = Len(wire[k]) /\ run[k] = "saved"
         /\ wire[k][i] = "exit1" => i = Len(wire[k]) /\ run[k] \in {"refused", "failed"}
    /\ run[k] = "running" => Len(wire[k]) = Told(k)
    /\ run[k] \in {"answered", "saved"} /\ turn[k].got < turn[k].said => Has(wire[k], "done")

\* The stream that is to be aborted has not ended, nor has the page heard that
\* the answer has.
StreamFits ==
  stream # None /\ stream.aborts # None =>
    /\ turn[stream.aborts].phase \in {"sent", "open"} /\ ~turn[stream.aborts].unheard
    /\ run[stream.aborts] \in {"answered", "saved"} => Has(wire[stream.aborts], "done")

TurnsFit == \A k \in Turn : TurnFits(k) /\ WireFits(k)

Basis == Types /\ TurnsFit /\ StreamFits

LEMMA FreshIs ==
  ASSUME Unused # {}
  PROVE  Fresh \in Topic /\ Fresh # None /\ Fresh \notin topics /\ Fresh \notin Old
         /\ \A k \in Turn : turn[k].topic # Fresh
<1>1. Fresh \in Unused
  BY DEF Fresh
<1> QED
  BY <1>1, ChatAssumption DEF Unused

LEMMA EventsGrow ==
  ASSUME wire \in [Turn -> Seq(Events)], NEW k \in Turn, NEW e \in Events, Emit(k, <<e>>)
  PROVE  /\ wire' \in [Turn -> Seq(Events)]
         /\ \A j \in Turn \ {k} : wire'[j] = wire[j]
         /\ turn[k].phase = "open" => wire'[k] = wire[k] \o <<e>>
         /\ turn[k].phase # "open" => wire'[k] = wire[k]
<1>1. <<e>> \in Seq(Events)
  OBVIOUS
<1>2. wire[k] \o <<e>> \in Seq(Events)
  BY <1>1, ConcatProperties
<1> QED
  BY <1>2 DEF Emit

\* The steps of the server.
LEMMA BeginTypes ==
  ASSUME Types, NEW k \in Turn, Begin(k)
  PROVE  Types'
<1> USE DEF Types, ServerTypes
<1>1. UNCHANGED <<log, requests, view>>
  BY DEF Begin
<1>2. ScreenTypes' /\ LoadTypes'
  BY <1>1 DEF view, ScreenTypes, LoadTypes, Requests, Replied
<1>3. <<"exit1">> \in Seq(Events) /\ <<"info">> \in Seq(Events)
  BY DEF Events
<1>4. topics' \subseteq Topic
  BY FreshIs DEF Begin
<1>5. run' \in [Turn -> Runs]
  BY DEF Begin, Runs
<1>6. turn' \in [Turn -> Turns]
  <2> DEFINE phase == IF turn[k].unheard THEN "over" ELSE "open"
  <2>0. phase \in Phases
    BY DEF Phases
  <2>1. CASE turn[k].topic # None
    <3>1. turn' = [turn EXCEPT ![k].phase = phase]
      BY <2>1 DEF Begin
    <3> HIDE DEF phase
    <3> QED
      BY <2>0, <3>1, ZenonT(40) DEF Turns
  <2>2. CASE turn[k].topic = None
    <3>1. Fresh \in Topic /\ turn' = [turn EXCEPT ![k].phase = phase, ![k].topic = Fresh]
      BY <2>2, FreshIs DEF Begin
    <3> HIDE DEF Fresh, phase
    <3> QED
      BY <2>0, <3>1, ZenonT(40) DEF Turns
  <2> QED
    BY <2>1, <2>2
<1>7. wire' \in [Turn -> Seq(Events)]
  BY <1>3 DEF Begin
<1> QED
  BY <1>1, <1>2, <1>4, <1>5, <1>6, <1>7

LEMMA DroppedTypes ==
  ASSUME Types, NEW k \in Turn, Dropped(k)
  PROVE  Types'
<1>1. UNCHANGED <<server, wire, requests, view>>
  BY DEF Dropped
<1>2. turn' \in [Turn -> Turns]
  BY ZenonT(40) DEF Dropped, Types, ServerTypes, Turns, Phases
<1> QED
  BY <1>1, <1>2 DEF server, view, Types, ServerTypes, ScreenTypes, LoadTypes, Requests, Replied

LEMMA TokenTypes ==
  ASSUME Types, NEW k \in Turn, Token(k)
  PROVE  Types'
<1> USE DEF Types, ServerTypes
<1>1. UNCHANGED <<topics, log, run, requests, view>>
  BY DEF Token, server
<1>2. ScreenTypes' /\ LoadTypes'
  BY <1>1 DEF view, ScreenTypes, LoadTypes, Requests, Replied
<1>3. wire' \in [Turn -> Seq(Events)]
  BY EventsGrow DEF Token, Events
<1>4. turn' \in [Turn -> Turns]
  <2>1. turn[k].said + 1 \in 0..Tokens
    BY ChatAssumption DEF Token, Turns
  <2> QED
    BY <2>1, ZenonT(40) DEF Token, Turns
<1> QED
  BY <1>1, <1>2, <1>3, <1>4

LEMMA FinishTypes ==
  ASSUME Types, NEW k \in Turn, Finish(k)
  PROVE  Types'
<1> USE DEF Types, ServerTypes
<1>1. UNCHANGED <<topics, log, turn, requests, view>>
  BY DEF Finish
<1>2. ScreenTypes' /\ LoadTypes'
  BY <1>1 DEF view, ScreenTypes, LoadTypes, Requests, Replied
<1>3. wire' \in [Turn -> Seq(Events)]
  BY EventsGrow DEF Finish, Events
<1>4. run' \in [Turn -> Runs]
  BY DEF Finish, Runs
<1> QED
  BY <1>1, <1>2, <1>3, <1>4

LEMMA FailTypes ==
  ASSUME Types, NEW k \in Turn, Fail(k)
  PROVE  Types'
<1> USE DEF Types, ServerTypes
<1>1. UNCHANGED <<topics, log, turn, requests, view>>
  BY DEF Fail
<1>2. ScreenTypes' /\ LoadTypes'
  BY <1>1 DEF view, ScreenTypes, LoadTypes, Requests, Replied
<1>3. wire' \in [Turn -> Seq(Events)]
  BY EventsGrow DEF Fail, Events
<1>4. run' \in [Turn -> Runs]
  BY DEF Fail, Runs
<1> QED
  BY <1>1, <1>2, <1>3, <1>4

\* What is saved: two rows at the end.
NewRows(k) == <<[topic |-> turn[k].topic, turn |-> k, role |-> "user"],
                [topic |-> turn[k].topic, turn |-> k, role |-> "assistant"]>>

LEMMA SaveGrows ==
  ASSUME Types, TurnsFit, NEW k \in Turn, Save(k)
  PROVE  /\ turn[k].topic \in Topic
         /\ log' = log \o NewRows(k)
         /\ log' \in Seq(Rows) /\ Len(log') = Len(log) + 2
         /\ DOMAIN log' = 1..Len(log) + 2 /\ DOMAIN log = 1..Len(log)
         /\ \A i \in DOMAIN log : i \in DOMAIN log' /\ log'[i] = log[i]
         /\ log'[Len(log) + 1] = NewRows(k)[1] /\ log'[Len(log) + 2] = NewRows(k)[2]
<1>1. run[k] = "answered" /\ log \in Seq(Rows) /\ turn[k] \in Turns /\ Len(log) \in Nat
  BY DEF Save, Types, ServerTypes
<1>2. turn[k].topic \in Topic
  <2>1. turn[k].phase \in {"open", "over"}
    BY <1>1, ChatAssumption DEF TurnsFit, TurnFits
  <2> QED
    BY <1>1, <2>1 DEF TurnsFit, TurnFits, Turns
<1>3. [i \in 1..2 |-> [topic |-> turn[k].topic, turn |-> k, role |-> Role[i]]] = NewRows(k)
  BY DEF NewRows, Role
<1>4. log' = log \o NewRows(k)
  BY <1>3 DEF Save
<1>5. NewRows(k) \in Seq(Rows) /\ Len(NewRows(k)) = 2
  BY <1>2 DEF NewRows, Rows
<1>6. /\ log' \in Seq(Rows) /\ Len(log') = Len(log) + 2
      /\ \A i \in 1..Len(log) + 2 : log'[i] = IF i <= Len(log) THEN log[i] ELSE NewRows(k)[i - Len(log)]
  <2>1. /\ log' \in Seq(Rows) /\ Len(log') = Len(log) + Len(NewRows(k))
        /\ \A i \in 1..Len(log) + Len(NewRows(k)) :
             log'[i] = IF i <= Len(log) THEN log[i] ELSE NewRows(k)[i - Len(log)]
    <3> HIDE DEF NewRows
    <3> QED
      BY <1>1, <1>4, <1>5, ConcatProperties
  <2> QED
    BY <1>5, <2>1
<1>7. DOMAIN log' = 1..Len(log) + 2 /\ DOMAIN log = 1..Len(log)
  BY <1>1, <1>6
<1>8. \A i \in 1..Len(log) : i \in 1..Len(log) + 2 /\ log'[i] = log[i]
  BY <1>1, <1>6
<1>9. log'[Len(log) + 1] = NewRows(k)[1] /\ log'[Len(log) + 2] = NewRows(k)[2]
  BY <1>1, <1>6
<1> QED
  BY <1>2, <1>4, <1>6, <1>7, <1>8, <1>9

LEMMA SaveTypes ==
  ASSUME Types, TurnsFit, NEW k \in Turn, Save(k)
  PROVE  Types'
<1>1. UNCHANGED <<topics, turn, requests, view>>
  BY DEF Save
<1>2. log' \in Seq(Rows) /\ DOMAIN log \subseteq DOMAIN log'
  BY SaveGrows
<1>3. ScreenTypes' /\ LoadTypes'
  BY <1>1, <1>2 DEF view, Types, ScreenTypes, LoadTypes, Requests, Replied
<1>4. wire' \in [Turn -> Seq(Events)]
  BY EventsGrow DEF Save, Events, Types, ServerTypes
<1>5. run' \in [Turn -> Runs]
  BY DEF Save, Runs, Types, ServerTypes
<1> QED
  BY <1>1, <1>2, <1>3, <1>4, <1>5 DEF Types, ServerTypes

\* The answers of the server, and the steps of the page.
LEMMA PageTyped ==
  ASSUME Types, NEW t \in Topic, NEW before \in (DOMAIN log) \cup {None}
  PROVE  Page(t, before) \in Replied
<1>1. log \in Seq(Rows) /\ DOMAIN log \subseteq Nat
  BY DEF Types, ServerTypes
<1>2. before = None \/ before \in Nat
  BY <1>1
<1>3. PageOf(t, before, Page(t, before))
  BY <1>1, <1>2, PageIsPageOf
<1>4. \A i \in Older(t, before) : i \in DOMAIN log /\ log[i] \in Rows
  BY <1>1 DEF Older
<1>5. OnPage(t, before) \subseteq DOMAIN log /\ \A i \in OnPage(t, before) : log[i] \in Rows
  BY <1>3, <1>4 DEF PageOf
<1>6. {Saved(i) : i \in OnPage(t, before)} \subseteq Message
  <2>1. SUFFICES ASSUME NEW i \in OnPage(t, before) PROVE Saved(i) \in Message
    OBVIOUS
  <2>2. log[i] \in Rows /\ Tokens \in 0..Tokens
    BY <1>5, ChatAssumption
  <2> QED
    BY <2>2 DEF Saved, Entry, Message, TurnOrNone, Rows
<1>7. Page(t, before).messages \in Seq(Message)
  BY <1>3, <1>6, SeqMonotonic DEF PageOf
<1>8. Page(t, before).has_more \in BOOLEAN /\ Page(t, before).cursor \in (DOMAIN log) \cup {None}
  BY <1>3, <1>5 DEF PageOf
<1>9. Page(t, before) = [messages |-> Page(t, before).messages, has_more |-> Page(t, before).has_more,
                         cursor |-> Page(t, before).cursor]
  BY PageIs
<1> HIDE DEF Page
<1> QED
  BY <1>7, <1>8, <1>9 DEF Replied

\* What the server answers to a request.
Reply(r) ==
  IF r.kind = "delete" THEN EmptyPage
  ELSE IF r.topic \notin topics THEN Error
  ELSE [Page(r.topic, r.before) EXCEPT !.messages =
          @ \o IF Active(r.topic) /\ r.kind = "select" THEN <<Placeholder>> ELSE <<>>]

LEMMA ReplyTyped ==
  ASSUME Types, NEW r \in Requests
  PROVE  Reply(r) \in {None, Error} \cup Replied
<1>1. EmptyPage \in Replied
  BY DEF EmptyPage, Replied
<1>2. Page(r.topic, r.before) \in Replied
  BY PageTyped DEF Requests
<1>3. <<Placeholder>> \in Seq(Message) /\ <<>> \in Seq(Message)
  BY ChatAssumption DEF Placeholder, Entry, Message, TurnOrNone
<1> DEFINE more == IF Active(r.topic) /\ r.kind = "select" THEN <<Placeholder>> ELSE <<>>
           p == Page(r.topic, r.before)
<1>4. more \in Seq(Message) /\ p \in Replied
  BY <1>2, <1>3
<1>5. Reply(r) = EmptyPage \/ Reply(r) = Error \/ Reply(r) = [p EXCEPT !.messages = @ \o more]
  BY DEF Reply
<1> HIDE DEF more, p
<1>6. p.messages \o more \in Seq(Message)
  BY <1>4, ConcatProperties DEF Replied
<1>7. [p EXCEPT !.messages = @ \o more] \in Replied
  BY <1>4, <1>6 DEF Replied
<1> QED
  BY <1>1, <1>5, <1>7

LEMMA AnswerTypes ==
  ASSUME Types, NEW r \in requests, Answer(r)
  PROVE  Types'
<1>1. UNCHANGED <<log, run, turn, wire, view>> /\ r \in Requests
  BY DEF Answer, Types, LoadTypes
<1>2. requests' = (requests \ {r}) \cup {[r EXCEPT !.reply = Reply(r)]}
  BY DEF Answer, Reply
<1>3. [r EXCEPT !.reply = Reply(r)] \in Requests
  BY <1>1, ReplyTyped DEF Requests
<1>4. requests' \subseteq Requests
  BY <1>2, <1>3 DEF Types, LoadTypes
<1>5. topics' \subseteq Topic
  BY DEF Answer, Types, ServerTypes
<1> QED
  BY <1>1, <1>4, <1>5 DEF view, Types, ServerTypes, ScreenTypes, LoadTypes, Requests, Replied

LEMMA AskTypes ==
  ASSUME Types, NEW kind \in {"select", "more", "delete"}, NEW t \in Topic,
         NEW before \in (DOMAIN log) \cup {None}, Ask(kind, t, before)
  PROVE  requests' \subseteq Requests
BY DEF Ask, Types, LoadTypes, ScreenTypes, Requests

LEMMA SelectTypes ==
  ASSUME Types, NEW t \in topics \cup {None}, SelectTopic(t)
  PROVE  Types'
<1> DEFINE saved == IF current = None THEN cache ELSE [cache EXCEPT ![current] = screen]
<1>1. UNCHANGED <<server, turn, wire, isLoadingMore, stream>> /\ UNCHANGED log
  BY DEF SelectTopic, server
<1>2. current' \in Topic \cup {None} /\ hasMore' \in BOOLEAN
  BY DEF SelectTopic, Types, ServerTypes
<1>3. saved \in [Topic -> {None} \cup Seq(Message)]
  BY DEF Types, ScreenTypes
<1>4. cache' \in [Topic -> {None} \cup Seq(Message)]
  BY <1>3 DEF SelectTopic
<1>5. CASE t = None
  <2>1. screen' = <<>> /\ isStreaming' = FALSE /\ cursor' = None /\ UNCHANGED requests
    BY <1>5 DEF SelectTopic
  <2>2. screen' \in Seq(Message) /\ isStreaming' \in BOOLEAN /\ cursor' \in (DOMAIN log) \cup {None}
    <3>1. <<>> \in Seq(Message)
      OBVIOUS
    <3>2. screen' = <<>> /\ isStreaming' = FALSE /\ cursor' = None
      BY <2>1
    <3> QED
      BY <3>1, <3>2
  <2> QED
    BY <1>1, <1>2, <1>4, <2>1, <2>2 DEF server, Types, ServerTypes, ScreenTypes, LoadTypes, Requests, Replied
<1>6. CASE t # None
  <2>1. t \in Topic
    BY <1>6 DEF Types, ServerTypes
  <2>2. CASE stream # None /\ stream.topic = t /\ saved[t] # None
    <3>1. screen' = saved[t] /\ isStreaming' = TRUE /\ UNCHANGED <<cursor, requests>>
      BY <1>6, <2>2 DEF SelectTopic
    <3> HIDE DEF saved
    <3>2. saved[t] \in Seq(Message)
      BY <1>3, <2>1, <2>2
    <3> QED
      BY <1>1, <1>2, <1>4, <3>1, <3>2 DEF server, Types, ServerTypes, ScreenTypes, LoadTypes, Requests, Replied
  <2>3. CASE ~(stream # None /\ stream.topic = t /\ saved[t] # None)
    <3>1. Ask("select", t, None) /\ UNCHANGED <<screen, isStreaming, cursor>>
      BY <1>6, <2>3 DEF SelectTopic
    <3>2. requests' \subseteq Requests
      BY <2>1, <3>1, AskTypes
    <3> QED
      BY <1>1, <1>2, <1>4, <3>1, <3>2 DEF server, Types, ServerTypes, ScreenTypes, LoadTypes, Requests, Replied
  <2> QED
    BY <2>2, <2>3
<1> QED
  BY <1>5, <1>6

LEMMA SelectedTypes ==
  ASSUME Types, NEW r \in requests, Selected(r)
  PROVE  Types'
<1>1. UNCHANGED <<server, turn, wire, current, isStreaming, isLoadingMore, stream>> /\ r \in Requests
  BY DEF Selected, Types, LoadTypes
<1>2. requests' \subseteq Requests
  BY DEF Selected, Types, LoadTypes
<1>3. CASE r.reply = Error
  BY <1>1, <1>2, <1>3 DEF Selected, server, Types, ServerTypes, ScreenTypes, LoadTypes, Requests, Replied
<1>4. CASE r.reply # Error
  <2>1. r.reply \in Replied /\ r.topic \in Topic
    BY <1>1, <1>4 DEF Selected, Requests
  <2>2. /\ cursor' = r.reply.cursor /\ hasMore' = r.reply.has_more /\ screen' = r.reply.messages
        /\ cache' = [cache EXCEPT ![r.topic] = r.reply.messages]
    BY <1>4 DEF Selected
  <2>3. /\ cursor' \in (DOMAIN log) \cup {None} /\ hasMore' \in BOOLEAN
        /\ screen' \in Seq(Message) /\ cache' \in [Topic -> {None} \cup Seq(Message)]
    BY <2>1, <2>2 DEF Replied, Types, ScreenTypes
  <2> QED
    BY <1>1, <1>2, <2>3 DEF server, Types, ServerTypes, ScreenTypes, LoadTypes, Requests, Replied
<1> QED
  BY <1>3, <1>4

LEMMA LoadMoreTypes ==
  ASSUME Types, LoadMore
  PROVE  Types'
<1>1. Ask("more", current, cursor) /\ current \in Topic /\ cursor \in (DOMAIN log) \cup {None}
  BY DEF LoadMore, Types, ScreenTypes, LoadTypes
<1>2. requests' \subseteq Requests
  BY <1>1, AskTypes
<1>3. UNCHANGED <<server, turn, wire, current, screen, isStreaming, hasMore, cursor, cache, stream>>
      /\ isLoadingMore' = TRUE
  BY DEF LoadMore
<1> QED
  BY <1>2, <1>3 DEF server, Types, ServerTypes, ScreenTypes, LoadTypes, Requests, Replied

LEMMA LoadedMoreTypes ==
  ASSUME Types, NEW r \in requests, LoadedMore(r)
  PROVE  Types'
<1>1. UNCHANGED <<server, turn, wire, current, isStreaming, cache, stream>> /\ r \in Requests
      /\ isLoadingMore' = FALSE
  BY DEF LoadedMore, Types, LoadTypes
<1>2. requests' \subseteq Requests
  BY DEF LoadedMore, Types, LoadTypes
<1>3. CASE r.reply = Error
  <2>1. UNCHANGED <<cursor, hasMore, screen>>
    BY <1>3 DEF LoadedMore
  <2> QED
    BY <1>1, <1>2, <2>1 DEF server, Types, ServerTypes, ScreenTypes, LoadTypes, Requests, Replied
<1>4. CASE r.reply # Error /\ r.reply.messages = <<>>
  <2>1. UNCHANGED <<cursor, screen>> /\ hasMore' = FALSE
    BY <1>4 DEF LoadedMore
  <2> QED
    BY <1>1, <1>2, <2>1 DEF server, Types, ServerTypes, ScreenTypes, LoadTypes, Requests, Replied
<1>5. CASE r.reply # Error /\ r.reply.messages # <<>>
  <2>1. r.reply \in Replied
    BY <1>1, <1>5 DEF LoadedMore, Requests
  <2>2. cursor' = r.reply.cursor /\ hasMore' = r.reply.has_more /\ screen' = r.reply.messages \o screen
    BY <1>5 DEF LoadedMore
  <2>3. screen \in Seq(Message) /\ r.reply.messages \in Seq(Message)
    BY <2>1 DEF Replied, Types, ScreenTypes
  <2>4. screen' \in Seq(Message)
    BY <2>2, <2>3, ConcatProperties
  <2>5. cursor' \in (DOMAIN log) \cup {None} /\ hasMore' \in BOOLEAN
    BY <2>1, <2>2 DEF Replied
  <2> QED
    BY <1>1, <1>2, <2>4, <2>5 DEF server, Types, ServerTypes, ScreenTypes, LoadTypes, Requests, Replied
<1> QED
  BY <1>3, <1>4, <1>5

LEMMA RemoveTypes ==
  ASSUME Types, NEW t \in topics, RemoveTopic(t)
  PROVE  Types'
<1>1. Ask("delete", t, None) /\ t \in Topic
  BY DEF RemoveTopic, Types, ServerTypes
<1>2. requests' \subseteq Requests
  BY <1>1, AskTypes
<1>3. UNCHANGED <<server, turn, wire, view>>
  BY DEF RemoveTopic
<1> QED
  BY <1>2, <1>3 DEF server, view, Types, ServerTypes, ScreenTypes, LoadTypes, Requests, Replied

LEMMA RemovedTypes ==
  ASSUME Types, NEW r \in requests, Removed(r)
  PROVE  Types'
<1>1. UNCHANGED <<server, turn, wire, isStreaming, hasMore, isLoadingMore, cursor, stream>> /\ r \in Requests
  BY DEF Removed, Types, LoadTypes
<1>2. requests' \subseteq Requests
  BY DEF Removed, Types, LoadTypes
<1>3. /\ cache' \in [Topic -> {None} \cup Seq(Message)] /\ current' \in Topic \cup {None}
      /\ screen' \in Seq(Message)
  BY <1>1 DEF Removed, Requests, Types, ScreenTypes
<1> QED
  BY <1>1, <1>2, <1>3 DEF server, Types, ServerTypes, ScreenTypes, LoadTypes, Requests, Replied

LEMMA UpdatedTyped ==
  ASSUME Types, NEW k \in Turn, NEW status \in {None, "streaming", "done", "error"}, NEW text \in 0..Tokens
  PROVE  /\ Updated(k, status, text) \in Seq(Message)
         /\ Len(Updated(k, status, text)) = Len(screen)
         /\ DOMAIN Updated(k, status, text) = DOMAIN screen
<1>1. screen \in Seq(Message) /\ Len(screen) \in Nat /\ DOMAIN screen = 1..Len(screen)
  BY DEF Types, ScreenTypes
<1>2. ASSUME NEW i \in DOMAIN screen
      PROVE  (IF screen[i].turn = k /\ screen[i].role = "assistant" /\ screen[i].live
              THEN [screen[i] EXCEPT !.status = IF status = None THEN @ ELSE status, !.text = text]
              ELSE screen[i]) \in Message
  <2>1. screen[i] \in Message
    BY <1>1
  <2> QED
    BY <2>1 DEF Message
<1>3. Updated(k, status, text) \in [1..Len(screen) -> Message]
  BY <1>1, <1>2 DEF Updated
<1> HIDE DEF Updated
<1> QED
  BY <1>1, <1>3

LEMMA KeptTyped ==
  ASSUME Types, NEW k \in Turn, NEW messages \in {None} \cup Seq(Message)
  PROVE  Kept(k, messages) \in [Topic -> {None} \cup Seq(Message)]
BY DEF Kept, Types, ServerTypes, ScreenTypes, Turns

LEMMA SendTypes ==
  ASSUME Types, NEW k \in Turn, NEW files \in BOOLEAN, Send(k, files)
  PROVE  Types'
<1>1. UNCHANGED <<server, wire, requests, current, hasMore, isLoadingMore, cursor, cache>> /\ isStreaming' = TRUE
  BY DEF Send
<1>2. turn' \in [Turn -> Turns]
  <2> DEFINE phase == IF ~files THEN "sent" ELSE IF current = None THEN "create" ELSE "upload"
  <2>1. turn' = [turn EXCEPT ![k].phase = phase, ![k].target = current, ![k].topic = current]
    BY DEF Send
  <2>2. phase \in Phases /\ current \in Topic \cup {None}
    BY DEF Phases, Types, ScreenTypes
  <2> HIDE DEF phase
  <2>3. turn \in [Turn -> Turns] /\ turn[k] \in Turns
    BY DEF Types, ServerTypes
  <2>4. [turn[k] EXCEPT !.phase = phase, !.target = current, !.topic = current] \in Turns
    BY <2>2, <2>3 DEF Turns
  <2>5. turn' = [turn EXCEPT ![k] = [turn[k] EXCEPT !.phase = phase, !.target = current, !.topic = current]]
    BY <2>1, <2>3
  <2> QED
    BY <2>3, <2>4, <2>5
<1>3. screen' \in Seq(Message)
  <2>1. <<Entry(k, "user", "done", Tokens, TRUE), Entry(k, "assistant", "streaming", 0, TRUE)>> \in Seq(Message)
    BY ChatAssumption DEF Entry, Message, TurnOrNone
  <2> QED
    BY <2>1, ConcatProperties DEF Send, Types, ScreenTypes
<1>4. stream' \in [topic : Topic \cup {None}, aborts : Turn \cup {None}]
  BY DEF Send, Types, ScreenTypes
<1> QED
  BY <1>1, <1>2, <1>3, <1>4 DEF server, Types, ServerTypes, ScreenTypes, LoadTypes, Requests, Replied

LEMMA CreatedTypes ==
  ASSUME Types, NEW k \in Turn, Created(k)
  PROVE  Types'
<1>1. UNCHANGED <<log, run, wire, requests, screen, isStreaming, hasMore, isLoadingMore, cursor, cache>>
  BY DEF Created
<1>2. Fresh \in Topic
  BY FreshIs DEF Created
<1>3. /\ topics' = topics \cup {Fresh} /\ current' = Fresh
      /\ turn' = [turn EXCEPT ![k].phase = "upload", ![k].topic = Fresh]
      /\ stream' = IF stream = None THEN None ELSE [stream EXCEPT !.topic = Fresh]
  BY DEF Created
<1> HIDE DEF Fresh
<1>4. turn' \in [Turn -> Turns]
  <2>1. turn \in [Turn -> Turns] /\ "upload" \in Phases
    BY DEF Types, ServerTypes, Phases
  <2> QED
    BY <1>2, <1>3, <2>1, ZenonT(40) DEF Turns
<1>5. stream' = None \/ stream' \in [topic : Topic \cup {None}, aborts : Turn \cup {None}]
  BY <1>2, <1>3 DEF Types, ScreenTypes
<1>6. topics' \subseteq Topic
  BY <1>2, <1>3 DEF Types, ServerTypes
<1> QED
  BY <1>1, <1>2, <1>3, <1>4, <1>5, <1>6 DEF Types, ServerTypes, ScreenTypes, LoadTypes, Requests, Replied

LEMMA UploadedTypes ==
  ASSUME Types, NEW k \in Turn, Uploaded(k)
  PROVE  Types'
<1>1. UNCHANGED <<server, wire, requests, current, screen, isStreaming, hasMore, isLoadingMore, cursor, cache>>
  BY DEF Uploaded
<1>2. turn' \in [Turn -> Turns]
  BY ZenonT(40) DEF Uploaded, Types, ServerTypes, Turns, Phases
<1>3. stream' = None \/ stream' \in [topic : Topic \cup {None}, aborts : Turn \cup {None}]
  BY DEF Uploaded, Types, ScreenTypes
<1> QED
  BY <1>1, <1>2, <1>3 DEF server, Types, ServerTypes, ScreenTypes, LoadTypes, Requests, Replied

LEMMA UploadFailsTypes ==
  ASSUME Types, NEW k \in Turn, UploadFails(k)
  PROVE  Types'
<1>1. UNCHANGED <<server, wire, requests, current, hasMore, isLoadingMore, cursor, stream>> /\ isStreaming' = FALSE
  BY DEF UploadFails
<1>2. turn' \in [Turn -> Turns]
  BY ZenonT(40) DEF UploadFails, Types, ServerTypes, Turns, Phases
<1>3. 0 \in 0..Tokens
  BY ChatAssumption
<1>4. screen' \in Seq(Message) /\ cache' \in [Topic -> {None} \cup Seq(Message)]
  BY <1>3, UpdatedTyped, KeptTyped DEF UploadFails, UpdateAssistant
<1> QED
  BY <1>1, <1>2, <1>4 DEF server, Types, ServerTypes, ScreenTypes, LoadTypes, Requests, Replied

LEMMA CancelTypes ==
  ASSUME Types, Cancel
  PROVE  Types'
<1>1. UNCHANGED <<server, requests, current, hasMore, isLoadingMore, cursor, cache>> /\ isStreaming' = FALSE
      /\ stream' = None
  BY DEF Cancel
<1>2. screen' \in Seq(Message)
  <2>1. screen \in Seq(Message) /\ Len(screen) \in Nat /\ DOMAIN screen = 1..Len(screen)
    BY DEF Types, ScreenTypes
  <2>2. ASSUME NEW i \in DOMAIN screen
        PROVE  (IF screen[i].status = "streaming" THEN [screen[i] EXCEPT !.status = "done"] ELSE screen[i]) \in Message
    <3>1. screen[i] \in Message
      BY <2>1
    <3> QED
      BY <3>1 DEF Message
  <2>3. screen' \in [1..Len(screen) -> Message]
    BY <2>1, <2>2 DEF Cancel
  <2> QED
    BY <2>1, <2>3
<1>3. turn' \in [Turn -> Turns] /\ wire' \in [Turn -> Seq(Events)]
  <2>1. CASE stream = None \/ stream.aborts = None
    BY <2>1 DEF Cancel, Types, ServerTypes
  <2>2. CASE ~(stream = None \/ stream.aborts = None)
    <3>1. PICK k \in Turn : stream.aborts = k
      BY <2>2 DEF Types, ScreenTypes
    <3>2. /\ turn' = [turn EXCEPT ![k].unheard = TRUE, ![k].phase = IF @ = "open" THEN "over" ELSE @]
          /\ wire' = [wire EXCEPT ![k] = <<>>]
      BY <2>2, <3>1 DEF Cancel
    <3>3. turn \in [Turn -> Turns] /\ turn[k] \in Turns
      BY DEF Types, ServerTypes
    <3> DEFINE x == [turn[k] EXCEPT !.unheard = TRUE, !.phase = IF @ = "open" THEN "over" ELSE @]
    <3>4. x \in Turns
      BY <3>3 DEF Turns, Phases
    <3>5. turn' = [turn EXCEPT ![k] = x]
      BY <3>2, <3>3
    <3> HIDE DEF x
    <3>6. wire' \in [Turn -> Seq(Events)]
      BY <3>2 DEF Types, ServerTypes
    <3> QED
      BY <3>3, <3>4, <3>5, <3>6
  <2> QED
    BY <2>1, <2>2
<1> QED
  BY <1>1, <1>2, <1>3 DEF server, Types, ServerTypes, ScreenTypes, LoadTypes, Requests, Replied

\* Someone else's run begins: only the server, and a turn that was new, change.
LEMMA ElsewhereIs ==
  ASSUME Types, NEW k \in Turn, NEW t \in Topic, Elsewhere(k, t)
  PROVE  /\ UNCHANGED <<log, wire, requests, view>>
         /\ turn[k].phase = "new" /\ topics' = topics \cup {t}
         /\ t \in topics \/ (t = Fresh /\ Unused # {})
         /\ turn' \in [Turn -> Turns] /\ \A j \in Turn \ {k} : turn'[j] = turn[j]
         /\ turn'[k].phase = "over" /\ turn'[k].target = t /\ turn'[k].topic = t /\ turn'[k].unheard
         /\ turn'[k].said = turn[k].said /\ turn'[k].got = turn[k].got
         /\ run' \in [Turn -> Runs] /\ run'[k] = "running" /\ \A j \in Turn \ {k} : run'[j] = run[j]
<1>1. /\ turn' = [turn EXCEPT ![k].phase = "over", ![k].target = t, ![k].topic = t, ![k].unheard = TRUE]
      /\ run' = [run EXCEPT ![k] = "running"] /\ turn[k].phase = "new" /\ topics' = topics \cup {t}
      /\ t \in topics \/ (t = Fresh /\ Unused # {})
      /\ UNCHANGED <<log, wire, requests, view>>
  BY DEF Elsewhere, IsNext
<1>2. turn \in [Turn -> Turns] /\ turn[k] \in Turns /\ run \in [Turn -> Runs]
  BY DEF Types, ServerTypes
<1> DEFINE x == [turn[k] EXCEPT !.phase = "over", !.target = t, !.topic = t, !.unheard = TRUE]
<1>3. /\ x \in Turns /\ x.phase = "over" /\ x.target = t /\ x.topic = t /\ x.unheard
      /\ x.said = turn[k].said /\ x.got = turn[k].got
  BY <1>2 DEF Turns, Phases
<1>4. turn' = [turn EXCEPT ![k] = x]
  BY <1>1, <1>2
<1> HIDE DEF x
<1>5. turn' \in [Turn -> Turns] /\ turn'[k] = x /\ \A j \in Turn \ {k} : turn'[j] = turn[j]
  BY <1>2, <1>3, <1>4
<1>6. run' \in [Turn -> Runs] /\ run'[k] = "running" /\ \A j \in Turn \ {k} : run'[j] = run[j]
  BY <1>1, <1>2 DEF Runs
<1> HIDE DEF Fresh
<1> QED
  BY <1>1, <1>3, <1>5, <1>6

LEMMA ElsewhereTypes ==
  ASSUME Types, NEW k \in Turn, NEW t \in Topic, Elsewhere(k, t)
  PROVE  Types'
<1>1. /\ UNCHANGED <<log, wire, requests, view>> /\ topics' = topics \cup {t}
      /\ turn' \in [Turn -> Turns] /\ run' \in [Turn -> Runs]
  BY ElsewhereIs
<1>2. topics' \subseteq Topic
  BY <1>1 DEF Types, ServerTypes
<1> QED
  BY <1>1, <1>2 DEF view, Types, ServerTypes, ScreenTypes, LoadTypes, Requests, Replied

\* The connection of a turn breaks: the page shows an error, the server goes on.
LEMMA BreakIs ==
  ASSUME Types, NEW k \in Turn, Break(k)
  PROVE  /\ UNCHANGED <<server, requests, hasMore, isLoadingMore, cursor, current>>
         /\ stream' = None /\ isStreaming' = FALSE
         /\ screen' = Updated(k, "error", turn[k].got) /\ cache' = Kept(k, screen')
         /\ turn[k].phase \in {"sent", "open"} /\ ~turn[k].unheard
         /\ turn' \in [Turn -> Turns] /\ \A j \in Turn \ {k} : turn'[j] = turn[j]
         /\ turn'[k].unheard /\ turn'[k].topic = turn[k].topic /\ turn'[k].target = turn[k].target
         /\ turn'[k].said = turn[k].said /\ turn'[k].got = turn[k].got
         /\ turn[k].phase = "open" => turn'[k].phase = "over"
         /\ turn[k].phase = "sent" => turn'[k].phase = "sent"
         /\ wire' \in [Turn -> Seq(Events)] /\ wire'[k] = <<>> /\ \A j \in Turn \ {k} : wire'[j] = wire[j]
<1>1. /\ turn' = [turn EXCEPT ![k].unheard = TRUE, ![k].phase = IF @ = "open" THEN "over" ELSE @]
      /\ wire' = [wire EXCEPT ![k] = <<>>] /\ turn[k].phase \in {"sent", "open"} /\ ~turn[k].unheard
      /\ UNCHANGED <<server, requests, hasMore, isLoadingMore, cursor, current>>
      /\ stream' = None /\ isStreaming' = FALSE
      /\ screen' = Updated(k, "error", turn[k].got) /\ cache' = Kept(k, screen')
  BY DEF Break, OnError, UpdateAssistant
<1>2. turn \in [Turn -> Turns] /\ turn[k] \in Turns /\ wire \in [Turn -> Seq(Events)]
  BY DEF Types, ServerTypes
<1> DEFINE x == [turn[k] EXCEPT !.unheard = TRUE, !.phase = IF @ = "open" THEN "over" ELSE @]
<1>3. /\ x \in Turns /\ x.unheard /\ x.topic = turn[k].topic /\ x.target = turn[k].target
      /\ x.said = turn[k].said /\ x.got = turn[k].got
      /\ turn[k].phase = "open" => x.phase = "over"
      /\ turn[k].phase = "sent" => x.phase = "sent"
  BY <1>2 DEF Turns, Phases
<1>4. turn' = [turn EXCEPT ![k] = x]
  BY <1>1, <1>2
<1> HIDE DEF x
<1>5. turn' \in [Turn -> Turns] /\ turn'[k] = x /\ \A j \in Turn \ {k} : turn'[j] = turn[j]
  BY <1>2, <1>3, <1>4
<1>6. wire' \in [Turn -> Seq(Events)] /\ wire'[k] = <<>> /\ \A j \in Turn \ {k} : wire'[j] = wire[j]
  BY <1>1, <1>2
<1> QED
  BY <1>1, <1>3, <1>5, <1>6

LEMMA BreakTypes ==
  ASSUME Types, NEW k \in Turn, Break(k)
  PROVE  Types'
<1>1. /\ UNCHANGED <<server, requests, hasMore, isLoadingMore, cursor, current>>
      /\ stream' = None /\ isStreaming' = FALSE
      /\ screen' = Updated(k, "error", turn[k].got) /\ cache' = Kept(k, screen')
      /\ turn' \in [Turn -> Turns] /\ wire' \in [Turn -> Seq(Events)]
  BY BreakIs
<1>2. turn[k].got \in 0..Tokens
  BY DEF Types, ServerTypes, Turns
<1>3. screen' \in Seq(Message) /\ cache' \in [Topic -> {None} \cup Seq(Message)]
  BY <1>1, <1>2, UpdatedTyped, KeptTyped
<1> QED
  BY <1>1, <1>3 DEF server, Types, ServerTypes, ScreenTypes, LoadTypes, Requests, Replied

\* The first event of a stream is taken, or one comes after the last.
LEMMA Taken ==
  ASSUME NEW w \in Seq(Events), w # <<>>
  PROVE  /\ Tail(w) \in Seq(Events) /\ Len(w) \in Nat /\ Len(w) > 0 /\ Len(Tail(w)) = Len(w) - 1
         /\ DOMAIN w = 1..Len(w) /\ DOMAIN Tail(w) = 1..Len(w) - 1
         /\ Head(w) = w[1] /\ 1 \in DOMAIN w
         /\ \A i \in 1..Len(w) - 1 : Tail(w)[i] = w[i + 1]
<1>1. Tail(w) \in Seq(Events) /\ Len(Tail(w)) = Len(w) - 1 /\ Len(w) \in Nat /\ Len(w) > 0
  BY HeadTailProperties, EmptySeq
<1>2. DOMAIN w = 1..Len(w) /\ DOMAIN Tail(w) = 1..Len(w) - 1
  BY <1>1
<1>3. Head(w) = w[1] /\ 1 \in DOMAIN w
  BY <1>1, <1>2
<1>4. \A i \in 1..Len(w) - 1 : Tail(w)[i] = w[i + 1]
  BY <1>1
<1> QED
  BY <1>1, <1>2, <1>3, <1>4

LEMMA Appended ==
  ASSUME NEW w \in Seq(Events), NEW e \in Events
  PROVE  /\ w \o <<e>> \in Seq(Events) /\ Len(w) \in Nat /\ Len(w \o <<e>>) = Len(w) + 1
         /\ DOMAIN w = 1..Len(w) /\ DOMAIN (w \o <<e>>) = 1..Len(w) + 1
         /\ \A i \in 1..Len(w) : (w \o <<e>>)[i] = w[i]
         /\ (w \o <<e>>)[Len(w) + 1] = e
         /\ e # "info" => Opening(w \o <<e>>) = Opening(w)
<1>1. /\ w \o <<e>> \in Seq(Events) /\ Len(w) \in Nat /\ Len(w \o <<e>>) = Len(w) + 1
      /\ \A i \in 1..Len(w) : (w \o <<e>>)[i] = w[i]
      /\ (w \o <<e>>)[Len(w) + 1] = e
  OBVIOUS
<1>2. DOMAIN w = 1..Len(w) /\ DOMAIN (w \o <<e>>) = 1..Len(w) + 1
  BY <1>1
<1>3. w # <<>> => Len(w) > 0
  BY EmptySeq
<1>4. w = <<>> => Len(w) = 0
  BY EmptySeq
<1>5. w \o <<e>> # <<>>
  BY <1>1
<1>6. e # "info" => Opening(w \o <<e>>) = Opening(w)
  <2>1. CASE w = <<>>
    BY <1>1, <1>4, <1>5, <2>1 DEF Opening
  <2>2. CASE w # <<>>
    <3>1. 1 \in 1..Len(w)
      BY <1>1, <1>3, <2>2
    <3> QED
      BY <1>1, <1>5, <2>2, <3>1 DEF Opening
  <2> QED
    BY <2>1, <2>2
<1> QED
  BY <1>1, <1>2, <1>6

LEMMA DeliverTypes ==
  ASSUME Types, TurnsFit, NEW k \in Turn, Deliver(k)
  PROVE  Types'
<1>1. /\ UNCHANGED <<server, requests, hasMore, isLoadingMore, cursor>>
      /\ turn[k].phase = "open" /\ wire[k] # <<>> /\ wire' = [wire EXCEPT ![k] = Tail(@)]
  BY DEF Deliver
<1>2. turn \in [Turn -> Turns] /\ turn[k] \in Turns /\ wire[k] \in Seq(Events)
  BY DEF Types, ServerTypes
<1>3. wire' \in [Turn -> Seq(Events)]
  BY <1>1, <1>2, Taken DEF Types, ServerTypes
<1>4. turn[k].got \in 0..Tokens /\ turn[k].topic \in Topic \cup {None}
  BY <1>2 DEF Turns
<1>5. /\ turn' \in [Turn -> Turns] /\ current' \in Topic \cup {None} /\ screen' \in Seq(Message)
      /\ isStreaming' \in BOOLEAN /\ cache' \in [Topic -> {None} \cup Seq(Message)]
      /\ stream' = None \/ stream' \in [topic : Topic \cup {None}, aborts : Turn \cup {None}]
  <2>0. ASSUME NEW phase \in Phases PROVE [turn EXCEPT ![k].phase = phase] \in [Turn -> Turns]
    BY <1>2 DEF Turns
  <2>1. CASE Head(wire[k]) = "info" /\ OnInfo(k)
    BY <1>2, <1>4, <2>1 DEF OnInfo, Types, ServerTypes, ScreenTypes
  <2>2. CASE Head(wire[k]) = "text" /\ OnText(k)
    <3>1. turn[k].got + 1 \in 0..Tokens
      <4>1. 1 \in DOMAIN wire[k] /\ wire[k][1] = "text"
        BY <1>1, <1>2, <2>2, Taken
      <4>2. Opening(wire[k]) = 0
        BY <4>1 DEF Opening
      <4>3. 1 <= Told(k)
        BY <1>1, <4>1 DEF TurnsFit, WireFits
      <4>4. turn[k].said \in 0..Tokens
        BY <1>2 DEF Turns
      <4> QED
        BY <1>4, <4>2, <4>3, <4>4, ChatAssumption DEF Told
    <3>2. screen' \in Seq(Message) /\ cache' \in [Topic -> {None} \cup Seq(Message)]
      BY <2>2, <3>1, UpdatedTyped, KeptTyped DEF OnText, UpdateAssistant
    <3>3. turn' \in [Turn -> Turns]
      BY <1>2, <2>2, <3>1 DEF OnText, Turns
    <3> QED
      BY <2>2, <3>2, <3>3 DEF OnText, Types, ScreenTypes
  <2>3. CASE Head(wire[k]) = "done" /\ OnDone(k)
    <3>1. screen' \in Seq(Message)
      BY <1>4, <2>3, UpdatedTyped DEF OnDone
    <3>2. cache' \in [Topic -> {None} \cup Seq(Message)]
      BY <2>3, <3>1, KeptTyped DEF OnDone
    <3> QED
      BY <2>3, <3>1, <3>2 DEF OnDone, Types, ServerTypes, ScreenTypes
  <2>4. CASE OnError(k) /\ turn' = [turn EXCEPT ![k].phase = "over"]
    <3>1. screen' \in Seq(Message) /\ cache' \in [Topic -> {None} \cup Seq(Message)]
      BY <1>4, <2>4, UpdatedTyped, KeptTyped DEF OnError, UpdateAssistant
    <3>2. turn' \in [Turn -> Turns]
      BY <2>0, <2>4 DEF Phases
    <3> QED
      BY <2>4, <3>1, <3>2 DEF OnError, Types, ScreenTypes
  <2>5. CASE /\ turn' = [turn EXCEPT ![k].phase = "over"]
             /\ UNCHANGED <<current, screen, isStreaming, cache, stream>>
    <3>1. turn' \in [Turn -> Turns]
      BY <2>0, <2>5 DEF Phases
    <3> QED
      BY <2>5, <3>1 DEF Types, ScreenTypes
  <2> QED
    BY <2>1, <2>2, <2>3, <2>4, <2>5 DEF Deliver
<1> QED
  BY <1>1, <1>3, <1>5 DEF server, Types, ServerTypes, ScreenTypes, LoadTypes, Requests, Replied

-----------------------------------------------------------------------------
(* Turns, their runs and their streams.                                    *)

LEMMA Alike ==
  ASSUME NEW j, TurnFits(j), WireFits(j), turn'[j] = turn[j], run'[j] = run[j], wire'[j] = wire[j]
  PROVE  TurnFits(j)' /\ WireFits(j)'
BY DEF TurnFits, WireFits, Told, Opening, Has

LEMMA BeginFits ==
  ASSUME Types, TurnsFit, NEW k \in Turn, Begin(k)
  PROVE  TurnsFit'
<1>1. turn[k].phase = "sent" /\ turn[k] \in Turns /\ run[k] = None /\ wire[k] = <<>>
      /\ turn[k].said = 0 /\ turn[k].got = 0 /\ turn[k].target \in Topic \cup {None}
  BY DEF Begin, Types, ServerTypes, Turns, TurnsFit, TurnFits, WireFits
<1>2. \A j \in Turn \ {k} : turn'[j] = turn[j] /\ run'[j] = run[j] /\ wire'[j] = wire[j]
  BY DEF Begin, Types, ServerTypes
<1> DEFINE phase == IF turn[k].unheard THEN "over" ELSE "open"
<1>3. TurnFits(k)' /\ WireFits(k)'
  <2>0. phase \in {"open", "over"} /\ (phase = "over" => turn[k].unheard) /\ (phase = "open" => ~turn[k].unheard)
    OBVIOUS
  <2>1. CASE turn[k].topic # None
    <3>1. /\ turn'[k].phase = phase /\ turn'[k].topic = turn[k].topic /\ turn'[k].target = turn[k].target
          /\ turn'[k].said = 0 /\ turn'[k].got = 0 /\ turn'[k].unheard = turn[k].unheard
      BY <1>1, <2>1 DEF Begin, Types, ServerTypes, Turns
    <3>2. \/ run'[k] = "refused" /\ (phase = "open" => wire'[k] = <<"exit1">>)
          \/ run'[k] = "running" /\ wire'[k] = <<>>
      BY <1>1, <2>1 DEF Begin, Types, ServerTypes
    <3> HIDE DEF phase
    <3>3. TurnFits(k)'
      BY <2>0, <2>1, <3>1, <3>2, ChatAssumption DEF TurnFits, TurnsFit
    <3>4. CASE phase = "open" /\ run'[k] = "refused" /\ wire'[k] = <<"exit1">>
      <4>1. Opening(wire'[k]) = 0 /\ Told(k)' = 0 /\ Len(wire'[k]) = 1 /\ DOMAIN wire'[k] = {1}
        BY <3>1, <3>4 DEF Told, Opening
      <4> QED
        BY <3>1, <3>3, <3>4, <4>1 DEF WireFits
    <3>5. CASE phase = "open" /\ run'[k] = "running" /\ wire'[k] = <<>>
      <4>1. Opening(wire'[k]) = 0 /\ Told(k)' = 0 /\ Len(wire'[k]) = 0 /\ DOMAIN wire'[k] = {}
        BY <3>1, <3>5 DEF Told, Opening
      <4> QED
        BY <3>1, <3>3, <3>5, <4>1 DEF WireFits
    <3>6. CASE phase = "over"
      BY <3>1, <3>3, <3>6 DEF WireFits
    <3> QED
      BY <2>0, <3>2, <3>3, <3>4, <3>5, <3>6
  <2>2. CASE turn[k].topic = None
    <3>1. Fresh # None
      BY <2>2, FreshIs DEF Begin
    <3>2. /\ turn'[k].phase = phase /\ turn'[k].topic = Fresh /\ turn'[k].target = turn[k].target
          /\ turn'[k].said = 0 /\ turn'[k].got = 0 /\ run'[k] = "running"
          /\ turn'[k].unheard = turn[k].unheard
          /\ phase = "open" => wire'[k] = <<"info">>
      BY <1>1, <2>2 DEF Begin, Types, ServerTypes, Turns
    <3>3. turn[k].target = None
      BY <2>2 DEF TurnsFit, TurnFits
    <3> HIDE DEF phase
    <3>4. TurnFits(k)'
      BY <2>0, <3>1, <3>2, <3>3, ChatAssumption DEF TurnFits
    <3>5. CASE phase = "open"
      <4>1. /\ turn'[k].phase = "open" /\ turn'[k].said = 0 /\ turn'[k].got = 0 /\ run'[k] = "running"
            /\ wire'[k] = <<"info">>
        BY <3>2, <3>5
      <4> QED
        BY <3>4, <4>1, ChatAssumption DEF WireFits, Told, Opening, Has
    <3>6. CASE phase = "over"
      BY <3>2, <3>4, <3>6 DEF WireFits
    <3> QED
      BY <2>0, <3>4, <3>5, <3>6
  <2> QED
    BY <2>1, <2>2
<1> QED
  BY <1>2, <1>3, Alike DEF TurnsFit

LEMMA DroppedFits ==
  ASSUME Types, TurnsFit, NEW k \in Turn, Dropped(k)
  PROVE  TurnsFit'
<1>1. /\ turn[k].phase = "sent" /\ turn[k].unheard /\ turn' = [turn EXCEPT ![k].phase = "dropped"]
      /\ turn \in [Turn -> Turns] /\ turn[k] \in Turns /\ UNCHANGED <<run, wire>>
  BY DEF Dropped, Types, ServerTypes, server
<1>2. /\ turn'[k].phase = "dropped" /\ turn'[k].topic = turn[k].topic /\ turn'[k].target = turn[k].target
      /\ turn'[k].said = turn[k].said /\ turn'[k].got = turn[k].got
      /\ \A j \in Turn \ {k} : turn'[j] = turn[j] /\ run'[j] = run[j] /\ wire'[j] = wire[j]
  BY <1>1 DEF Turns
<1>3. TurnFits(k)' /\ WireFits(k)'
  BY <1>1, <1>2 DEF TurnsFit, TurnFits, WireFits
<1> QED
  BY <1>2, <1>3, Alike DEF TurnsFit

LEMMA TokenFits ==
  ASSUME Types, TurnsFit, NEW k \in Turn, Token(k)
  PROVE  TurnsFit'
<1> DEFINE w == wire[k]
<1>1. /\ turn \in [Turn -> Turns] /\ turn[k] \in Turns /\ run[k] = "running" /\ w \in Seq(Events)
      /\ wire \in [Turn -> Seq(Events)] /\ Emit(k, <<"text">>) /\ "text" \in Events
      /\ turn' = [turn EXCEPT ![k].said = @ + 1] /\ run' = run
  BY DEF Token, Types, ServerTypes, server, Events
<1>2. turn[k].phase \in {"open", "over"}
  BY <1>1, ChatAssumption DEF TurnsFit, TurnFits
<1>3. /\ turn'[k].phase = turn[k].phase /\ turn'[k].topic = turn[k].topic /\ turn'[k].target = turn[k].target
      /\ turn'[k].said = turn[k].said + 1 /\ turn'[k].got = turn[k].got /\ turn'[k].unheard = turn[k].unheard
      /\ \A j \in Turn \ {k} : turn'[j] = turn[j]
  BY <1>1 DEF Turns
<1>4. turn[k].phase = "open" => wire'[k] = w \o <<"text">>
  BY <1>1, EventsGrow
<1>5. TurnFits(k)'
  BY <1>1, <1>3 DEF TurnsFit, TurnFits
<1>6. WireFits(k)'
  <2>1. CASE turn[k].phase = "open"
    <3>1. /\ turn[k].got <= turn[k].said /\ Len(w) = Told(k)
          /\ \A i \in DOMAIN w :
               /\ w[i] = "info" => i = 1
               /\ w[i] = "text" <=> Opening(w) < i /\ i <= Told(k)
               /\ w[i] = "done" => i = Told(k) + 1
               /\ w[i] # "exit0" /\ w[i] # "exit1"
      BY <1>1, <2>1 DEF TurnsFit, WireFits
    <3>2. turn[k].got \in Nat /\ turn[k].said \in Nat
      BY <1>1, ChatAssumption DEF Turns
    <3> DEFINE v == w \o <<"text">>
    <3>3. /\ v \in Seq(Events) /\ Len(w) \in Nat /\ Len(v) = Len(w) + 1
          /\ DOMAIN w = 1..Len(w) /\ DOMAIN v = 1..Len(w) + 1
          /\ \A i \in 1..Len(w) : v[i] = w[i]
          /\ v[Len(w) + 1] = "text" /\ Opening(v) = Opening(w)
      BY <1>1, Appended
    <3>4. wire'[k] = v
      BY <1>4, <2>1
    <3> HIDE DEF v, w
    <3>5. Told(k)' = Told(k) + 1 /\ Opening(w) \in {0, 1} /\ Opening(w) <= Told(k)
      BY <1>3, <3>2, <3>1, <3>3, <3>4, SMTT(30) DEF Told, Opening, w
    <3>6. ASSUME NEW i \in DOMAIN v
          PROVE  /\ v[i] = "info" => i = 1
                 /\ v[i] = "text" <=> Opening(v) < i /\ i <= Told(k) + 1
                 /\ v[i] # "done" /\ v[i] # "exit0" /\ v[i] # "exit1"
      <4>1. CASE i = Len(w) + 1
        BY <3>1, <3>3, <3>5, <4>1
      <4>2. CASE i # Len(w) + 1
        <5>1. i \in 1..Len(w) /\ v[i] = w[i] /\ i \in DOMAIN w
          BY <3>3, <4>2
        <5> QED
          BY <3>1, <3>3, <5>1
      <4> QED
        BY <4>1, <4>2
    <3>7. Told(k)' = Len(v) /\ Told(k)' = Told(k) + 1
      BY <3>1, <3>3, <3>5
    <3>8. turn'[k].got <= turn'[k].said
      BY <1>3, <3>1, <3>2
    <3>9. run'[k] = "running"
      BY <1>1
    <3> QED
      BY <1>3, <2>1, <3>3, <3>4, <3>6, <3>7, <3>8, <3>9 DEF WireFits
  <2>2. CASE turn[k].phase = "over"
    BY <1>3, <2>2 DEF WireFits
  <2> QED
    BY <1>2, <2>1, <2>2
<1>7. \A j \in Turn \ {k} : turn'[j] = turn[j] /\ run'[j] = run[j] /\ wire'[j] = wire[j]
  BY <1>1, <1>3, EventsGrow
<1> QED
  BY <1>5, <1>6, <1>7, Alike DEF TurnsFit

\* A run that gets further tells its stream.
LEMMA RunFits ==
  ASSUME Types, TurnsFit, NEW k \in Turn, turn' = turn, NEW s, NEW e \in Events, Emit(k, <<e>>),
         run' = [run EXCEPT ![k] = s],
         \/ s = "answered" /\ e = "done" /\ run[k] = "running" /\ turn[k].said = Tokens
         \/ s = "saved" /\ e = "exit0" /\ run[k] = "answered"
         \/ s = "failed" /\ e = "exit1" /\ run[k] \in {"running", "answered"}
  PROVE  TurnsFit'
<1> DEFINE w == wire[k]
<1>1. /\ turn[k] \in Turns /\ run \in [Turn -> Runs] /\ w \in Seq(Events) /\ wire \in [Turn -> Seq(Events)]
  BY DEF Types, ServerTypes
<1>2. run'[k] = s /\ \A j \in Turn \ {k} : run'[j] = run[j]
  BY <1>1
<1>3. turn[k].phase \in {"open", "over"}
  BY ChatAssumption DEF TurnsFit, TurnFits
<1>4. /\ turn[k].phase = "open" => wire'[k] = w \o <<e>>
      /\ \A j \in Turn \ {k} : wire'[j] = wire[j]
  BY <1>1, EventsGrow
<1>5. ~turn[k].unheard /\ turn[k].phase = "over" => FALSE
  BY ChatAssumption DEF TurnsFit, TurnFits
<1>6. TurnFits(k)'
  BY <1>2, <1>3, <1>5, ChatAssumption DEF TurnsFit, TurnFits
<1>7. WireFits(k)'
  <2>1. CASE turn[k].phase = "open"
    <3>1. /\ turn[k].got <= turn[k].said /\ Told(k) <= Len(w)
          /\ \A i \in DOMAIN w :
               /\ w[i] = "info" => i = 1
               /\ w[i] = "text" <=> Opening(w) < i /\ i <= Told(k)
               /\ w[i] = "done" => i = Told(k) + 1 /\ turn[k].said = Tokens
               /\ w[i] # "exit0" /\ w[i] # "exit1"
          /\ run[k] = "running" => Len(w) = Told(k)
          /\ run[k] = "answered" /\ turn[k].got < turn[k].said => Has(w, "done")
      BY <1>1, <2>1, ChatAssumption DEF TurnsFit, WireFits
    <3>2. turn[k].got \in Nat /\ turn[k].said \in Nat
      BY <1>1, ChatAssumption DEF Turns
    <3> DEFINE v == w \o <<e>>
    <3>3. /\ v \in Seq(Events) /\ Len(w) \in Nat /\ Len(v) = Len(w) + 1
          /\ DOMAIN w = 1..Len(w) /\ DOMAIN v = 1..Len(w) + 1
          /\ \A i \in 1..Len(w) : v[i] = w[i]
          /\ v[Len(w) + 1] = e /\ Opening(v) = Opening(w)
      BY <1>1, Appended
    <3>4. wire'[k] = v
      BY <1>4, <2>1
    <3> HIDE DEF v, w
    <3>5. Told(k)' = Told(k) /\ Opening(w) \in {0, 1} /\ Told(k) \in Nat
      <4>1. Told(k) = Opening(w) + (turn[k].said - turn[k].got)
        BY DEF Told, w
      <4>2. Told(k)' = Opening(v) + (turn[k].said - turn[k].got)
        BY <3>4 DEF Told
      <4>3. Opening(w) \in {0, 1}
        BY DEF Opening
      <4> QED
        BY <3>1, <3>2, <3>3, <4>1, <4>2, <4>3
    <3>6. Len(w) + 1 = Len(v) /\ ~(Len(w) + 1 <= Told(k))
      BY <3>1, <3>3, <3>5
    <3>7. ASSUME NEW i \in DOMAIN v
          PROVE  /\ v[i] = "info" => i = 1
                 /\ v[i] = "text" <=> Opening(v) < i /\ i <= Told(k)
                 /\ v[i] = "done" => i = Told(k) + 1 /\ turn[k].said = Tokens
                 /\ v[i] = "exit0" => i = Len(v) /\ s = "saved"
                 /\ v[i] = "exit1" => i = Len(v) /\ s = "failed"
      <4>1. CASE i = Len(w) + 1
        <5>1. v[i] = e
          BY <3>3, <4>1
        <5>2. e = "done" => i = Told(k) + 1
          BY <3>1, <4>1
        <5> QED
          BY <3>3, <3>6, <4>1, <5>1, <5>2
      <4>2. CASE i # Len(w) + 1
        <5>1. i \in 1..Len(w) /\ v[i] = w[i] /\ i \in DOMAIN w
          BY <3>3, <4>2
        <5> QED
          BY <3>1, <3>3, <5>1
      <4> QED
        BY <4>1, <4>2
    <3>8. s \in {"answered", "saved"} /\ turn[k].got < turn[k].said => Has(v, "done")
      <4>1. CASE s = "answered"
        BY <3>3, <4>1 DEF Has
      <4>2. CASE s = "saved" /\ turn[k].got < turn[k].said
        <5>1. PICK i \in DOMAIN w : w[i] = "done"
          BY <3>1, <4>2 DEF Has
        <5>2. i \in DOMAIN v /\ v[i] = "done"
          BY <3>3, <5>1
        <5> QED
          BY <5>2 DEF Has
      <4> QED
        BY <4>1, <4>2
    <3>9. Told(k) <= Len(v)
      BY <3>1, <3>3, <3>5
    <3> QED
      BY <1>2, <2>1, <3>1, <3>3, <3>4, <3>5, <3>7, <3>8, <3>9 DEF WireFits
  <2>2. CASE turn[k].phase = "over"
    BY <2>2 DEF WireFits
  <2> QED
    BY <1>3, <2>1, <2>2
<1> QED
  BY <1>2, <1>4, <1>6, <1>7, Alike DEF TurnsFit

LEMMA ServerFits ==
  ASSUME Types, TurnsFit, NEW k \in Turn, Begin(k) \/ Dropped(k) \/ Token(k) \/ Finish(k) \/ Save(k) \/ Fail(k)
  PROVE  TurnsFit'
<1>1. CASE Finish(k)
  <2>1. /\ turn' = turn /\ "done" \in Events /\ Emit(k, <<"done">>) /\ run' = [run EXCEPT ![k] = "answered"]
        /\ run[k] = "running" /\ turn[k].said = Tokens
    BY <1>1 DEF Finish, Events
  <2> QED
    BY <2>1, RunFits
<1>2. CASE Save(k)
  <2>1. /\ turn' = turn /\ "exit0" \in Events /\ Emit(k, <<"exit0">>) /\ run' = [run EXCEPT ![k] = "saved"]
        /\ run[k] = "answered"
    BY <1>2 DEF Save, Events
  <2> QED
    BY <2>1, RunFits
<1>3. CASE Fail(k)
  <2>1. /\ turn' = turn /\ "exit1" \in Events /\ Emit(k, <<"exit1">>) /\ run' = [run EXCEPT ![k] = "failed"]
        /\ run[k] \in {"running", "answered"}
    BY <1>3 DEF Fail, Events
  <2> QED
    BY <2>1, RunFits
<1> QED
  BY <1>1, <1>2, <1>3, BeginFits, DroppedFits, TokenFits

\* The page takes an event.
LEMMA DeliverFits ==
  ASSUME Types, TurnsFit, NEW k \in Turn, Deliver(k)
  PROVE  TurnsFit'
<1> DEFINE w == wire[k]
           v == Tail(wire[k])
<1>1. /\ turn[k] \in Turns /\ turn \in [Turn -> Turns] /\ w \in Seq(Events) /\ wire \in [Turn -> Seq(Events)]
      /\ turn[k].phase = "open" /\ w # <<>> /\ wire' = [wire EXCEPT ![k] = Tail(@)] /\ run' = run
  BY DEF Deliver, Types, ServerTypes, server
<1>2. wire'[k] = v /\ \A j \in Turn \ {k} : wire'[j] = wire[j]
  BY <1>1
<1>3. /\ v \in Seq(Events) /\ Len(w) \in Nat /\ Len(w) > 0 /\ Len(v) = Len(w) - 1
      /\ DOMAIN w = 1..Len(w) /\ DOMAIN v = 1..Len(w) - 1
      /\ Head(w) = w[1] /\ 1 \in DOMAIN w
      /\ \A i \in 1..Len(w) - 1 : v[i] = w[i + 1]
  BY <1>1, Taken
<1>4. /\ turn[k].got <= turn[k].said /\ Told(k) <= Len(w)
      /\ \A i \in DOMAIN w :
           /\ w[i] = "info" => i = 1
           /\ w[i] = "text" <=> Opening(w) < i /\ i <= Told(k)
           /\ w[i] = "done" => i = Told(k) + 1 /\ turn[k].said = Tokens
           /\ w[i] = "exit0" => i = Len(w) /\ run[k] = "saved"
           /\ w[i] = "exit1" => i = Len(w) /\ run[k] \in {"refused", "failed"}
      /\ run[k] = "running" => Len(w) = Told(k)
      /\ run[k] \in {"answered", "saved"} /\ turn[k].got < turn[k].said => Has(w, "done")
  BY <1>1 DEF TurnsFit, WireFits
<1>5. turn[k].got \in Nat /\ turn[k].said \in Nat
  BY <1>1, ChatAssumption DEF Turns
<1>6. TurnFits(k) /\ turn[k].topic # None
  BY <1>1 DEF TurnsFit, TurnFits
<1> HIDE DEF w, v
<1>7. \A i \in DOMAIN v : i \in Nat /\ i >= 1 /\ i + 1 \in DOMAIN w /\ v[i] = w[i + 1] /\ v[i] # "info"
  BY <1>3, <1>4
<1>8. Opening(v) = 0
  <2>1. CASE v = <<>>
    BY <2>1 DEF Opening
  <2>2. CASE v # <<>>
    <3>1. Len(v) > 0 /\ Len(v) \in Nat
      BY <1>3, <2>2, EmptySeq
    <3>2. 1 \in DOMAIN v
      BY <1>3, <3>1
    <3> QED
      BY <1>7, <3>2 DEF Opening
  <2> QED
    BY <2>1, <2>2
<1>9. CASE turn' = turn /\ w[1] \in {"info", "done"}
  <2>1. Told(k) = Opening(w) + (turn[k].said - turn[k].got) /\ Told(k)' = turn[k].said - turn[k].got
    BY <1>2, <1>5, <1>8, <1>9 DEF Told, w
  <2>2. Opening(w) = IF w[1] = "info" THEN 1 ELSE 0
    BY <1>1, <1>9 DEF Opening, w
  <2>3. w[1] = "done" => Told(k) = 0 /\ turn[k].got = turn[k].said
    BY <1>3, <1>4, <1>5, <2>1, <2>2
  <2>4. w[1] = "info" => Told(k)' = Told(k) - 1
    BY <1>5, <2>1, <2>2
  <2>5. w[1] = "info" /\ Has(w, "done") => Has(v, "done")
    <3>1. SUFFICES ASSUME w[1] = "info", NEW i \in DOMAIN w, w[i] = "done" PROVE Has(v, "done")
      BY DEF Has
    <3>2. i # 1 /\ i \in 1..Len(w)
      BY <1>3, <3>1
    <3>3. i - 1 \in DOMAIN v /\ (i - 1) + 1 = i
      BY <1>3, <3>2
    <3> QED
      BY <1>7, <3>1, <3>3 DEF Has
  <2>6. ASSUME NEW i \in DOMAIN v
        PROVE  /\ v[i] = "text" <=> 0 < i /\ i <= Told(k)'
               /\ v[i] = "done" => i = Told(k)' + 1 /\ turn[k].said = Tokens
               /\ v[i] = "exit0" => i = Len(v) /\ run[k] = "saved"
               /\ v[i] = "exit1" => i = Len(v) /\ run[k] \in {"refused", "failed"}
    <3>1. i \in Nat /\ i >= 1 /\ i + 1 \in DOMAIN w /\ v[i] = w[i + 1]
      BY <1>7
    <3>5. /\ v[i] = "text" <=> Opening(w) < i + 1 /\ i + 1 <= Told(k)
          /\ v[i] = "done" => i + 1 = Told(k) + 1 /\ turn[k].said = Tokens
      BY <1>4, <3>1
    <3>6. Told(k)' \in Nat /\ (Told(k) = Told(k)' + 1 \/ (Told(k) = 0 /\ Told(k)' = 0))
      <4>1. turn[k].got <= turn[k].said
        BY <1>4
      <4>2. Told(k)' \in Nat
        BY <1>5, <2>1, <4>1
      <4>3. CASE w[1] = "info"
        BY <1>5, <2>1, <2>2, <4>2, <4>3
      <4>4. CASE w[1] = "done"
        BY <1>5, <2>1, <2>3, <4>2, <4>4
      <4> QED
        BY <1>9, <4>2, <4>3, <4>4
    <3>7. Opening(w) \in {0, 1}
      BY <2>2
    <3>2. v[i] = "text" <=> 0 < i /\ i <= Told(k)'
      BY <3>1, <3>5, <3>6, <3>7
    <3>3. v[i] = "done" => i = Told(k)' + 1 /\ turn[k].said = Tokens
      BY <3>1, <3>5, <3>6
    <3>4. i + 1 = Len(w) => i = Len(v)
      BY <1>3, <3>1
    <3> QED
      BY <1>4, <3>1, <3>2, <3>3, <3>4
  <2>7. Told(k)' <= Len(v) /\ (run[k] = "running" => Len(v) = Told(k)')
    <3>1. CASE w[1] = "info"
      BY <1>3, <1>4, <1>5, <2>1, <2>2, <2>4, <3>1
    <3>2. CASE w[1] = "done"
      <4>1. Told(k)' = 0 /\ run[k] # "running"
        BY <1>3, <1>4, <1>5, <2>1, <2>3, <3>2
      <4> QED
        BY <1>3, <4>1
    <3> QED
      BY <1>9, <3>1, <3>2
  <2>8. run[k] \in {"answered", "saved"} /\ turn[k].got < turn[k].said => Has(v, "done")
    BY <1>4, <1>5, <1>9, <2>3, <2>5
  <2>9. WireFits(k)'
    <3>1. /\ wire'[k] = v /\ run'[k] = run[k] /\ turn'[k] = turn[k] /\ turn[k].phase = "open"
          /\ Opening(v) = 0 /\ turn[k].got <= turn[k].said
      BY <1>1, <1>2, <1>4, <1>8, <1>9
    <3>2. \A i \in DOMAIN v : v[i] # "info"
      BY <1>7
    <3> HIDE DEF Told
    <3> QED
      BY <3>1, <3>2, <2>6, <2>7, <2>8 DEF WireFits
  <2>10. TurnFits(k)'
    BY <1>1, <1>6, <1>9 DEF TurnFits
  <2> QED
    BY <1>1, <1>2, <1>9, <2>9, <2>10, Alike DEF TurnsFit
<1>10. CASE w[1] = "text" /\ OnText(k)
  <2>1. /\ turn'[k].got = turn[k].got + 1 /\ turn'[k].said = turn[k].said /\ turn'[k].phase = "open"
        /\ turn'[k].topic = turn[k].topic /\ turn'[k].target = turn[k].target
        /\ turn'[k].unheard = turn[k].unheard /\ \A j \in Turn \ {k} : turn'[j] = turn[j]
    BY <1>1, <1>10 DEF OnText, Turns
  <2>2. Opening(w) = 0
    BY <1>10 DEF Opening
  <2>3. Told(k) = turn[k].said - turn[k].got /\ Told(k)' = turn[k].said - (turn[k].got + 1)
    BY <1>2, <1>5, <1>8, <2>1, <2>2 DEF Told, w
  <2>4. 1 <= Told(k) /\ turn[k].got + 1 <= turn[k].said /\ Told(k)' = Told(k) - 1
    BY <1>3, <1>4, <1>5, <1>10, <2>3
  <2>5. Has(w, "done") => Has(v, "done")
    <3>1. SUFFICES ASSUME NEW i \in DOMAIN w, w[i] = "done" PROVE Has(v, "done")
      BY DEF Has
    <3>2. i # 1 /\ i \in 1..Len(w)
      BY <1>3, <1>10, <3>1
    <3>3. i - 1 \in DOMAIN v /\ (i - 1) + 1 = i
      BY <1>3, <3>2
    <3> QED
      BY <1>7, <3>1, <3>3 DEF Has
  <2>6. ASSUME NEW i \in DOMAIN v
        PROVE  /\ v[i] = "text" <=> 0 < i /\ i <= Told(k)'
               /\ v[i] = "done" => i = Told(k)' + 1 /\ turn[k].said = Tokens
               /\ v[i] = "exit0" => i = Len(v) /\ run[k] = "saved"
               /\ v[i] = "exit1" => i = Len(v) /\ run[k] \in {"refused", "failed"}
    <3>1. i \in Nat /\ i >= 1 /\ i + 1 \in DOMAIN w /\ v[i] = w[i + 1]
      BY <1>7
    <3>5. /\ v[i] = "text" <=> Opening(w) < i + 1 /\ i + 1 <= Told(k)
          /\ v[i] = "done" => i + 1 = Told(k) + 1 /\ turn[k].said = Tokens
      BY <1>4, <3>1
    <3>6. Told(k)' \in Nat /\ Told(k) = Told(k)' + 1
      BY <1>5, <2>3, <2>4
    <3>2. v[i] = "text" <=> 0 < i /\ i <= Told(k)'
      BY <2>2, <3>1, <3>5, <3>6
    <3>3. v[i] = "done" => i = Told(k)' + 1 /\ turn[k].said = Tokens
      BY <3>1, <3>5, <3>6
    <3>4. i + 1 = Len(w) => i = Len(v)
      BY <1>3, <3>1
    <3> QED
      BY <1>4, <3>1, <3>2, <3>3, <3>4
  <2>7. Told(k)' <= Len(v) /\ (run[k] = "running" => Len(v) = Told(k)')
    BY <1>3, <1>4, <1>5, <2>3, <2>4, SMTT(30)
  <2>8. run[k] \in {"answered", "saved"} => Has(v, "done")
    BY <1>4, <2>4, <2>5, <1>5
  <2>9. WireFits(k)'
    <3>1. /\ wire'[k] = v /\ run'[k] = run[k] /\ turn'[k].phase = "open" /\ Opening(v) = 0
          /\ turn'[k].got <= turn'[k].said /\ turn'[k].said = turn[k].said
      BY <1>1, <1>2, <1>8, <2>1, <2>4
    <3>2. \A i \in DOMAIN v : v[i] # "info"
      BY <1>7
    <3> QED
      BY <3>1, <3>2, <2>6, <2>7, <2>8 DEF WireFits
  <2>10. TurnFits(k)'
    BY <1>1, <1>6, <2>1 DEF TurnFits
  <2> QED
    BY <1>1, <1>2, <2>1, <2>9, <2>10, Alike DEF TurnsFit
<1>11. CASE turn' = [turn EXCEPT ![k].phase = "over"] /\ w[1] \in {"exit0", "exit1"}
  <2>1. /\ turn'[k].phase = "over" /\ turn'[k].topic = turn[k].topic /\ turn'[k].target = turn[k].target
        /\ \A j \in Turn \ {k} : turn'[j] = turn[j]
    BY <1>1, <1>11 DEF Turns
  <2>2. run[k] \in {"refused", "saved", "failed"}
    BY <1>3, <1>4, <1>11
  <2>3. TurnFits(k)'
    BY <1>1, <1>6, <2>1, <2>2, ChatAssumption DEF TurnFits
  <2>4. WireFits(k)'
    BY <2>1 DEF WireFits
  <2> QED
    BY <1>1, <1>2, <2>1, <2>3, <2>4, Alike DEF TurnsFit
<1> QED
  BY <1>3, <1>9, <1>10, <1>11 DEF Deliver, OnInfo, OnDone, w

LEMMA SendFits ==
  ASSUME Types, TurnsFit, NEW k \in Turn, NEW files \in BOOLEAN, Send(k, files)
  PROVE  /\ TurnsFit'
         /\ turn'[k].phase = (IF ~files THEN "sent" ELSE IF current = None THEN "create" ELSE "upload")
         /\ turn'[k].target = current /\ turn'[k].topic = current /\ turn[k].phase = "new"
         /\ turn'[k].said = 0 /\ turn'[k].got = 0 /\ ~turn'[k].unheard
         /\ \A j \in Turn \ {k} : turn'[j] = turn[j]
<1> DEFINE phase == IF ~files THEN "sent" ELSE IF current = None THEN "create" ELSE "upload"
<1>1. /\ turn[k].phase = "new" /\ turn[k] \in Turns /\ turn \in [Turn -> Turns] /\ UNCHANGED <<run, wire>>
      /\ turn' = [turn EXCEPT ![k].phase = phase, ![k].target = current, ![k].topic = current]
  BY DEF Send, IsNext, Types, ServerTypes, server
<1>2. /\ phase \in {"sent", "create", "upload"} /\ (phase = "create" => current = None)
      /\ phase = "upload" => current # None
  OBVIOUS
<1> HIDE DEF phase
<1>3. /\ turn'[k].phase = phase /\ turn'[k].target = current /\ turn'[k].topic = current
      /\ turn'[k].said = turn[k].said /\ turn'[k].got = turn[k].got /\ turn'[k].unheard = turn[k].unheard
      /\ \A j \in Turn \ {k} : turn'[j] = turn[j] /\ run'[j] = run[j] /\ wire'[j] = wire[j]
  BY <1>1 DEF Turns
<1>4. TurnFits(k)' /\ WireFits(k)' /\ turn[k].said = 0 /\ turn[k].got = 0 /\ ~turn[k].unheard
  BY <1>1, <1>2, <1>3 DEF TurnsFit, TurnFits, WireFits
<1>5. TurnsFit'
  BY <1>3, <1>4, Alike DEF TurnsFit
<1> QED
  BY <1>1, <1>3, <1>4, <1>5 DEF phase

LEMMA UploadsFit ==
  ASSUME Types, TurnsFit, NEW k \in Turn, Created(k) \/ Uploaded(k) \/ UploadFails(k)
  PROVE  TurnsFit'
<1>1. /\ turn[k] \in Turns /\ turn \in [Turn -> Turns] /\ UNCHANGED <<run, wire>>
      /\ turn[k].phase \in {"create", "upload"}
  BY DEF Created, Uploaded, UploadFails, Types, ServerTypes, server
<1>2. /\ turn'[k].phase \in {"upload", "sent", "failed"}
      /\ turn'[k].phase = "upload" => turn[k].phase = "create" /\ turn'[k].topic # None
      /\ turn'[k].phase # "upload" => turn'[k].topic = turn[k].topic
      /\ turn'[k].target = turn[k].target /\ turn'[k].unheard = turn[k].unheard
      /\ turn'[k].said = turn[k].said /\ turn'[k].got = turn[k].got
      /\ \A j \in Turn \ {k} : turn'[j] = turn[j] /\ run'[j] = run[j] /\ wire'[j] = wire[j]
  <2>1. CASE Created(k)
    <3>1. turn' = [turn EXCEPT ![k].phase = "upload", ![k].topic = Fresh] /\ turn[k].phase = "create" /\ Fresh # None
      BY <2>1, FreshIs DEF Created
    <3> HIDE DEF Fresh
    <3> QED
      BY <1>1, <3>1 DEF Turns
  <2>2. CASE Uploaded(k)
    <3>1. turn' = [turn EXCEPT ![k].phase = "sent"]
      BY <2>2 DEF Uploaded
    <3> QED
      BY <1>1, <3>1 DEF Turns
  <2>3. CASE UploadFails(k)
    <3>1. turn' = [turn EXCEPT ![k].phase = "failed"]
      BY <2>3 DEF UploadFails
    <3> QED
      BY <1>1, <3>1 DEF Turns
  <2> QED
    BY <2>1, <2>2, <2>3
<1>3. TurnFits(k)' /\ WireFits(k)'
  BY <1>1, <1>2 DEF TurnsFit, TurnFits, WireFits
<1> QED
  BY <1>2, <1>3, Alike DEF TurnsFit

LEMMA CancelFits ==
  ASSUME Basis, Cancel
  PROVE  TurnsFit'
<1>1. CASE stream = None \/ stream.aborts = None
  <2>1. UNCHANGED <<turn, wire, run>>
    BY <1>1 DEF Cancel, server
  <2> QED
    BY <2>1, Alike DEF Basis, TurnsFit
<1>2. CASE ~(stream = None \/ stream.aborts = None)
  <2>1. PICK k \in Turn : stream.aborts = k
    BY <1>2 DEF Basis, Types, ScreenTypes
  <2>2. /\ turn' = [turn EXCEPT ![k].unheard = TRUE, ![k].phase = IF @ = "open" THEN "over" ELSE @]
        /\ wire' = [wire EXCEPT ![k] = <<>>] /\ run' = run
    BY <1>2, <2>1 DEF Cancel, server
  <2>3. turn \in [Turn -> Turns] /\ turn[k] \in Turns /\ wire \in [Turn -> Seq(Events)]
        /\ turn[k].phase \in {"sent", "open"}
    BY <1>2, <2>1 DEF Basis, StreamFits, Types, ServerTypes
  <2>4. /\ turn'[k].unheard /\ turn'[k].topic = turn[k].topic /\ turn'[k].target = turn[k].target
        /\ turn'[k].said = turn[k].said /\ turn'[k].got = turn[k].got
        /\ turn[k].phase = "open" => turn'[k].phase = "over"
        /\ turn[k].phase = "sent" => turn'[k].phase = "sent"
        /\ \A j \in Turn \ {k} : turn'[j] = turn[j] /\ run'[j] = run[j] /\ wire'[j] = wire[j]
        /\ wire'[k] = <<>> /\ run'[k] = run[k]
    BY <2>2, <2>3 DEF Turns
  <2>5. TurnFits(k)' /\ WireFits(k)'
    BY <2>3, <2>4 DEF Basis, TurnsFit, TurnFits, WireFits
  <2> QED
    BY <2>4, <2>5, Alike DEF Basis, TurnsFit
<1> QED
  BY <1>1, <1>2

LEMMA ElsewhereFits ==
  ASSUME Types, TurnsFit, NEW k \in Turn, NEW t \in Topic, Elsewhere(k, t)
  PROVE  TurnsFit'
<1>1. /\ turn'[k].phase = "over" /\ turn'[k].target = t /\ turn'[k].topic = t /\ turn'[k].unheard
      /\ run'[k] = "running" /\ wire' = wire
      /\ \A j \in Turn \ {k} : turn'[j] = turn[j] /\ run'[j] = run[j]
  BY ElsewhereIs
<1>2. TurnFits(k)' /\ WireFits(k)'
  BY <1>1, ChatAssumption DEF TurnFits, WireFits
<1> QED
  BY <1>1, <1>2, Alike DEF TurnsFit

LEMMA BreakFits ==
  ASSUME Types, TurnsFit, NEW k \in Turn, Break(k)
  PROVE  TurnsFit'
<1>1. /\ turn[k].phase \in {"sent", "open"} /\ run' = run
      /\ turn'[k].unheard /\ turn'[k].topic = turn[k].topic /\ turn'[k].target = turn[k].target
      /\ turn'[k].said = turn[k].said /\ turn'[k].got = turn[k].got
      /\ turn[k].phase = "open" => turn'[k].phase = "over"
      /\ turn[k].phase = "sent" => turn'[k].phase = "sent"
      /\ wire'[k] = <<>> /\ \A j \in Turn \ {k} : turn'[j] = turn[j] /\ wire'[j] = wire[j]
  BY BreakIs DEF server
<1>2. TurnFits(k)' /\ WireFits(k)'
  BY <1>1 DEF TurnsFit, TurnFits, WireFits
<1> QED
  BY <1>1, <1>2, Alike DEF TurnsFit

-----------------------------------------------------------------------------
(* The stream that is to be aborted.                                       *)

LEMMA StreamStays ==
  ASSUME StreamFits,
         stream' = None \/ (stream # None /\ stream' # None /\ stream'.aborts = stream.aborts),
         stream' # None /\ stream.aborts # None =>
           /\ turn'[stream.aborts].phase \in {"sent", "open"} /\ ~turn'[stream.aborts].unheard
           /\ run'[stream.aborts] \in {"answered", "saved"} => Has(wire'[stream.aborts], "done")
  PROVE  StreamFits'
BY DEF StreamFits

LEMMA ServerStream ==
  ASSUME Basis, NEW k \in Turn, Begin(k) \/ Dropped(k) \/ Token(k) \/ Finish(k) \/ Save(k) \/ Fail(k)
  PROVE  StreamFits'
<1>1. stream' = stream
  BY DEF Begin, Dropped, Token, Finish, Save, Fail, view
<1>2. SUFFICES ASSUME stream # None, stream.aborts # None
      PROVE  /\ turn'[stream.aborts].phase \in {"sent", "open"} /\ ~turn'[stream.aborts].unheard
             /\ run'[stream.aborts] \in {"answered", "saved"} => Has(wire'[stream.aborts], "done")
  BY <1>1 DEF StreamFits
<1>3. PICK a \in Turn : stream.aborts = a
  BY <1>2 DEF Basis, Types, ScreenTypes
<1>4. /\ turn[a].phase \in {"sent", "open"} /\ ~turn[a].unheard
      /\ run[a] \in {"answered", "saved"} => Has(wire[a], "done")
      /\ run[a] # None => turn[a].phase = "open"
      /\ turn \in [Turn -> Turns] /\ turn[a] \in Turns /\ run \in [Turn -> Runs]
      /\ wire \in [Turn -> Seq(Events)]
  BY <1>2, <1>3 DEF Basis, StreamFits, TurnsFit, TurnFits, Types, ServerTypes
<1>5. CASE a # k
  BY <1>3, <1>4, <1>5 DEF Begin, Dropped, Token, Finish, Save, Fail, Emit, server
<1>6. CASE a = k /\ Begin(k)
  <2>1. turn'[a].phase = "open" /\ ~turn'[a].unheard /\ run'[a] \in {"refused", "running"}
    <3>1. turn' = [turn EXCEPT ![k].phase = "open"] \/ turn' = [turn EXCEPT ![k].phase = "open", ![k].topic = Fresh]
      BY <1>4, <1>6 DEF Begin
    <3> HIDE DEF Fresh
    <3>2. run' = [run EXCEPT ![k] = "refused"] \/ run' = [run EXCEPT ![k] = "running"]
      BY <1>6 DEF Begin
    <3>3. run'[k] \in {"refused", "running"}
      BY <1>4, <3>2
    <3>4. CASE turn' = [turn EXCEPT ![k].phase = "open"]
      BY <1>4, <1>6, <3>3, <3>4 DEF Turns
    <3>5. CASE turn' = [turn EXCEPT ![k].phase = "open", ![k].topic = Fresh]
      BY <1>4, <1>6, <3>3, <3>5 DEF Turns
    <3> QED
      BY <3>1, <3>4, <3>5
  <2> QED
    BY <1>3, <2>1
<1>7. CASE a = k /\ Dropped(k)
  BY <1>4, <1>7 DEF Dropped
<1>8. CASE a = k /\ Token(k)
  <2>1. turn' = [turn EXCEPT ![k].said = @ + 1] /\ run' = run /\ run[k] = "running"
    BY <1>8 DEF Token, server
  <2>2. turn'[a].phase = turn[a].phase /\ turn'[a].unheard = turn[a].unheard
    BY <1>4, <1>8, <2>1 DEF Turns
  <2> QED
    BY <1>3, <1>4, <1>8, <2>1, <2>2
<1>9. CASE a = k /\ (Finish(k) \/ Save(k) \/ Fail(k))
  <2>1. turn' = turn /\ turn[k].phase = "open"
    <3>1. turn' = turn /\ run[k] \in {"running", "answered"}
      BY <1>9 DEF Finish, Save, Fail
    <3> QED
      BY <1>4, <1>9, <3>1, ChatAssumption
  <2>2. CASE Finish(k)
    <3>1. wire'[k] = wire[k] \o <<"done">>
      BY <1>4, <2>1, <2>2, EventsGrow DEF Finish, Events
    <3>2. (wire[k] \o <<"done">>)[Len(wire[k]) + 1] = "done" /\ Len(wire[k]) + 1 \in DOMAIN (wire[k] \o <<"done">>)
      <4>1. wire[k] \in Seq(Events) /\ "done" \in Events
        BY <1>4 DEF Events
      <4>2. Len(wire[k]) \in Nat
        BY <4>1
      <4> QED
        BY <4>1, <4>2, Appended
    <3>3. Has(wire'[k], "done")
      BY <3>1, <3>2 DEF Has
    <3> QED
      BY <1>3, <1>4, <1>9, <2>1, <3>3
  <2>3. CASE Save(k)
    <3>1. wire'[k] = wire[k] \o <<"exit0">>
      BY <1>4, <2>1, <2>3, EventsGrow DEF Save, Events
    <3>2. PICK i \in DOMAIN wire[k] : wire[k][i] = "done"
      BY <1>4, <1>9, <2>3 DEF Save, Has
    <3>3. i \in DOMAIN (wire[k] \o <<"exit0">>) /\ (wire[k] \o <<"exit0">>)[i] = "done"
      <4>1. wire[k] \in Seq(Events) /\ "exit0" \in Events
        BY <1>4 DEF Events
      <4>2. Len(wire[k]) \in Nat /\ DOMAIN wire[k] = 1..Len(wire[k])
        BY <4>1
      <4> QED
        BY <3>2, <4>1, <4>2, Appended
    <3>4. Has(wire'[k], "done")
      BY <3>1, <3>3 DEF Has
    <3> QED
      BY <1>3, <1>4, <1>9, <2>1, <3>4
  <2>4. CASE Fail(k)
    <3>1. run'[k] = "failed"
      BY <1>4, <2>4 DEF Fail
    <3> QED
      BY <1>3, <1>4, <1>9, <2>1, <3>1
  <2> QED
    BY <1>9, <2>2, <2>3, <2>4
<1> QED
  BY <1>5, <1>6, <1>7, <1>8, <1>9

\* An event that is taken, other than the end of the answer, leaves that behind.
LEMMA DoneStays ==
  ASSUME NEW w \in Seq(Events), w # <<>>, w[1] # "done", Has(w, "done")
  PROVE  Has(Tail(w), "done")
<1>1. PICK i \in DOMAIN w : w[i] = "done"
  BY DEF Has
<1>2. /\ DOMAIN w = 1..Len(w) /\ DOMAIN Tail(w) = 1..Len(w) - 1 /\ Len(w) \in Nat
      /\ \A n \in 1..Len(w) - 1 : Tail(w)[n] = w[n + 1]
  BY Taken
<1>3. i - 1 \in 1..Len(w) - 1 /\ (i - 1) + 1 = i
  BY <1>1, <1>2
<1> QED
  BY <1>1, <1>2, <1>3 DEF Has

LEMMA DeliverStream ==
  ASSUME Basis, NEW k \in Turn, Deliver(k)
  PROVE  StreamFits'
<1>1. /\ wire[k] \in Seq(Events) /\ wire[k] # <<>> /\ turn[k].phase = "open" /\ run' = run
      /\ wire' = [wire EXCEPT ![k] = Tail(@)] /\ wire \in [Turn -> Seq(Events)]
      /\ turn \in [Turn -> Turns] /\ turn[k] \in Turns
  BY DEF Deliver, Basis, Types, ServerTypes, server
<1>2. CASE Head(wire[k]) \in {"done", "exit1"} /\ (OnDone(k) \/ OnError(k))
  BY <1>2 DEF OnDone, OnError, StreamFits
<1>3. CASE Head(wire[k]) = "info" /\ OnInfo(k)
  <2>1. turn' = turn /\ (stream' = None \/ (stream # None /\ stream' # None /\ stream'.aborts = stream.aborts))
    <3>1. /\ turn' = turn
          /\ stream = None \/ stream \in [topic : Topic \cup {None}, aborts : Turn \cup {None}]
          /\ stream' = IF stream = None THEN None ELSE [stream EXCEPT !.topic = turn[k].topic]
      BY <1>3 DEF OnInfo, Basis, Types, ScreenTypes
    <3>2. stream # None => [stream EXCEPT !.topic = turn[k].topic].aborts = stream.aborts
      BY <3>1
    <3> QED
      BY <1>3, <3>1, <3>2 DEF OnInfo
  <2>2. SUFFICES ASSUME stream # None, stream.aborts # None
        PROVE  run[stream.aborts] \in {"answered", "saved"} => Has(wire'[stream.aborts], "done")
    <3>1. stream # None /\ stream.aborts # None =>
            turn'[stream.aborts].phase \in {"sent", "open"} /\ ~turn'[stream.aborts].unheard
      BY <2>1 DEF Basis, StreamFits
    <3> QED
      BY <1>1, <2>1, <2>2, <3>1, StreamStays DEF Basis
  <2>3. PICK a \in Turn : stream.aborts = a
    BY <2>2 DEF Basis, Types, ScreenTypes
  <2>4. run[a] \in {"answered", "saved"} => Has(wire[a], "done")
    BY <2>2, <2>3 DEF Basis, StreamFits
  <2>5. CASE a # k
    BY <1>1, <2>3, <2>4, <2>5
  <2>6. CASE a = k
    <3>1. wire[k][1] # "done"
      BY <1>1, <1>3, Taken
    <3>2. wire'[k] = Tail(wire[k])
      BY <1>1
    <3> QED
      BY <1>1, <2>3, <2>4, <2>6, <3>1, <3>2, DoneStays
  <2> QED
    BY <2>5, <2>6
<1>4. CASE Head(wire[k]) = "text" /\ OnText(k)
  <2>1. turn' = [turn EXCEPT ![k].got = @ + 1] /\ stream' = stream
    BY <1>4 DEF OnText
  <2>2. \A a \in Turn : turn'[a].phase = turn[a].phase /\ turn'[a].unheard = turn[a].unheard
    BY <1>1, <2>1 DEF Turns
  <2>3. SUFFICES ASSUME stream # None, NEW a \in Turn, stream.aborts = a,
                        run[a] \in {"answered", "saved"}
        PROVE  Has(wire'[a], "done")
    <3>1. stream # None /\ stream.aborts # None => stream.aborts \in Turn
      BY DEF Basis, Types, ScreenTypes
    <3>2. stream # None /\ stream.aborts # None =>
            turn'[stream.aborts].phase \in {"sent", "open"} /\ ~turn'[stream.aborts].unheard
      BY <2>2, <3>1 DEF Basis, StreamFits
    <3>3. stream # None /\ stream.aborts # None /\ run'[stream.aborts] \in {"answered", "saved"}
             => Has(wire'[stream.aborts], "done")
      BY <1>1, <2>3, <3>1
    <3> QED
      BY <2>1, <3>2, <3>3 DEF StreamFits
  <2>4. Has(wire[a], "done")
    BY <2>3, ChatAssumption DEF Basis, StreamFits
  <2>5. CASE a # k
    BY <1>1, <2>4, <2>5
  <2>6. CASE a = k
    <3>1. wire[k][1] # "done"
      BY <1>1, <1>4, Taken
    <3>2. wire'[k] = Tail(wire[k])
      BY <1>1
    <3> QED
      BY <1>1, <2>4, <2>6, <3>1, <3>2, DoneStays
  <2> QED
    BY <2>5, <2>6
<1>5. CASE Head(wire[k]) = "exit0" /\ turn' = [turn EXCEPT ![k].phase = "over"] /\ stream' = stream
  <2>1. SUFFICES ASSUME stream # None, NEW a \in Turn, stream.aborts = a
        PROVE  /\ turn'[a].phase \in {"sent", "open"} /\ ~turn'[a].unheard
               /\ run[a] \in {"answered", "saved"} => Has(wire'[a], "done")
    <3>1. stream # None /\ stream.aborts # None => stream.aborts \in Turn
      BY DEF Basis, Types, ScreenTypes
    <3> QED
      BY <1>1, <1>5, <2>1, <3>1 DEF StreamFits
  <2>2. /\ turn[a].phase \in {"sent", "open"} /\ ~turn[a].unheard
        /\ run[a] \in {"answered", "saved"} => Has(wire[a], "done")
    BY <2>1, ChatAssumption DEF Basis, StreamFits
  <2>3. a # k
    <3>1. SUFFICES ASSUME a = k PROVE FALSE
      OBVIOUS
    <3>2. wire[k][1] = "exit0" /\ 1 \in DOMAIN wire[k] /\ DOMAIN wire[k] = 1..Len(wire[k]) /\ Len(wire[k]) \in Nat
      BY <1>1, <1>5, Taken
    <3>3. 1 = Len(wire[k]) /\ run[k] = "saved"
      BY <1>1, <3>2 DEF Basis, TurnsFit, WireFits
    <3>4. PICK i \in DOMAIN wire[k] : wire[k][i] = "done"
      BY <2>2, <3>1, <3>3 DEF Has
    <3>5. i = 1
      BY <3>2, <3>3, <3>4, SMTT(30)
    <3> QED
      BY <3>2, <3>4, <3>5
  <2> QED
    BY <1>1, <1>5, <2>2, <2>3
<1> QED
  BY <1>2, <1>3, <1>4, <1>5 DEF Deliver

LEMMA PageStream ==
  ASSUME Basis,
         \/ \E t \in topics \cup {None} : SelectTopic(t)
         \/ LoadMore \/ Cancel
         \/ \E k \in Turn, files \in BOOLEAN : Send(k, files)
         \/ \E t \in topics : RemoveTopic(t)
         \/ \E r \in requests : Answer(r) \/ Selected(r) \/ LoadedMore(r) \/ Removed(r)
         \/ \E k \in Turn : Created(k) \/ Uploaded(k) \/ UploadFails(k)
  PROVE  StreamFits'
<1>1. CASE UNCHANGED <<turn, run, wire, stream>>
  BY <1>1 DEF Basis, StreamFits, Has
<1>2. ASSUME NEW k \in Turn, NEW files \in BOOLEAN, Send(k, files)
      PROVE  StreamFits'
  <2>1. /\ stream' = [topic |-> current, aborts |-> IF files THEN None ELSE k] /\ run' = run
        /\ run[k] = None
    BY <1>2, SendFits DEF Send, server, Basis, TurnsFit, TurnFits
  <2>2. ~files => turn'[k].phase = "sent" /\ ~turn'[k].unheard
    BY <1>2, SendFits DEF Basis
  <2>3. stream'.aborts = IF files THEN None ELSE k
    BY <2>1
  <2> QED
    BY <2>1, <2>2, <2>3, ChatAssumption DEF StreamFits
<1>3. CASE Cancel
  BY <1>3 DEF Cancel, StreamFits
<1>4. ASSUME NEW k \in Turn, Created(k) \/ UploadFails(k)
      PROVE  StreamFits'
  <2>1. stream' = None \/ (stream # None /\ stream' # None /\ stream'.aborts = stream.aborts)
    <3>1. CASE stream' = stream
      BY <3>1, stream = None \/ stream # None
    <3>2. CASE stream' = IF stream = None THEN None ELSE [stream EXCEPT !.topic = Fresh]
      <4>1. stream = None \/ stream \in [topic : Topic \cup {None}, aborts : Turn \cup {None}]
        BY DEF Basis, Types, ScreenTypes
      <4>2. stream # None => [stream EXCEPT !.topic = Fresh].aborts = stream.aborts
        BY <4>1
      <4> QED
        BY <3>2, <4>2
    <3> QED
      BY <1>4, <3>1, <3>2 DEF Created, UploadFails
  <2>2. /\ UNCHANGED <<run, wire>> /\ \A a \in Turn \ {k} : turn'[a] = turn[a]
        /\ turn[k].phase \in {"create", "upload"}
    BY <1>4 DEF Created, UploadFails, server, Basis, Types, ServerTypes
  <2>3. stream # None /\ stream.aborts # None => stream.aborts \in Turn \ {k}
    BY <2>2 DEF Basis, StreamFits, Types, ScreenTypes
  <2> QED
    BY <2>1, <2>2, <2>3 DEF Basis, StreamFits
<1>5. ASSUME NEW k \in Turn, Uploaded(k)
      PROVE  StreamFits'
  <2>1. /\ turn \in [Turn -> Turns] /\ turn[k] \in Turns /\ turn[k].phase = "upload"
        /\ turn' = [turn EXCEPT ![k].phase = "sent"] /\ run' = run
        /\ stream' = None \/ stream'.aborts = k
    BY <1>5 DEF Uploaded, server, Basis, Types, ServerTypes, ScreenTypes
  <2>2. turn'[k].phase = "sent" /\ ~turn'[k].unheard /\ run[k] = None
    BY <2>1 DEF Turns, Basis, TurnsFit, TurnFits
  <2> QED
    BY <2>1, <2>2, ChatAssumption DEF StreamFits
<1> QED
  BY <1>1, <1>2, <1>3, <1>4, <1>5
     DEF SelectTopic, LoadMore, RemoveTopic, Answer, Selected, LoadedMore, Removed, server, view

LEMMA ElsewhereStream ==
  ASSUME Basis, NEW k \in Turn, NEW t \in Topic, Elsewhere(k, t)
  PROVE  StreamFits'
<1>1. /\ stream' = stream /\ wire' = wire /\ turn[k].phase = "new"
      /\ \A j \in Turn \ {k} : turn'[j] = turn[j] /\ run'[j] = run[j]
  BY ElsewhereIs DEF view, Basis
<1>2. stream # None /\ stream.aborts # None => stream.aborts \in Turn \ {k}
  BY <1>1 DEF Basis, StreamFits, Types, ScreenTypes
<1> QED
  BY <1>1, <1>2 DEF Basis, StreamFits

LEMMA BreakStream ==
  ASSUME Basis, NEW k \in Turn, Break(k)
  PROVE  StreamFits'
BY BreakIs DEF Basis, StreamFits

-----------------------------------------------------------------------------
(* Every state has its types.                                              *)

\* SetToSeq lists the elements of a set, each once.
LEMMA Listed ==
  ASSUME NEW S, IsFiniteSet(S)
  PROVE  /\ Cardinality(S) \in Nat
         /\ SetToSeq(S) \in [1..Cardinality(S) -> S] /\ SetToSeq(S) \in Seq(S)
         /\ Len(SetToSeq(S)) = Cardinality(S)
         /\ \A i, j \in 1..Cardinality(S) : SetToSeq(S)[i] = SetToSeq(S)[j] => i = j
<1>1. Cardinality(S) \in Nat /\ ExistsBijection(1..Cardinality(S), S)
  BY FS_CardinalityType
<1>2. \E f \in [1..Cardinality(S) -> S] : IsInjective(f)
  BY <1>1 DEF ExistsBijection, Bijection, Injection
<1>3. SetToSeq(S) \in [1..Cardinality(S) -> S] /\ IsInjective(SetToSeq(S))
  BY <1>2 DEF SetToSeq
<1>4. \A i, j \in 1..Cardinality(S) : SetToSeq(S)[i] = SetToSeq(S)[j] => i = j
  BY <1>3 DEF IsInjective
<1>5. SetToSeq(S) \in Seq(S) /\ Len(SetToSeq(S)) = Cardinality(S)
  BY <1>1, <1>3
<1> QED
  BY <1>1, <1>3, <1>4, <1>5

\* The rows that are there when the page is opened.
LEMMA FirstRows ==
  ASSUME Init
  PROVE  /\ log \in Seq(Rows)
         /\ \A i \in DOMAIN log : log[i].turn \in Past /\ log[i].topic \in Old
         /\ \A i, j \in DOMAIN log : log[i].turn = log[j].turn =>
              log[i].topic = log[j].topic /\ (log[i].role = log[j].role => i = j)
<1> DEFINE past == SetToSeq(Past)
           N == Cardinality(Past)
           half(i) == (i + 1) \div 2
<1>1. N \in Nat /\ past \in [1..N -> Past] /\ Len(past) = N /\ \A i, j \in 1..N : past[i] = past[j] => i = j
  BY Listed, ChatAssumption
<1>2. PICK place \in [Past -> Old] :
        log = [i \in 1..2 * Len(past) |->
                 LET k == past[(i + 1) \div 2]
                 IN  [topic |-> place[k], turn |-> k, role |-> Role[2 - (i % 2)]]]
  BY DEF Init
<1> HIDE DEF past, N
<1>3. log = [i \in 1..2 * N |->
               [topic |-> place[past[half(i)]], turn |-> past[half(i)], role |-> Role[2 - (i % 2)]]]
  BY <1>1, <1>2
<1>4. \A i \in 1..2 * N : half(i) \in 1..N /\ 2 - (i % 2) \in {1, 2} /\ i = 2 * half(i) - (i % 2)
  BY <1>1
<1>5. Role[1] = "user" /\ Role[2] = "assistant"
  BY DEF Role
<1> HIDE DEF half
<1>6. ASSUME NEW i \in 1..2 * N
      PROVE  /\ log[i] \in Rows /\ log[i].turn = past[half(i)] /\ log[i].turn \in Past /\ log[i].topic \in Old
             /\ log[i].topic = place[log[i].turn] /\ log[i].role = Role[2 - (i % 2)]
  <2>1. past[half(i)] \in Past
    BY <1>1, <1>4
  <2>2. place[past[half(i)]] \in Old /\ Old \subseteq Topic
    BY <2>1, ChatAssumption
  <2>3. Role[2 - (i % 2)] \in {"user", "assistant"}
    BY <1>4, <1>5
  <2> QED
    BY <1>3, <2>1, <2>2, <2>3 DEF Rows
<1>7. DOMAIN log = 1..2 * N /\ log \in [1..2 * N -> Rows]
  BY <1>3, <1>6
<1>8. log \in Seq(Rows)
  BY <1>1, <1>7
<1>9. ASSUME NEW i \in 1..2 * N, NEW j \in 1..2 * N, log[i].turn = log[j].turn
      PROVE  log[i].topic = log[j].topic /\ (log[i].role = log[j].role => i = j)
  <2>1. half(i) = half(j)
    BY <1>1, <1>4, <1>6, <1>9
  <2>2. log[i].role = log[j].role => 2 - (i % 2) = 2 - (j % 2)
    BY <1>4, <1>5, <1>6
  <2>3. (i % 2) \in Int /\ (j % 2) \in Int /\ i \in Int /\ j \in Int /\ half(i) \in Int
    BY <1>1, <1>4
  <2>4. i = 2 * half(i) - (i % 2) /\ j = 2 * half(j) - (j % 2)
    BY <1>4
  <2>5. log[i].role = log[j].role => i = j
    BY <2>1, <2>2, <2>3, <2>4
  <2> QED
    BY <1>6, <1>9, <2>5
<1> QED
  BY <1>6, <1>7, <1>8, <1>9

LEMMA InitBasis ==
  ASSUME Init
  PROVE  Basis
<1>1. log \in Seq(Rows)
  BY FirstRows
<1>2. ServerTypes
  <2>1. topics \subseteq Topic
    BY ChatAssumption DEF Init
  <2>2. run \in [Turn -> Runs]
    BY DEF Init, Runs
  <2>3. turn \in [Turn -> Turns]
    BY ChatAssumption DEF Init, Turns, Phases
  <2>4. wire \in [Turn -> Seq(Events)]
    BY DEF Init
  <2> QED
    BY <1>1, <2>1, <2>2, <2>3, <2>4 DEF ServerTypes
<1>3. ScreenTypes /\ LoadTypes
  <2>1. <<>> \in Seq(Message)
    OBVIOUS
  <2> QED
    BY <2>1 DEF Init, ScreenTypes, LoadTypes
<1>4. ASSUME NEW k \in Turn PROVE TurnFits(k) /\ WireFits(k)
  BY DEF Init, TurnFits, WireFits
<1>5. StreamFits
  BY DEF Init, StreamFits
<1> QED
  BY <1>2, <1>3, <1>4, <1>5 DEF Basis, Types, TurnsFit

LEMMA NextBasis ==
  ASSUME Basis, [Next]_vars
  PROVE  Basis'
<1> USE DEF Basis
<1>1. ASSUME NEW k \in Turn, Begin(k) \/ Dropped(k) \/ Token(k) \/ Finish(k) \/ Save(k) \/ Fail(k)
      PROVE  Basis'
  BY <1>1, BeginTypes, DroppedTypes, TokenTypes, FinishTypes, SaveTypes, FailTypes, ServerFits, ServerStream
<1>2. ASSUME NEW r \in requests, Answer(r) \/ Selected(r) \/ LoadedMore(r) \/ Removed(r)
      PROVE  Basis'
  <2>1. UNCHANGED <<turn, run, wire>>
    BY <1>2 DEF Answer, Selected, LoadedMore, Removed, server
  <2>2. TurnsFit'
    BY <2>1, Alike DEF TurnsFit
  <2> QED
    BY <1>2, <2>2, AnswerTypes, SelectedTypes, LoadedMoreTypes, RemovedTypes, PageStream
<1>3. ASSUME NEW k \in Turn, Created(k) \/ Uploaded(k) \/ UploadFails(k)
      PROVE  Basis'
  BY <1>3, CreatedTypes, UploadedTypes, UploadFailsTypes, UploadsFit, PageStream
<1>4. ASSUME NEW t \in topics \cup {None}, SelectTopic(t)
      PROVE  Basis'
  <2>1. UNCHANGED <<turn, run, wire>>
    BY <1>4 DEF SelectTopic, server
  <2>2. TurnsFit'
    BY <2>1, Alike DEF TurnsFit
  <2> QED
    BY <1>4, <2>2, SelectTypes, PageStream
<1>5. CASE LoadMore
  <2>1. UNCHANGED <<turn, run, wire>>
    BY <1>5 DEF LoadMore, server
  <2>2. TurnsFit'
    BY <2>1, Alike DEF TurnsFit
  <2> QED
    BY <1>5, <2>2, LoadMoreTypes, PageStream
<1>6. ASSUME NEW k \in Turn, NEW files \in BOOLEAN, Send(k, files)
      PROVE  Basis'
  BY <1>6, SendTypes, SendFits, PageStream
<1>7. CASE Cancel
  BY <1>7, CancelTypes, CancelFits, PageStream
<1>8. ASSUME NEW t \in topics, RemoveTopic(t)
      PROVE  Basis'
  <2>1. UNCHANGED <<turn, run, wire>>
    BY <1>8 DEF RemoveTopic, server
  <2>2. TurnsFit'
    BY <2>1, Alike DEF TurnsFit
  <2> QED
    BY <1>8, <2>2, RemoveTypes, PageStream
<1>9. ASSUME NEW k \in Turn, Deliver(k)
      PROVE  Basis'
  BY <1>9, DeliverTypes, DeliverFits, DeliverStream
<1>10. CASE UNCHANGED vars
  <2>1. Types' /\ StreamFits'
    BY <1>10 DEF vars, server, view, Types, ServerTypes, ScreenTypes, LoadTypes, Requests, Replied, StreamFits, Has
  <2>2. TurnsFit'
    BY <1>10, Alike DEF TurnsFit, vars, server
  <2> QED
    BY <2>1, <2>2
<1>11. ASSUME NEW k \in Turn, NEW t \in Topic, Elsewhere(k, t)
       PROVE  Basis'
  BY <1>11, ElsewhereTypes, ElsewhereFits, ElsewhereStream
<1>12. ASSUME NEW k \in Turn, Break(k)
       PROVE  Basis'
  BY <1>12, BreakTypes, BreakFits, BreakStream
<1> QED
  BY <1>1, <1>2, <1>3, <1>4, <1>5, <1>6, <1>7, <1>8, <1>9, <1>10, <1>11, <1>12
     DEF Next, Server, Replies, Uploads, User, Outside

LEMMA BasisTypes ==
  ASSUME Basis
  PROVE  TypeOK
<1>1. /\ topics \subseteq Topic /\ run \in [Turn -> Runs] /\ turn \in [Turn -> Turns]
      /\ current \in Topic \cup {None}
      /\ stream = None \/ stream \in [topic : Topic \cup {None}, aborts : Turn \cup {None}]
      /\ {isStreaming, hasMore, isLoadingMore} \subseteq BOOLEAN
      /\ cursor \in (DOMAIN log) \cup {None}
  BY DEF Basis, Types, ServerTypes, ScreenTypes, LoadTypes
<1>2. \A i \in DOMAIN log : log[i] \in Rows
  BY DEF Basis, Types, ServerTypes
<1>3. \A r \in requests : r.kind \in {"select", "more", "delete"} /\ r.topic \in Topic
  BY DEF Basis, Types, LoadTypes, Requests
<1>4. \A i \in DOMAIN screen : screen[i] \in Message
  BY DEF Basis, Types, ScreenTypes
<1>5. \A t \in Topic : cache[t] = None \/ \A i \in DOMAIN cache[t] : cache[t][i] \in Message
  <2>1. \A t \in Topic : cache[t] = None \/ cache[t] \in Seq(Message)
    BY DEF Basis, Types, ScreenTypes
  <2> QED
    BY <2>1
<1> QED
  BY <1>1, <1>2, <1>3, <1>4, <1>5 DEF TypeOK, Rows, Runs, Turns, Phases

\* Every variable of useChat and of the server keeps its type, whoever acts when:
\* the page never counts more tokens of an answer than the server has said, a
\* cursor is the id of a row, a topic that is current was made by the server.
THEOREM TypeOKHolds == Spec => []TypeOK
<1>1. Init => Basis
  BY InitBasis
<1>2. Basis /\ [Next]_vars => Basis'
  BY NextBasis
<1>3. Basis => TypeOK
  BY BasisTypes
<1> QED
  BY <1>1, <1>2, <1>3, PTL DEF Spec

-----------------------------------------------------------------------------
(* A user who waits.  With Switching FALSE and one request at a time the     *)
(* user acts on topics, and sends, only when nothing is under way; messages *)
(* are still loaded and streams cancelled at any time, streams break, runs  *)
(* that the page does not hear to their end go on and are saved behind its  *)
(* back, and so are those that others start in any topic.                   *)
(*                                                                         *)
(* What follows says of messages s that they may stand on the screen of a   *)
(* topic t, when the rows are l and the turns x; the older ones are known   *)
(* up to the row from, if there are more.                                   *)

Busy(x, k) == x[k].phase \in {"create", "upload", "sent", "open"}
Over(x, k) == x[k].phase \in {"over", "failed", "dropped"}

RowOf(l, i, e)   == l[i].turn = e.turn /\ l[i].role = e.role
IsShown(l, i, s) == \E n \in DOMAIN s : RowOf(l, i, s[n])

\* Rows of t that the page has to show: not those of runs it does not hear.
Visible(l, x, t) ==
  {i \in DOMAIN l : l[i].topic = t /\ (l[i].turn \in Turn => ~x[l[i].turn].unheard)}

Lost(x, k) == k \in Turn /\ x[k].target = None /\ (x[k].unheard \/ x[k].phase = "failed")

HomeAt(l, x, t, k) ==
  \/ k = None
  \/ Lost(x, k)
  \/ k \in Turn /\ x[k].topic = t
  \/ \E i \in DOMAIN l : l[i].turn = k /\ l[i].topic = t

Homes(l, x, t, s) == \A n \in DOMAIN s : HomeAt(l, x, t, s[n].turn)

Distinct(s) ==
  \A m, n \in DOMAIN s :
    m < n /\ s[m].turn = s[n].turn /\ s[m].role = s[n].role => s[m].turn = None

Ordered(l, x, t, s) ==
  \A m, n \in DOMAIN s : m < n =>
    \A i, j \in Visible(l, x, t) : RowOf(l, i, s[m]) /\ RowOf(l, j, s[n]) => i < j

Suffix(l, x, t, s) ==
  \A i, j \in Visible(l, x, t) : i < j /\ IsShown(l, i, s) => IsShown(l, j, s)

Latest(l, x, t, s) ==
  \A i \in Visible(l, x, t) : (\A j \in DOMAIN l : i < j => l[j].topic # t) => IsShown(l, i, s)

Since(l, x, t, s, more, from) ==
  more =>
    /\ from \in DOMAIN l
    /\ \A i \in DOMAIN l : IsShown(l, i, s) => from <= i
    /\ \A i \in Visible(l, x, t) : from <= i => IsShown(l, i, s)

Good(l, x, t, s, more, from) ==
  /\ Homes(l, x, t, s) /\ Distinct(s) /\ Ordered(l, x, t, s)
  /\ Suffix(l, x, t, s) /\ Latest(l, x, t, s) /\ Since(l, x, t, s, more, from)

\* Answers that were heard to their end and saved are shown in full.
Finished(x, u, s) ==
  \A n \in DOMAIN s : LET k == s[n].turn IN
    k \in Turn /\ s[n].role = "assistant" /\ Over(x, k) /\ u[k] = "saved" /\ ~x[k].unheard =>
      s[n].status = "done" /\ s[n].text = Tokens

Known(x, s)   == \A n \in DOMAIN s : s[n].turn \in Turn => x[s[n].turn].phase # "new"
Settled(x, s) == \A n \in DOMAIN s : s[n].turn \in Turn => Over(x, s[n].turn)

\* Messages that wait in the cache or in an answer.
Calm(l, x, u, t, s, more, from) ==
  Good(l, x, t, s, more, from) /\ Settled(x, s) /\ Finished(x, u, s)

Rest       == \A k \in Turn : ~Busy(turn, k)
Loading    == \E r \in requests : r.kind = "select"
Used(x, t) == t \in Old \/ \E k \in Turn : x[k].topic = t

LogFits ==
  /\ \A i \in DOMAIN log :
       /\ log[i].turn \in Past => log[i].topic \in Old
       /\ log[i].turn \in Turn => log[i].topic = turn[log[i].turn].topic /\ run[log[i].turn] = "saved"
  /\ \A i, j \in DOMAIN log : log[i].turn = log[j].turn =>
       log[i].topic = log[j].topic /\ (log[i].role = log[j].role => i = j)
  /\ \A k \in Turn : run[k] = "saved" =>
       \E i \in DOMAIN log : /\ i + 1 \in DOMAIN log
                             /\ log[i].turn = k /\ log[i + 1].turn = k /\ log[i + 1].role = "assistant"
                             /\ log[i].role = "user"

OneAtATime ==
  /\ \A r, q \in requests : r = q
  /\ \A j, k \in Turn : Busy(turn, j) /\ Busy(turn, k) => j = k
  /\ \A r \in requests : r.kind \in {"select", "delete"} => Rest

RequestFits(r) ==
  /\ r.kind = "select" =>
       /\ r.topic = current /\ r.before = None
       /\ r.reply = None => r.topic \in topics
       /\ r.reply # None =>
            /\ r.reply # Error
            /\ Calm(log, turn, run, r.topic, r.reply.messages, r.reply.has_more, r.reply.cursor)
  /\ r.kind = "more" =>
       /\ r.topic = current /\ r.before = cursor /\ cursor # None /\ hasMore
       /\ r.reply \notin {None, Error} => r.reply = Page(r.topic, r.before)
  /\ r.kind = "delete" => r.was = current

\* The message that was sent last and its answer are the last on the screen.
AtEnd(k, s) ==
  /\ Len(s) >= 2
  /\ s[Len(s) - 1].turn = k /\ s[Len(s) - 1].role = "user"
  /\ s[Len(s)].turn = k /\ s[Len(s)].role = "assistant" /\ s[Len(s)].live

Heard(k) == run[k] \in {"answered", "saved"} /\ ~Has(wire[k], "done")

\* The page does not know the topic that was made for a message; no other
\* message on the screen is one of that topic.
Naming(k) ==
  /\ current = None /\ turn[k].target = None /\ turn[k].phase = "open"
  /\ wire[k] # <<>> /\ wire[k][1] = "info"
  /\ turn[k].topic \notin Old /\ cache[turn[k].topic] = None
  /\ \A n \in DOMAIN screen :
       screen[n].turn \in Turn \ {k} => turn[screen[n].turn].topic # turn[k].topic

TurnShown(k) ==
  /\ Good(log, turn, turn[k].topic, screen, hasMore, cursor)
  /\ AtEnd(k, screen)
  /\ Heard(k) => screen[Len(screen)].status = "done" /\ screen[Len(screen)].text = Tokens
  /\ turn[k].topic # current => Naming(k)

ScreenFits ==
  /\ Known(turn, screen)
  /\ ~Loading => Finished(turn, run, screen)
  /\ ~Loading /\ Rest => Good(log, turn, current, screen, hasMore, cursor)
  /\ \A k \in Turn : Busy(turn, k) => TurnShown(k)

CacheFits ==
  \A t \in Topic : cache[t] # None =>
    Used(turn, t) /\ (t # current => Calm(log, turn, run, t, cache[t], FALSE, None))

UsedFits == (\A t \in topics : Used(turn, t)) /\ (current # None => Used(turn, current))

Waits ==
  LogFits /\ OneAtATime /\ (\A r \in requests : RequestFits(r)) /\ ScreenFits /\ CacheFits /\ UsedFits

\* Rows are added to l at its end.
Grows(l, l2) ==
  /\ l \in Seq(Rows) /\ l2 \in Seq(Rows)
  /\ Len(l) <= Len(l2) /\ \A i \in 1..Len(l) : l2[i] = l[i]

\* The same messages, whatever their text and status.
SameTurns(s, s2) ==
  DOMAIN s2 = DOMAIN s /\ \A n \in DOMAIN s : s2[n].turn = s[n].turn /\ s2[n].role = s[n].role

LEMMA GrowsBy ==
  ASSUME NEW l, NEW l2, Grows(l, l2)
  PROVE  /\ Len(l) \in Nat /\ DOMAIN l = 1..Len(l) /\ DOMAIN l2 = 1..Len(l2)
         /\ \A i \in DOMAIN l : i \in DOMAIN l2 /\ l2[i] = l[i] /\ i \in Nat
         /\ \A i \in DOMAIN l2 : i \in Nat /\ (i \notin DOMAIN l => Len(l) < i)
         /\ \A i \in DOMAIN l2, j \in DOMAIN l : i \notin DOMAIN l => j < i
<1>1. Len(l) \in Nat /\ DOMAIN l = 1..Len(l) /\ Len(l2) \in Nat /\ DOMAIN l2 = 1..Len(l2)
  BY DEF Grows
<1>2. \A i \in DOMAIN l : i \in DOMAIN l2 /\ l2[i] = l[i] /\ i \in Nat
  BY <1>1 DEF Grows
<1>3. \A i \in DOMAIN l2 : i \in Nat /\ (i \notin DOMAIN l => Len(l) < i)
  BY <1>1
<1>4. \A i \in DOMAIN l2, j \in DOMAIN l : i \notin DOMAIN l => j < i
  BY <1>1, <1>3
<1> QED
  BY <1>1, <1>2, <1>3, <1>4

\* Messages stay good when nothing is added that the page has to show: rows of
\* the topic are hidden or those of another topic, and every message is still
\* at home.
LEMMA GoodStays ==
  ASSUME NEW l, NEW l2, NEW x, NEW x2, NEW t, NEW t2, NEW s, NEW s2, NEW more, NEW more2, NEW from,
         Grows(l, l2), SameTurns(s, s2), more2 => more,
         Good(l, x, t, s, more, from),
         \A n \in DOMAIN s : HomeAt(l, x, t, s[n].turn) => HomeAt(l2, x2, t2, s[n].turn),
         \A i \in Visible(l2, x2, t2) : i \in Visible(l, x, t),
         t2 = t \/ Visible(l2, x2, t2) = {}
  PROVE  Good(l2, x2, t2, s2, more2, from)
<1>1. /\ \A i \in DOMAIN l : i \in DOMAIN l2 /\ l2[i] = l[i] /\ i \in Nat
      /\ \A i \in DOMAIN l2, j \in DOMAIN l : i \notin DOMAIN l => j < i
      /\ \A i \in DOMAIN l2 : i \in Nat
  BY GrowsBy
<1>2. \A i \in DOMAIN l, n \in DOMAIN s : RowOf(l2, i, s2[n]) <=> RowOf(l, i, s[n])
  BY <1>1 DEF RowOf, SameTurns
<1>3. \A i \in DOMAIN l : IsShown(l2, i, s2) <=> IsShown(l, i, s)
  BY <1>2 DEF IsShown, SameTurns
<1>4. \A i \in Visible(l2, x2, t2) : i \in Visible(l, x, t) /\ i \in DOMAIN l
  BY DEF Visible
<1>5. Homes(l2, x2, t2, s2)
  BY DEF Good, Homes, SameTurns
<1>6. Distinct(s2)
  BY DEF Good, Distinct, SameTurns
<1>7. Ordered(l2, x2, t2, s2)
  <2>1. SUFFICES ASSUME NEW m \in DOMAIN s, NEW n \in DOMAIN s, m < n,
                        NEW i \in Visible(l2, x2, t2), NEW j \in Visible(l2, x2, t2),
                        RowOf(l2, i, s2[m]), RowOf(l2, j, s2[n])
                 PROVE  i < j
    BY DEF Ordered, SameTurns
  <2>2. RowOf(l, i, s[m]) /\ RowOf(l, j, s[n])
    BY <1>2, <1>4, <2>1
  <2> QED
    BY <1>4, <2>1, <2>2 DEF Good, Ordered
<1>8. Suffix(l2, x2, t2, s2)
  BY <1>3, <1>4 DEF Good, Suffix
<1>9. Latest(l2, x2, t2, s2)
  <2>1. CASE t2 = t
    <3>1. SUFFICES ASSUME NEW i \in Visible(l2, x2, t2), \A j \in DOMAIN l2 : i < j => l2[j].topic # t
                   PROVE  IsShown(l2, i, s2)
      BY <2>1 DEF Latest
    <3>2. \A j \in DOMAIN l : i < j => l[j].topic # t
      BY <1>1, <3>1
    <3>3. IsShown(l, i, s)
      BY <1>4, <3>1, <3>2 DEF Good, Latest
    <3> QED
      BY <1>3, <1>4, <3>3
  <2>2. CASE Visible(l2, x2, t2) = {}
    BY <2>2 DEF Latest
  <2> QED
    BY <2>1, <2>2
<1>10. Since(l2, x2, t2, s2, more2, from)
  <2>1. SUFFICES ASSUME more2
                 PROVE  /\ from \in DOMAIN l2
                        /\ \A i \in DOMAIN l2 : IsShown(l2, i, s2) => from <= i
                        /\ \A i \in Visible(l2, x2, t2) : from <= i => IsShown(l2, i, s2)
    BY DEF Since
  <2>2. /\ from \in DOMAIN l
        /\ \A i \in DOMAIN l : IsShown(l, i, s) => from <= i
        /\ \A i \in Visible(l, x, t) : from <= i => IsShown(l, i, s)
    BY <2>1 DEF Good, Since
  <2>3. ASSUME NEW i \in DOMAIN l2, IsShown(l2, i, s2) PROVE from <= i
    <3>1. CASE i \in DOMAIN l
      BY <1>3, <2>2, <2>3, <3>1
    <3>2. CASE i \notin DOMAIN l
      <4>1. from < i /\ from \in Nat /\ i \in Nat
        BY <1>1, <2>2, <3>2
      <4> QED
        BY <4>1
    <3> QED
      BY <3>1, <3>2
  <2> QED
    BY <1>1, <1>3, <1>4, <2>2, <2>3
<1> QED
  BY <1>5, <1>6, <1>7, <1>8, <1>9, <1>10 DEF Good

\* A message that has no row yet is added at the end.
LEMMA GoodAppends ==
  ASSUME NEW l, NEW x, NEW t, NEW s \in Seq(Message), NEW e, NEW more, NEW from,
         Good(l, x, t, s, more, from), HomeAt(l, x, t, e.turn),
         \A i \in DOMAIN l : ~RowOf(l, i, e),
         e.turn # None => \A n \in DOMAIN s : s[n].turn # e.turn \/ s[n].role # e.role
  PROVE  Good(l, x, t, s \o <<e>>, more, from)
<1> DEFINE s2 == s \o <<e>>
<1>1. /\ Len(s) \in Nat /\ DOMAIN s = 1..Len(s) /\ DOMAIN s2 = 1..Len(s) + 1
      /\ \A n \in 1..Len(s) : s2[n] = s[n]
      /\ s2[Len(s) + 1] = e
  OBVIOUS
<1> HIDE DEF s2
<1>2. \A n \in DOMAIN s2 : n \in DOMAIN s \/ n = Len(s) + 1
  BY <1>1
<1>3. \A i \in DOMAIN l : IsShown(l, i, s2) <=> IsShown(l, i, s)
  <2>1. ASSUME NEW i \in DOMAIN l, NEW n \in DOMAIN s2, RowOf(l, i, s2[n])
        PROVE  n \in DOMAIN s /\ RowOf(l, i, s[n])
    BY <1>1, <1>2, <2>1
  <2>2. \A n \in DOMAIN s : n \in DOMAIN s2 /\ s2[n] = s[n]
    BY <1>1
  <2> QED
    BY <2>1, <2>2 DEF IsShown
<1>4. \A i \in Visible(l, x, t) : i \in DOMAIN l
  BY DEF Visible
<1>5. Homes(l, x, t, s2)
  BY <1>1, <1>2 DEF Good, Homes
<1>6. Distinct(s2)
  <2>1. SUFFICES ASSUME NEW m \in DOMAIN s2, NEW n \in DOMAIN s2, m < n,
                        s2[m].turn = s2[n].turn, s2[m].role = s2[n].role
                 PROVE  s2[m].turn = None
    BY DEF Distinct
  <2>2. m \in DOMAIN s
    BY <1>1, <2>1
  <2>3. CASE n \in DOMAIN s
    BY <1>1, <2>1, <2>2, <2>3 DEF Good, Distinct
  <2>4. CASE n = Len(s) + 1
    BY <1>1, <2>1, <2>2, <2>4
  <2> QED
    BY <1>2, <2>3, <2>4
<1>7. Ordered(l, x, t, s2)
  <2>1. SUFFICES ASSUME NEW m \in DOMAIN s2, NEW n \in DOMAIN s2, m < n,
                        NEW i \in Visible(l, x, t), NEW j \in Visible(l, x, t),
                        RowOf(l, i, s2[m]), RowOf(l, j, s2[n])
                 PROVE  i < j
    BY DEF Ordered
  <2>2. m \in DOMAIN s /\ n \in DOMAIN s
    BY <1>1, <1>2, <1>4, <2>1
  <2> QED
    BY <1>1, <2>1, <2>2 DEF Good, Ordered
<1>8. Suffix(l, x, t, s2)
  BY <1>3, <1>4 DEF Good, Suffix
<1>9. Latest(l, x, t, s2)
  BY <1>3, <1>4 DEF Good, Latest
<1>10. Since(l, x, t, s2, more, from)
  BY <1>3, <1>4 DEF Good, Since
<1> QED
  BY <1>5, <1>6, <1>7, <1>8, <1>9, <1>10 DEF Good, s2

\* The turn whose messages are the last ones of s is saved.
LEMMA GoodSaves ==
  ASSUME NEW l, NEW l2, NEW x, NEW t, NEW s \in Seq(Message), NEW more, NEW from, NEW k \in Turn,
         Grows(l, l2), Len(l2) = Len(l) + 2,
         l2[Len(l) + 1] = [topic |-> t, turn |-> k, role |-> "user"],
         l2[Len(l) + 2] = [topic |-> t, turn |-> k, role |-> "assistant"],
         Good(l, x, t, s, more, from), AtEnd(k, s),
         \A i \in DOMAIN l : l[i].turn # k
  PROVE  Good(l2, x, t, s, more, from)
<1> DEFINE L == Len(l)
           N == Len(s)
<1>1. /\ L \in Nat /\ DOMAIN l = 1..L /\ DOMAIN l2 = 1..L + 2 /\ k # None
      /\ \A i \in DOMAIN l : i \in DOMAIN l2 /\ l2[i] = l[i] /\ i \in Nat /\ i <= L
  BY GrowsBy, ChatAssumption
<1>2. N \in Nat /\ DOMAIN s = 1..N /\ N >= 2 /\ N \in DOMAIN s /\ N - 1 \in DOMAIN s
  BY DEF AtEnd
<1>3. /\ l2[L + 1].turn = k /\ l2[L + 1].role = "user" /\ l2[L + 1].topic = t
      /\ l2[L + 2].turn = k /\ l2[L + 2].role = "assistant" /\ l2[L + 2].topic = t
  OBVIOUS
<1>4. /\ s[N - 1].turn = k /\ s[N - 1].role = "user"
      /\ s[N].turn = k /\ s[N].role = "assistant"
  BY DEF AtEnd
<1> HIDE DEF L, N
<1>5. \A i \in DOMAIN l2 : i \in DOMAIN l \/ i = L + 1 \/ i = L + 2
  BY <1>1
<1>6. \A m \in DOMAIN s : s[m].turn = k => /\ s[m].role = "user" => m = N - 1
                                           /\ s[m].role = "assistant" => m = N
  <2>1. SUFFICES ASSUME NEW m \in DOMAIN s, s[m].turn = k
                 PROVE  /\ s[m].role = "user" => m = N - 1
                        /\ s[m].role = "assistant" => m = N
    OBVIOUS
  <2>2. \A a, b \in DOMAIN s : a < b => ~(s[a].turn = k /\ s[b].turn = k /\ s[a].role = s[b].role)
    BY <1>1 DEF Good, Distinct
  <2>3. s[m].role = "user" => ~(m < N - 1) /\ ~(N - 1 < m)
    BY <1>2, <1>4, <2>1, <2>2
  <2>4. s[m].role = "assistant" => ~(m < N) /\ ~(N < m)
    BY <1>2, <1>4, <2>1, <2>2
  <2> QED
    BY <1>2, <2>3, <2>4
<1>7. \A i \in DOMAIN l, n \in DOMAIN s : RowOf(l2, i, s[n]) <=> RowOf(l, i, s[n])
  BY <1>1 DEF RowOf
<1>8. \A n \in DOMAIN s : /\ RowOf(l2, L + 1, s[n]) => n = N - 1
                          /\ RowOf(l2, L + 2, s[n]) => n = N
  BY <1>3, <1>6 DEF RowOf
<1>9. IsShown(l2, L + 1, s) /\ IsShown(l2, L + 2, s)
  BY <1>2, <1>3, <1>4 DEF IsShown, RowOf
<1>10. \A i \in DOMAIN l : IsShown(l2, i, s) <=> IsShown(l, i, s)
  BY <1>7 DEF IsShown
<1>11. \A i \in Visible(l2, x, t) : i \in DOMAIN l2 /\ (i \in DOMAIN l => i \in Visible(l, x, t))
  BY <1>1 DEF Visible
<1>12. Homes(l2, x, t, s)
  <2>1. ASSUME NEW m \in DOMAIN s, HomeAt(l, x, t, s[m].turn) PROVE HomeAt(l2, x, t, s[m].turn)
    <3>1. (\E i \in DOMAIN l : l[i].turn = s[m].turn /\ l[i].topic = t)
             => (\E i \in DOMAIN l2 : l2[i].turn = s[m].turn /\ l2[i].topic = t)
      BY <1>1
    <3> QED
      BY <2>1, <3>1 DEF HomeAt
  <2> QED
    BY <2>1 DEF Good, Homes
<1>13. Distinct(s)
  BY DEF Good
<1>14. Ordered(l2, x, t, s)
  <2>1. SUFFICES ASSUME NEW m \in DOMAIN s, NEW n \in DOMAIN s, m < n,
                        NEW i \in Visible(l2, x, t), NEW j \in Visible(l2, x, t),
                        RowOf(l2, i, s[m]), RowOf(l2, j, s[n])
                 PROVE  i < j
    BY DEF Ordered
  <2>2. m \in Nat /\ n \in Nat /\ m <= N /\ n <= N
    BY <1>2
  <2>3. CASE i \in DOMAIN l /\ j \in DOMAIN l
    <3>1. RowOf(l, i, s[m]) /\ RowOf(l, j, s[n])
      BY <1>7, <2>1, <2>3
    <3> QED
      BY <1>11, <2>1, <2>3, <3>1 DEF Good, Ordered
  <2>4. CASE i \in DOMAIN l /\ j \in {L + 1, L + 2}
    BY <1>1, <2>4
  <2>5. CASE i = L + 1
    <3>1. m = N - 1 /\ n = N
      BY <1>2, <1>8, <2>1, <2>2, <2>5
    <3>2. j \notin DOMAIN l
      <4>1. l2[j].turn = k
        BY <1>4, <2>1, <3>1 DEF RowOf
      <4> QED
        BY <1>1, <4>1
    <3>3. j # L + 1
      BY <1>2, <1>8, <2>1, <3>1
    <3>4. j = L + 2
      BY <1>5, <1>11, <3>2, <3>3
    <3> QED
      BY <1>1, <2>5, <3>4
  <2>6. CASE i = L + 2
    <3>1. m = N
      BY <1>8, <2>1, <2>6
    <3> QED
      BY <1>2, <2>1, <2>2, <3>1
  <2> QED
    BY <1>5, <1>11, <2>3, <2>4, <2>5, <2>6
<1>15. Suffix(l2, x, t, s)
  <2>1. SUFFICES ASSUME NEW i \in Visible(l2, x, t), NEW j \in Visible(l2, x, t), i < j, IsShown(l2, i, s)
                 PROVE  IsShown(l2, j, s)
    BY DEF Suffix
  <2>2. CASE j \in DOMAIN l
    <3>1. i \in DOMAIN l
      BY <1>1, <1>5, <1>11, <2>1, <2>2
    <3> QED
      BY <1>10, <1>11, <2>1, <2>2, <3>1 DEF Good, Suffix
  <2>3. CASE j \notin DOMAIN l
    BY <1>5, <1>9, <1>11, <2>3
  <2> QED
    BY <2>2, <2>3
<1>16. Latest(l2, x, t, s)
  <2>1. SUFFICES ASSUME NEW i \in Visible(l2, x, t), \A j \in DOMAIN l2 : i < j => l2[j].topic # t
                 PROVE  IsShown(l2, i, s)
    BY DEF Latest
  <2>2. i \notin DOMAIN l
    BY <1>1, <1>3, <2>1
  <2> QED
    BY <1>5, <1>9, <1>11, <2>2
<1>17. Since(l2, x, t, s, more, from)
  <2>1. SUFFICES ASSUME more
                 PROVE  /\ from \in DOMAIN l2
                        /\ \A i \in DOMAIN l2 : IsShown(l2, i, s) => from <= i
                        /\ \A i \in Visible(l2, x, t) : from <= i => IsShown(l2, i, s)
    BY DEF Since
  <2>2. /\ from \in DOMAIN l
        /\ \A i \in DOMAIN l : IsShown(l, i, s) => from <= i
        /\ \A i \in Visible(l, x, t) : from <= i => IsShown(l, i, s)
    BY <2>1 DEF Good, Since
  <2>3. from <= L + 1 /\ from <= L + 2 /\ from \in DOMAIN l2
    BY <1>1, <2>2
  <2> QED
    BY <1>5, <1>9, <1>10, <1>11, <2>2, <2>3
<1> QED
  BY <1>12, <1>13, <1>14, <1>15, <1>16, <1>17 DEF Good

\* The messages of a page stand for the rows on it, one each, in their order.
LEMMA PageShows ==
  ASSUME Types, LogFits, NEW t \in Topic, NEW before, NEW reply, PageOf(t, before, reply)
  PROVE  /\ \A i \in DOMAIN log : IsShown(log, i, reply.messages) <=> i \in OnPage(t, before)
         /\ Homes(log, turn, t, reply.messages) /\ Distinct(reply.messages)
         /\ Ordered(log, turn, t, reply.messages)
<1> DEFINE P == OnPage(t, before)
           s == reply.messages
           at(n) == InOrder(P)[n]
<1>1. log \in Seq(Rows) /\ DOMAIN log = 1..Len(log) /\ Len(log) \in Nat
  BY DEF Types, ServerTypes
<1>2. \A i \in P : i \in DOMAIN log /\ log[i].topic = t
  BY DEF PageOf, Older
<1>3. \A i, j \in DOMAIN log : log[i].turn = log[j].turn /\ log[i].role = log[j].role => i = j
  BY DEF LogFits
<1>4. /\ \A n \in DOMAIN s : at(n) \in P /\ s[n] = Saved(at(n))
      /\ \A m, n \in DOMAIN s : m < n => at(m) < at(n)
      /\ \A i \in P : \E n \in DOMAIN s : at(n) = i
  BY DEF PageOf
<1> HIDE DEF at, P, s
<1>5. \A n \in DOMAIN s : /\ at(n) \in DOMAIN log /\ log[at(n)].topic = t
                          /\ s[n].turn = log[at(n)].turn /\ s[n].role = log[at(n)].role
  BY <1>2, <1>4 DEF Saved, Entry
<1>6. \A i \in DOMAIN log, n \in DOMAIN s : RowOf(log, i, s[n]) <=> i = at(n)
  BY <1>3, <1>5 DEF RowOf
<1>7. \A i \in DOMAIN log : IsShown(log, i, s) <=> i \in P
  BY <1>2, <1>4, <1>6 DEF IsShown
<1>8. Homes(log, turn, t, s)
  BY <1>5 DEF Homes, HomeAt
<1>9. Distinct(s)
  <2>1. SUFFICES ASSUME NEW m \in DOMAIN s, NEW n \in DOMAIN s, m < n,
                        s[m].turn = s[n].turn, s[m].role = s[n].role
                 PROVE  FALSE
    BY DEF Distinct
  <2>2. at(m) = at(n)
    BY <1>3, <1>5, <2>1
  <2>3. at(m) < at(n)
    BY <1>4, <2>1
  <2>4. at(m) \in Nat
    BY <1>1, <1>5
  <2> QED
    BY <2>2, <2>3, <2>4
<1>10. Ordered(log, turn, t, s)
  <2>1. \A i \in Visible(log, turn, t) : i \in DOMAIN log
    BY DEF Visible
  <2> QED
    BY <1>4, <1>6, <2>1 DEF Ordered
<1> QED
  BY <1>7, <1>8, <1>9, <1>10 DEF P, s

\* The first page of a topic.
LEMMA PageGood ==
  ASSUME Types, LogFits, NEW t \in Topic, NEW reply, PageOf(t, None, reply)
  PROVE  Good(log, turn, t, reply.messages, reply.has_more, reply.cursor)
<1> DEFINE P == OnPage(t, None)
           s == reply.messages
<1>1. /\ \A i \in DOMAIN log : IsShown(log, i, s) <=> i \in P
      /\ Homes(log, turn, t, s) /\ Distinct(s) /\ Ordered(log, turn, t, s)
  BY PageShows
<1>2. \A i \in DOMAIN log : log[i].topic = t <=> i \in Older(t, None)
  BY DEF Older
<1>3. \A i \in Visible(log, turn, t) : i \in DOMAIN log /\ i \in Older(t, None)
  BY <1>2 DEF Visible
<1>4. /\ \A i \in P : i \in Older(t, None) /\ i \in DOMAIN log
      /\ \A i \in P, j \in Older(t, None) : i < j => j \in P
      /\ \A i \in Older(t, None) : (\A j \in Older(t, None) : ~(i < j)) => i \in P
      /\ reply.has_more => reply.cursor \in P /\ \A i \in P : reply.cursor <= i
  BY DEF PageOf, Older
<1> HIDE DEF P, s
<1>5. Suffix(log, turn, t, s)
  BY <1>1, <1>3, <1>4 DEF Suffix
<1>6. Latest(log, turn, t, s)
  <2>1. SUFFICES ASSUME NEW i \in Visible(log, turn, t), \A j \in DOMAIN log : i < j => log[j].topic # t
                 PROVE  IsShown(log, i, s)
    BY DEF Latest
  <2>2. \A j \in Older(t, None) : ~(i < j)
    BY <2>1 DEF Older
  <2> QED
    BY <1>1, <1>3, <1>4, <2>2
<1>7. Since(log, turn, t, s, reply.has_more, reply.cursor)
  <2>1. SUFFICES ASSUME reply.has_more
                 PROVE  /\ reply.cursor \in DOMAIN log
                        /\ \A i \in DOMAIN log : IsShown(log, i, s) => reply.cursor <= i
                        /\ \A i \in Visible(log, turn, t) : reply.cursor <= i => IsShown(log, i, s)
    BY DEF Since
  <2>2. reply.cursor \in P /\ reply.cursor \in DOMAIN log
    BY <1>4, <2>1
  <2>3. ASSUME NEW i \in Visible(log, turn, t), reply.cursor <= i
        PROVE  IsShown(log, i, s)
    <3>1. i \in Nat /\ reply.cursor \in Nat
      <4>1. DOMAIN log = 1..Len(log) /\ Len(log) \in Nat
        BY DEF Types, ServerTypes
      <4> QED
        BY <1>3, <2>2, <4>1
    <3>2. CASE reply.cursor = i
      BY <1>1, <1>3, <2>2, <3>2
    <3>3. CASE reply.cursor < i
      BY <1>1, <1>3, <1>4, <2>2, <3>3
    <3> QED
      BY <2>3, <3>1, <3>2, <3>3
  <2> QED
    BY <1>1, <1>4, <2>1, <2>2, <2>3
<1> QED
  BY <1>1, <1>5, <1>6, <1>7 DEF Good, s

\* An older page is put before the messages of a topic.
LEMMA GoodGrows ==
  ASSUME Types, LogFits, NEW t \in Topic, NEW s \in Seq(Message), NEW before, before # None, NEW reply,
         PageOf(t, before, reply), reply.messages \in Seq(Message),
         Good(log, turn, t, s, TRUE, before)
  PROVE  Good(log, turn, t, reply.messages \o s, reply.has_more, reply.cursor)
<1> DEFINE P == OnPage(t, before)
           p == reply.messages
           N == Len(p)
           w == p \o s
<1>1. /\ \A i \in DOMAIN log : IsShown(log, i, p) <=> i \in P
      /\ Homes(log, turn, t, p) /\ Distinct(p) /\ Ordered(log, turn, t, p)
  BY PageShows
<1>2. /\ N \in Nat /\ DOMAIN p = 1..N /\ Len(s) \in Nat /\ DOMAIN s = 1..Len(s) /\ DOMAIN w = 1..N + Len(s)
      /\ \A n \in 1..N : w[n] = p[n]
      /\ \A n \in 1..Len(s) : w[N + n] = s[n]
  OBVIOUS
<1>3. DOMAIN log = 1..Len(log) /\ Len(log) \in Nat /\ \A i \in DOMAIN log : i \in Nat
  BY DEF Types, ServerTypes
<1>4. /\ \A i \in DOMAIN log : i \in Older(t, before) <=> log[i].topic = t /\ i < before
      /\ \A i \in P : i \in Older(t, before) /\ i \in DOMAIN log /\ i < before
      /\ \A i \in P, j \in Older(t, before) : i < j => j \in P
      /\ reply.has_more => reply.cursor \in P /\ \A i \in P : reply.cursor <= i
  BY DEF PageOf, Older
<1>5. /\ before \in DOMAIN log
      /\ \A i \in DOMAIN log : IsShown(log, i, s) => before <= i
      /\ \A i \in Visible(log, turn, t) : before <= i => IsShown(log, i, s)
  BY DEF Good, Since
<1> HIDE DEF P, p, N, w
<1>6. \A n \in DOMAIN w : \/ n \in DOMAIN p /\ w[n] = p[n]
                          \/ n - N \in DOMAIN s /\ w[n] = s[n - N] /\ N < n
  BY <1>2
<1>7. \A i \in DOMAIN log : IsShown(log, i, w) <=> i \in P \/ IsShown(log, i, s)
  <2>1. SUFFICES ASSUME NEW i \in DOMAIN log
                 PROVE  IsShown(log, i, w) <=> IsShown(log, i, p) \/ IsShown(log, i, s)
    BY <1>1
  <2>2. IsShown(log, i, w) => IsShown(log, i, p) \/ IsShown(log, i, s)
    BY <1>6 DEF IsShown
  <2>3. IsShown(log, i, p) => IsShown(log, i, w)
    <3>1. \A n \in DOMAIN p : n \in DOMAIN w /\ w[n] = p[n]
      BY <1>2
    <3> QED
      BY <3>1 DEF IsShown
  <2>4. IsShown(log, i, s) => IsShown(log, i, w)
    <3>1. \A n \in DOMAIN s : N + n \in DOMAIN w /\ w[N + n] = s[n]
      BY <1>2
    <3> QED
      BY <3>1 DEF IsShown
  <2> QED
    BY <2>2, <2>3, <2>4
<1>8. \A i \in Visible(log, turn, t) : /\ i \in DOMAIN log /\ i \in Nat
                                       /\ i < before => i \in Older(t, before)
  BY <1>3, <1>4 DEF Visible
<1>9. before \in Nat
  BY <1>3, <1>5
<1>10. \A i \in P : ~IsShown(log, i, s)
  BY <1>3, <1>4, <1>5, <1>9
<1>11. Homes(log, turn, t, w)
  BY <1>1, <1>6 DEF Good, Homes
<1>12. Distinct(w)
  <2>1. SUFFICES ASSUME NEW m \in DOMAIN w, NEW n \in DOMAIN w, m < n,
                        w[m].turn = w[n].turn, w[m].role = w[n].role
                 PROVE  w[m].turn = None
    BY DEF Distinct
  <2>2. m \in Nat /\ n \in Nat
    BY <1>2
  <2>3. CASE n \in DOMAIN p /\ w[n] = p[n]
    <3>1. m \in DOMAIN p /\ w[m] = p[m]
      BY <1>2, <2>1, <2>2, <2>3
    <3> QED
      BY <1>1, <2>1, <2>3, <3>1 DEF Distinct
  <2>4. CASE n - N \in DOMAIN s /\ w[n] = s[n - N] /\ m \in DOMAIN p /\ w[m] = p[m]
    <3>1. PICK i \in P : p[m] = Saved(i)
      <4>1. \A a \in DOMAIN p : /\ InOrder(OnPage(t, before))[a] \in P
                                /\ p[a] = Saved(InOrder(OnPage(t, before))[a])
        BY DEF PageOf, P, p
      <4> QED
        BY <2>4, <4>1
    <3>2. RowOf(log, i, s[n - N])
      BY <2>1, <2>4, <3>1 DEF RowOf, Saved, Entry
    <3>3. IsShown(log, i, s)
      BY <2>4, <3>2 DEF IsShown
    <3> QED
      BY <1>10, <3>1, <3>3
  <2>5. CASE /\ n - N \in DOMAIN s /\ w[n] = s[n - N]
             /\ m - N \in DOMAIN s /\ w[m] = s[m - N]
    <3>1. m - N < n - N
      BY <1>2, <2>1, <2>2
    <3> QED
      BY <2>1, <2>5, <3>1 DEF Good, Distinct
  <2> QED
    BY <1>6, <2>3, <2>4, <2>5
<1>13. Ordered(log, turn, t, w)
  <2>1. SUFFICES ASSUME NEW m \in DOMAIN w, NEW n \in DOMAIN w, m < n,
                        NEW i \in Visible(log, turn, t), NEW j \in Visible(log, turn, t),
                        RowOf(log, i, w[m]), RowOf(log, j, w[n])
                 PROVE  i < j
    BY DEF Ordered
  <2>2. m \in Nat /\ n \in Nat
    BY <1>2
  <2>3. CASE n \in DOMAIN p /\ w[n] = p[n]
    <3>1. m \in DOMAIN p /\ w[m] = p[m]
      BY <1>2, <2>1, <2>2, <2>3
    <3> QED
      BY <1>1, <2>1, <2>3, <3>1 DEF Ordered
  <2>4. CASE n - N \in DOMAIN s /\ w[n] = s[n - N] /\ m \in DOMAIN p /\ w[m] = p[m]
    <3>1. IsShown(log, i, p) /\ IsShown(log, j, s)
      BY <2>1, <2>4 DEF IsShown
    <3>2. i < before /\ before <= j
      BY <1>1, <1>4, <1>5, <1>8, <3>1
    <3> QED
      BY <1>8, <1>9, <3>2
  <2>5. CASE /\ n - N \in DOMAIN s /\ w[n] = s[n - N]
             /\ m - N \in DOMAIN s /\ w[m] = s[m - N]
    <3>1. m - N < n - N
      BY <1>2, <2>1, <2>2
    <3>2. Ordered(log, turn, t, s)
      BY DEF Good
    <3> QED
      BY <2>1, <2>5, <3>1, <3>2 DEF Ordered
  <2> QED
    BY <1>6, <2>3, <2>4, <2>5
<1>14. \A i, j \in Visible(log, turn, t) : i \in P /\ i < j => IsShown(log, j, w)
  <2>1. SUFFICES ASSUME NEW i \in Visible(log, turn, t), NEW j \in Visible(log, turn, t), i \in P, i < j
                 PROVE  IsShown(log, j, w)
    OBVIOUS
  <2>2. CASE j < before
    BY <1>4, <1>7, <1>8, <2>1, <2>2
  <2>3. CASE ~(j < before)
    <3>1. before <= j
      BY <1>8, <1>9, <2>3
    <3> QED
      BY <1>5, <1>7, <1>8, <3>1
  <2> QED
    BY <2>2, <2>3
<1>15. Suffix(log, turn, t, w)
  <2>1. SUFFICES ASSUME NEW i \in Visible(log, turn, t), NEW j \in Visible(log, turn, t),
                        i < j, IsShown(log, i, w)
                 PROVE  IsShown(log, j, w)
    BY DEF Suffix
  <2>2. CASE i \in P
    BY <1>14, <2>1, <2>2
  <2>3. CASE IsShown(log, i, s)
    <3>1. IsShown(log, j, s)
      BY <2>1, <2>3 DEF Good, Suffix
    <3> QED
      BY <1>7, <1>8, <3>1
  <2> QED
    BY <1>7, <1>8, <2>1, <2>2, <2>3
<1>16. Latest(log, turn, t, w)
  BY <1>7, <1>8 DEF Good, Latest
<1>17. Since(log, turn, t, w, reply.has_more, reply.cursor)
  <2>1. SUFFICES ASSUME reply.has_more
                 PROVE  /\ reply.cursor \in DOMAIN log
                        /\ \A i \in DOMAIN log : IsShown(log, i, w) => reply.cursor <= i
                        /\ \A i \in Visible(log, turn, t) : reply.cursor <= i => IsShown(log, i, w)
    BY DEF Since
  <2>2. reply.cursor \in P /\ reply.cursor \in DOMAIN log /\ reply.cursor < before /\ reply.cursor \in Nat
    BY <1>3, <1>4, <2>1
  <2>3. ASSUME NEW i \in DOMAIN log, IsShown(log, i, w) PROVE reply.cursor <= i
    <3>1. CASE i \in P
      BY <1>4, <2>1, <3>1
    <3>2. CASE IsShown(log, i, s)
      BY <1>3, <1>5, <1>9, <2>2, <3>2
    <3> QED
      BY <1>7, <2>3, <3>1, <3>2
  <2>4. ASSUME NEW i \in Visible(log, turn, t), reply.cursor <= i PROVE IsShown(log, i, w)
    <3>1. CASE before <= i
      BY <1>5, <1>7, <1>8, <3>1
    <3>2. CASE ~(before <= i)
      <4>1. i < before /\ (reply.cursor = i \/ reply.cursor < i)
        BY <1>8, <1>9, <2>2, <2>4, <3>2
      <4>2. i \in P
        BY <1>4, <1>8, <2>2, <4>1
      <4> QED
        BY <1>7, <1>8, <4>2
    <3> QED
      BY <3>1, <3>2
  <2> QED
    BY <2>2, <2>3, <2>4
<1> QED
  BY <1>11, <1>12, <1>13, <1>15, <1>16, <1>17 DEF Good, w, p

-----------------------------------------------------------------------------
(* What every step leaves as it was.                                       *)

TurnOn(k) ==
  /\ Over(turn, k) => Over(turn', k) /\ turn'[k].unheard = turn[k].unheard
  /\ turn[k].unheard => turn'[k].unheard
  /\ turn[k].phase # "new" => turn'[k].phase # "new" /\ turn'[k].target = turn[k].target
  /\ turn[k].phase = "failed" => turn'[k].phase = "failed"
  /\ turn[k].topic # None => turn'[k].topic = turn[k].topic
  /\ run[k] = "saved" => run'[k] = "saved"
  /\ run'[k] = "saved" => run[k] = "saved" \/ turn[k].unheard \/ Busy(turn, k)

Onward ==
  /\ Grows(log, log')
  /\ \A k \in Turn : TurnOn(k)
  /\ \A i \in DOMAIN log' : i \notin DOMAIN log =>
       LET k == log'[i].turn IN
       k \in Turn /\ log'[i].topic = turn[k].topic /\ (turn[k].unheard \/ Busy(turn, k))

LEMMA OnwardBut ==
  ASSUME Types, TurnsFit, NEW k \in Turn, TurnOn(k), log' = log,
         \A j \in Turn \ {k} : turn'[j] = turn[j] /\ run'[j] = run[j]
  PROVE  Onward
<1>1. \A j \in Turn \ {k} : TurnOn(j)
  BY DEF TurnOn, Over, Busy
<1>2. Grows(log, log')
  BY DEF Grows, Types, ServerTypes
<1> QED
  BY <1>1, <1>2 DEF Onward

LEMMA OnwardSame ==
  ASSUME Types, UNCHANGED <<turn, run, log>>
  PROVE  Onward
<1>1. \A j \in Turn : TurnOn(j)
  BY DEF TurnOn, Over, Busy
<1>2. Grows(log, log')
  BY DEF Grows, Types, ServerTypes
<1> QED
  BY <1>1, <1>2 DEF Onward

LEMMA ServerOnward ==
  ASSUME Basis, NEW k \in Turn, Begin(k) \/ Dropped(k) \/ Token(k) \/ Finish(k) \/ Save(k) \/ Fail(k)
  PROVE  Onward
<1>1. /\ turn \in [Turn -> Turns] /\ turn[k] \in Turns /\ run \in [Turn -> Runs]
      /\ Types /\ TurnsFit /\ TurnFits(k)
  BY DEF Basis, Types, ServerTypes, TurnsFit
<1>2. CASE Begin(k)
  <2>1. turn[k].phase = "sent" /\ run[k] = None /\ log' = log
    BY <1>1, <1>2 DEF Begin, TurnFits
  <2>2. \A j \in Turn \ {k} : turn'[j] = turn[j] /\ run'[j] = run[j]
    BY <1>1, <1>2 DEF Begin
  <2> DEFINE phase == IF turn[k].unheard THEN "over" ELSE "open"
  <2>3. phase \in {"open", "over"}
    OBVIOUS
  <2>4. /\ turn'[k].phase = phase /\ turn'[k].unheard = turn[k].unheard
        /\ turn'[k].target = turn[k].target
        /\ turn[k].topic # None => turn'[k].topic = turn[k].topic
    <3>1. CASE turn[k].topic # None
      <4>1. turn' = [turn EXCEPT ![k].phase = phase]
        BY <1>2, <3>1 DEF Begin
      <4> HIDE DEF phase
      <4> QED
        BY <1>1, <4>1 DEF Turns
    <3>2. CASE turn[k].topic = None
      <4>1. turn' = [turn EXCEPT ![k].phase = phase, ![k].topic = Fresh]
        BY <1>2, <3>2 DEF Begin
      <4> HIDE DEF phase, Fresh
      <4> QED
        BY <1>1, <3>2, <4>1 DEF Turns
    <3> QED
      BY <3>1, <3>2
  <2>5. run'[k] # "saved"
    BY <1>1, <1>2 DEF Begin
  <2> HIDE DEF phase
  <2>6. TurnOn(k)
    BY <2>1, <2>3, <2>4, <2>5, ChatAssumption DEF TurnOn, Over, Busy
  <2> QED
    BY <1>1, <2>1, <2>2, <2>6, OnwardBut
<1>3. CASE Dropped(k)
  <2>1. /\ turn[k].phase = "sent" /\ turn' = [turn EXCEPT ![k].phase = "dropped"] /\ UNCHANGED <<run, log>>
    BY <1>3 DEF Dropped, server
  <2>2. /\ turn'[k].phase = "dropped" /\ turn'[k].unheard = turn[k].unheard
        /\ turn'[k].target = turn[k].target /\ turn'[k].topic = turn[k].topic
        /\ \A j \in Turn \ {k} : turn'[j] = turn[j]
    BY <1>1, <2>1 DEF Turns
  <2>3. TurnOn(k)
    BY <2>1, <2>2 DEF TurnOn, Over, Busy
  <2> QED
    BY <1>1, <2>1, <2>2, <2>3, OnwardBut
<1>4. CASE Token(k)
  <2>1. turn' = [turn EXCEPT ![k].said = @ + 1] /\ UNCHANGED <<run, log>>
    BY <1>4 DEF Token, server
  <2>2. /\ turn'[k].phase = turn[k].phase /\ turn'[k].unheard = turn[k].unheard
        /\ turn'[k].target = turn[k].target /\ turn'[k].topic = turn[k].topic
        /\ \A j \in Turn \ {k} : turn'[j] = turn[j]
    BY <1>1, <2>1 DEF Turns
  <2>3. TurnOn(k)
    BY <2>1, <2>2 DEF TurnOn, Over, Busy
  <2> QED
    BY <1>1, <2>1, <2>2, <2>3, OnwardBut
<1>5. CASE Finish(k) \/ Fail(k)
  <2>1. turn' = turn /\ log' = log /\ run[k] # "saved" /\ run'[k] # "saved"
        /\ \A j \in Turn \ {k} : run'[j] = run[j]
    BY <1>1, <1>5 DEF Finish, Fail
  <2>2. TurnOn(k)
    BY <2>1 DEF TurnOn, Over, Busy
  <2> QED
    BY <1>1, <2>1, <2>2, OnwardBut
<1>6. CASE Save(k)
  <2>1. /\ turn' = turn /\ run[k] = "answered" /\ run' = [run EXCEPT ![k] = "saved"]
    BY <1>6 DEF Save
  <2>2. Busy(turn, k) \/ turn[k].unheard
    BY <1>1, <2>1, ChatAssumption DEF TurnFits, Busy
  <2>3. TurnOn(k) /\ \A j \in Turn \ {k} : TurnOn(j)
    BY <1>1, <2>1, <2>2 DEF TurnOn, Over, Busy
  <2>4. /\ log \in Seq(Rows) /\ log' \in Seq(Rows) /\ Len(log) \in Nat /\ Len(log') = Len(log) + 2
        /\ \A i \in 1..Len(log) : log'[i] = log[i]
        /\ log'[Len(log) + 1] = [topic |-> turn[k].topic, turn |-> k, role |-> "user"]
        /\ log'[Len(log) + 2] = [topic |-> turn[k].topic, turn |-> k, role |-> "assistant"]
    <3>1. log \in Seq(Rows) /\ Len(log) \in Nat
      BY <1>1 DEF Types, ServerTypes
    <3> QED
      BY <1>1, <1>6, <3>1, SaveGrows DEF NewRows
  <2>5. Grows(log, log')
    BY <2>4 DEF Grows
  <2>6. ASSUME NEW i \in DOMAIN log', i \notin DOMAIN log
        PROVE  log'[i].turn = k /\ log'[i].topic = turn[k].topic
    <3>1. i = Len(log) + 1 \/ i = Len(log) + 2
      BY <2>4, <2>6
    <3> QED
      BY <2>4, <3>1
  <2> QED
    BY <2>2, <2>3, <2>5, <2>6 DEF Onward
<1> QED
  BY <1>2, <1>3, <1>4, <1>5, <1>6

LEMMA DeliverOnward ==
  ASSUME Basis, NEW k \in Turn, Deliver(k)
  PROVE  /\ Onward /\ turn'[k].phase \in {"open", "over"}
         /\ turn'[k].topic = turn[k].topic /\ turn'[k].target = turn[k].target
         /\ turn'[k].unheard = turn[k].unheard /\ UNCHANGED <<run, log>>
         /\ \A j \in Turn \ {k} : turn'[j] = turn[j]
<1>1. /\ turn \in [Turn -> Turns] /\ turn[k] \in Turns /\ Types /\ TurnsFit /\ UNCHANGED <<run, log>>
      /\ turn[k].phase = "open"
  BY DEF Deliver, server, Basis, Types, ServerTypes
<1>2. \/ turn' = turn
      \/ turn' = [turn EXCEPT ![k].got = @ + 1]
      \/ turn' = [turn EXCEPT ![k].phase = "over"]
  BY DEF Deliver, OnInfo, OnText, OnDone
<1>3. /\ turn'[k].phase \in {"open", "over"} /\ turn'[k].unheard = turn[k].unheard
      /\ turn'[k].target = turn[k].target /\ turn'[k].topic = turn[k].topic
      /\ \A j \in Turn \ {k} : turn'[j] = turn[j]
  BY <1>1, <1>2 DEF Turns
<1>4. TurnOn(k)
  BY <1>1, <1>3 DEF TurnOn, Over, Busy
<1> QED
  BY <1>1, <1>3, <1>4, OnwardBut

LEMMA UploadsOnward ==
  ASSUME Basis, NEW k \in Turn, Created(k) \/ Uploaded(k) \/ UploadFails(k)
  PROVE  /\ Onward /\ turn'[k].target = turn[k].target /\ turn'[k].unheard = turn[k].unheard
         /\ Created(k) => turn'[k].topic = Fresh /\ turn'[k].phase = "upload"
         /\ ~Created(k) => turn'[k].topic = turn[k].topic
         /\ Uploaded(k) => turn'[k].phase = "sent"
         /\ UploadFails(k) => turn'[k].phase = "failed"
         /\ turn[k].phase \in {"create", "upload"} /\ UNCHANGED <<run, log, wire>>
         /\ \A j \in Turn \ {k} : turn'[j] = turn[j]
<1>1. /\ turn \in [Turn -> Turns] /\ turn[k] \in Turns /\ Types /\ TurnsFit /\ UNCHANGED <<run, log, wire>>
      /\ turn[k].phase \in {"create", "upload"} /\ (Created(k) => turn[k].phase = "create") /\ TurnFits(k)
  BY DEF Created, Uploaded, UploadFails, server, Basis, Types, ServerTypes, TurnsFit
<1>2. /\ turn'[k].phase \in {"upload", "sent", "failed"} /\ turn'[k].unheard = turn[k].unheard
      /\ turn'[k].target = turn[k].target
      /\ Created(k) => turn'[k].topic = Fresh /\ turn'[k].phase = "upload"
      /\ ~Created(k) => turn'[k].topic = turn[k].topic
      /\ Uploaded(k) => turn'[k].phase = "sent"
      /\ UploadFails(k) => turn'[k].phase = "failed"
      /\ \A j \in Turn \ {k} : turn'[j] = turn[j]
  <2>1. CASE Created(k)
    <3>1. turn' = [turn EXCEPT ![k].phase = "upload", ![k].topic = Fresh]
      BY <2>1 DEF Created
    <3>2. /\ turn'[k].phase = "upload" /\ turn'[k].unheard = turn[k].unheard
          /\ turn'[k].target = turn[k].target /\ turn'[k].topic = Fresh
          /\ \A j \in Turn \ {k} : turn'[j] = turn[j]
      <4> HIDE DEF Fresh
      <4> QED
        BY <1>1, <3>1 DEF Turns
    <3>3. ~Uploaded(k) /\ ~UploadFails(k)
      BY <1>1, <2>1, <3>2 DEF Uploaded, UploadFails, Turns
    <3> QED
      BY <2>1, <3>2, <3>3
  <2>2. CASE Uploaded(k)
    <3>1. turn' = [turn EXCEPT ![k].phase = "sent"]
      BY <2>2 DEF Uploaded
    <3>2. /\ turn'[k].phase = "sent" /\ turn'[k].unheard = turn[k].unheard
          /\ turn'[k].target = turn[k].target /\ turn'[k].topic = turn[k].topic
          /\ \A j \in Turn \ {k} : turn'[j] = turn[j]
      BY <1>1, <3>1 DEF Turns
    <3>3. ~Created(k) /\ ~UploadFails(k)
      BY <1>1, <3>2 DEF Created, UploadFails, Turns
    <3> QED
      BY <2>2, <3>2, <3>3
  <2>3. CASE UploadFails(k)
    <3>1. turn' = [turn EXCEPT ![k].phase = "failed"]
      BY <2>3 DEF UploadFails
    <3>2. /\ turn'[k].phase = "failed" /\ turn'[k].unheard = turn[k].unheard
          /\ turn'[k].target = turn[k].target /\ turn'[k].topic = turn[k].topic
          /\ \A j \in Turn \ {k} : turn'[j] = turn[j]
      BY <1>1, <3>1 DEF Turns
    <3>3. ~Created(k) /\ ~Uploaded(k)
      BY <1>1, <3>2 DEF Created, Uploaded, Turns
    <3> QED
      BY <2>3, <3>2, <3>3
  <2> QED
    BY <2>1, <2>2, <2>3
<1>3. TurnOn(k)
  BY <1>1, <1>2 DEF TurnOn, TurnFits, Over, Busy
<1>4. Onward
  BY <1>1, <1>2, <1>3, OnwardBut
<1> QED
  BY <1>1, <1>2, <1>4

LEMMA SendOnward ==
  ASSUME Basis, NEW k \in Turn, NEW files \in BOOLEAN, Send(k, files)
  PROVE  Onward
<1>1. /\ Types /\ TurnsFit /\ TurnFits(k) /\ UNCHANGED <<run, log>>
  BY DEF Send, server, Basis, TurnsFit
<1>2. /\ turn[k].phase = "new" /\ turn'[k].phase \in {"sent", "create", "upload"} /\ ~turn'[k].unheard
      /\ \A j \in Turn \ {k} : turn'[j] = turn[j]
  BY <1>1, SendFits
<1>3. TurnOn(k)
  BY <1>1, <1>2 DEF TurnOn, TurnFits, Over, Busy
<1> QED
  BY <1>1, <1>2, <1>3, OnwardBut

LEMMA CancelOnward ==
  ASSUME Basis, Cancel
  PROVE  /\ Onward /\ UNCHANGED <<run, log>>
         /\ \A k \in Turn : /\ turn'[k].topic = turn[k].topic /\ turn'[k].target = turn[k].target
                            /\ \/ turn'[k] = turn[k] /\ wire'[k] = wire[k]
                               \/ /\ turn'[k].unheard /\ turn[k].phase \in {"sent", "open"}
                                  /\ turn'[k].phase \in {"sent", "over"}
<1>0. Types /\ TurnsFit /\ UNCHANGED <<run, log>>
  BY DEF Cancel, server, Basis
<1>1. CASE stream = None \/ stream.aborts = None
  <2>1. UNCHANGED <<turn, wire>>
    BY <1>1 DEF Cancel
  <2> QED
    BY <1>0, <2>1, OnwardSame
<1>2. CASE ~(stream = None \/ stream.aborts = None)
  <2>1. PICK k \in Turn : stream.aborts = k
    BY <1>2 DEF Basis, Types, ScreenTypes
  <2>2. /\ turn' = [turn EXCEPT ![k].unheard = TRUE, ![k].phase = IF @ = "open" THEN "over" ELSE @]
        /\ wire' = [wire EXCEPT ![k] = <<>>]
    BY <1>2, <2>1 DEF Cancel
  <2>3. turn \in [Turn -> Turns] /\ turn[k] \in Turns /\ wire \in [Turn -> Seq(Events)]
        /\ turn[k].phase \in {"sent", "open"}
    BY <1>2, <2>1 DEF Basis, StreamFits, Types, ServerTypes
  <2>4. /\ turn'[k].unheard /\ turn'[k].topic = turn[k].topic /\ turn'[k].target = turn[k].target
        /\ turn[k].phase = "open" => turn'[k].phase = "over"
        /\ turn[k].phase = "sent" => turn'[k].phase = "sent"
        /\ \A j \in Turn \ {k} : turn'[j] = turn[j] /\ wire'[j] = wire[j]
    BY <2>2, <2>3 DEF Turns
  <2>5. TurnOn(k)
    BY <1>0, <2>3, <2>4 DEF TurnOn, Over, Busy
  <2>6. Onward
    BY <1>0, <2>4, <2>5, OnwardBut
  <2> QED
    BY <1>0, <2>3, <2>4, <2>6
<1> QED
  BY <1>1, <1>2

LEMMA ElsewhereOnward ==
  ASSUME Basis, NEW k \in Turn, NEW t \in Topic, Elsewhere(k, t)
  PROVE  Onward
<1>1. Types /\ TurnsFit /\ TurnFits(k)
  BY DEF Basis, TurnsFit
<1>2. /\ log' = log /\ turn[k].phase = "new" /\ turn'[k].phase = "over" /\ turn'[k].unheard
      /\ run'[k] = "running" /\ \A j \in Turn \ {k} : turn'[j] = turn[j] /\ run'[j] = run[j]
  BY <1>1, ElsewhereIs
<1>3. run[k] = None /\ turn[k].topic = None
  BY <1>1, <1>2 DEF TurnFits
<1>4. TurnOn(k)
  BY <1>2, <1>3, ChatAssumption DEF TurnOn, Over, Busy
<1> QED
  BY <1>1, <1>2, <1>4, OnwardBut

LEMMA BreakOnward ==
  ASSUME Basis, NEW k \in Turn, Break(k)
  PROVE  Onward
<1>1. Types /\ TurnsFit
  BY DEF Basis
<1>2. /\ UNCHANGED <<run, log>> /\ turn[k].phase \in {"sent", "open"} /\ turn'[k].phase \in {"sent", "over"}
      /\ turn'[k].unheard /\ turn'[k].topic = turn[k].topic /\ turn'[k].target = turn[k].target
      /\ \A j \in Turn \ {k} : turn'[j] = turn[j]
  BY <1>1, BreakIs DEF server
<1>3. TurnOn(k)
  BY <1>2 DEF TurnOn, Over, Busy
<1> QED
  BY <1>1, <1>2, <1>3, OnwardBut

LEMMA NextOnward ==
  ASSUME Basis, [Next]_vars
  PROVE  Onward
<1>1. CASE UNCHANGED <<turn, run, log>>
  BY <1>1, OnwardSame DEF Basis
<1>2. CASE Server
  BY <1>2, ServerOnward DEF Server
<1>3. CASE Uploads
  BY <1>3, UploadsOnward DEF Uploads
<1>4. ASSUME NEW k \in Turn, NEW files \in BOOLEAN, Send(k, files) PROVE Onward
  BY <1>4, SendOnward
<1>5. CASE Cancel
  BY <1>5, CancelOnward
<1>6. ASSUME NEW k \in Turn, Deliver(k) PROVE Onward
  BY <1>6, DeliverOnward
<1>7. CASE Replies
  BY <1>1, <1>7 DEF Replies, Answer, Selected, LoadedMore, Removed, server
<1>8. CASE \/ \E t \in topics \cup {None} : SelectTopic(t)
           \/ LoadMore
           \/ \E t \in topics : RemoveTopic(t)
  BY <1>1, <1>8 DEF SelectTopic, LoadMore, RemoveTopic, server
<1>9. CASE Outside
  BY <1>9, ElsewhereOnward, BreakOnward DEF Outside
<1> QED
  BY <1>1, <1>2, <1>3, <1>4, <1>5, <1>6, <1>7, <1>8, <1>9 DEF Next, User, vars, server

LEMMA RowsStay ==
  ASSUME Types, Onward, LogFits, log' = log, \A k \in Turn : run'[k] = "saved" => run[k] = "saved"
  PROVE  LogFits'
<1>1. log \in Seq(Rows) /\ \A i \in DOMAIN log : log[i] \in Rows
  BY DEF Types, ServerTypes
<1>2. ASSUME NEW i \in DOMAIN log
      PROVE  /\ log[i].turn \in Past => log[i].topic \in Old
             /\ log[i].turn \in Turn => /\ log[i].topic = turn'[log[i].turn].topic
                                        /\ run'[log[i].turn] = "saved"
  <2>1. CASE log[i].turn \in Turn
    <3>1. log[i].topic = turn[log[i].turn].topic /\ run[log[i].turn] = "saved" /\ log[i].topic # None
      BY <1>1, <2>1, ChatAssumption DEF LogFits, Rows
    <3>2. TurnOn(log[i].turn)
      BY <2>1 DEF Onward
    <3>3. log[i].turn \notin Past
      BY <2>1, ChatAssumption
    <3> QED
      BY <3>1, <3>2, <3>3 DEF TurnOn
  <2>2. CASE log[i].turn \notin Turn
    BY <2>2 DEF LogFits
  <2> QED
    BY <2>1, <2>2
<1>3. ASSUME NEW k \in Turn, run'[k] = "saved"
      PROVE  \E i \in DOMAIN log : /\ i + 1 \in DOMAIN log
                                   /\ log[i].turn = k /\ log[i + 1].turn = k /\ log[i + 1].role = "assistant"
                                   /\ log[i].role = "user"
  BY <1>3 DEF LogFits
<1>4. \A i, j \in DOMAIN log : log[i].turn = log[j].turn =>
       log[i].topic = log[j].topic /\ (log[i].role = log[j].role => i = j)
  BY DEF LogFits
<1> QED
  BY <1>2, <1>3, <1>4 DEF LogFits

LEMMA SaveRows ==
  ASSUME Types, TurnsFit, LogFits, NEW k \in Turn, Save(k)
  PROVE  LogFits' /\ \A i \in DOMAIN log : log[i].turn # k
<1> DEFINE L == Len(log)
<1>1. /\ log \in Seq(Rows) /\ L \in Nat /\ run[k] = "answered" /\ turn' = turn
      /\ run'[k] = "saved" /\ \A j \in Turn \ {k} : run'[j] = run[j]
  BY DEF Save, Types, ServerTypes
<1>2. /\ DOMAIN log' = 1..L + 2 /\ DOMAIN log = 1..L
      /\ \A i \in DOMAIN log : i \in DOMAIN log' /\ log'[i] = log[i]
      /\ log'[L + 1] = [topic |-> turn[k].topic, turn |-> k, role |-> "user"]
      /\ log'[L + 2] = [topic |-> turn[k].topic, turn |-> k, role |-> "assistant"]
  BY SaveGrows DEF NewRows
<1>3. /\ log'[L + 1].turn = k /\ log'[L + 1].role = "user" /\ log'[L + 1].topic = turn[k].topic
      /\ log'[L + 2].turn = k /\ log'[L + 2].role = "assistant" /\ log'[L + 2].topic = turn[k].topic
  BY <1>2
<1> HIDE DEF L
<1>4. \A i \in DOMAIN log' : i \in DOMAIN log \/ i = L + 1 \/ i = L + 2
  BY <1>1, <1>2
<1>5. \A i \in DOMAIN log : log[i].turn # k
  BY <1>1 DEF LogFits
<1>6. k \notin Past
  BY ChatAssumption
<1>7. ASSUME NEW i \in DOMAIN log'
      PROVE  /\ log'[i].turn \in Past => log'[i].topic \in Old
             /\ log'[i].turn \in Turn => /\ log'[i].topic = turn'[log'[i].turn].topic
                                         /\ run'[log'[i].turn] = "saved"
  <2>1. CASE i \in DOMAIN log
    <3>1. log'[i] = log[i] /\ log[i].turn # k
      BY <1>2, <1>5, <2>1
    <3> QED
      BY <1>1, <2>1, <3>1 DEF LogFits
  <2>2. CASE i = L + 1 \/ i = L + 2
    BY <1>1, <1>3, <1>6, <2>2
  <2> QED
    BY <1>4, <2>1, <2>2
<1>8. ASSUME NEW i \in DOMAIN log', NEW j \in DOMAIN log', log'[i].turn = log'[j].turn
      PROVE  log'[i].topic = log'[j].topic /\ (log'[i].role = log'[j].role => i = j)
  <2>1. CASE i \in DOMAIN log /\ j \in DOMAIN log
    BY <1>2, <1>8, <2>1 DEF LogFits
  <2>2. CASE i \notin DOMAIN log /\ j \notin DOMAIN log
    BY <1>3, <1>4, <2>2
  <2>3. CASE i \in DOMAIN log /\ j \notin DOMAIN log
    BY <1>2, <1>3, <1>4, <1>5, <1>8, <2>3
  <2>4. CASE i \notin DOMAIN log /\ j \in DOMAIN log
    BY <1>2, <1>3, <1>4, <1>5, <1>8, <2>4
  <2> QED
    BY <2>1, <2>2, <2>3, <2>4
<1>9. ASSUME NEW j \in Turn, run'[j] = "saved"
      PROVE  \E i \in DOMAIN log' : /\ i + 1 \in DOMAIN log'
                                    /\ log'[i].turn = j /\ log'[i + 1].turn = j
                                    /\ log'[i + 1].role = "assistant" /\ log'[i].role = "user"
  <2>1. CASE j = k
    <3>1. L + 1 \in DOMAIN log' /\ (L + 1) + 1 = L + 2 /\ L + 2 \in DOMAIN log'
      BY <1>1, <1>2
    <3> QED
      BY <1>3, <2>1, <3>1
  <2>2. CASE j # k
    <3>1. PICK i \in DOMAIN log : /\ i + 1 \in DOMAIN log
                                  /\ log[i].turn = j /\ log[i + 1].turn = j
                                  /\ log[i + 1].role = "assistant" /\ log[i].role = "user"
      BY <1>1, <1>9, <2>2 DEF LogFits
    <3> QED
      BY <1>2, <3>1
  <2> QED
    BY <2>1, <2>2
<1> QED
  BY <1>5, <1>7, <1>8, <1>9 DEF LogFits

\* No message of t that the page has to show is saved by this step.
Quiet(t) ==
  \A i \in DOMAIN log' : i \notin DOMAIN log /\ log'[i].topic = t => turn[log'[i].turn].unheard

LEMMA VisibleStays ==
  ASSUME Onward, NEW t, Quiet(t)
  PROVE  \A i \in Visible(log', turn', t) : i \in Visible(log, turn, t)
<1>1. SUFFICES ASSUME NEW i \in DOMAIN log', log'[i].topic = t,
                      log'[i].turn \in Turn => ~turn'[log'[i].turn].unheard
               PROVE  i \in Visible(log, turn, t)
  BY DEF Visible
<1>2. \A k \in Turn : turn[k].unheard => turn'[k].unheard
  BY DEF Onward, TurnOn
<1>3. i \in DOMAIN log
  <2>1. SUFFICES ASSUME i \notin DOMAIN log PROVE FALSE
    OBVIOUS
  <2>2. log'[i].turn \in Turn /\ turn[log'[i].turn].unheard
    BY <1>1, <2>1 DEF Onward, Quiet
  <2> QED
    BY <1>1, <1>2, <2>2
<1>4. log'[i] = log[i]
  BY <1>3, GrowsBy DEF Onward
<1> QED
  BY <1>1, <1>2, <1>3, <1>4 DEF Visible

LEMMA HomeStays ==
  ASSUME Types, TurnsFit, Onward, NEW t, NEW k, HomeAt(log, turn, t, k),
         t \in Topic \/ \A j \in Turn : turn[j].topic = t => HomeAt(log', turn', t, j)
  PROVE  HomeAt(log', turn', t, k)
<1>1. CASE k = None
  BY <1>1 DEF HomeAt
<1>2. CASE Lost(turn, k)
  <2>1. k \in Turn /\ turn[k].phase # "new" /\ TurnOn(k)
    BY <1>2 DEF Lost, TurnsFit, TurnFits, Onward
  <2>2. Lost(turn', k)
    BY <1>2, <2>1 DEF Lost, TurnOn
  <2> QED
    BY <2>2 DEF HomeAt
<1>3. CASE k \in Turn /\ turn[k].topic = t
  <2>1. CASE t \in Topic
    <3>1. t # None /\ TurnOn(k)
      BY <1>3, <2>1, ChatAssumption DEF Onward
    <3> QED
      BY <1>3, <3>1 DEF HomeAt, TurnOn
  <2>2. CASE t \notin Topic
    BY <1>3, <2>2
  <2> QED
    BY <2>1, <2>2
<1>4. ASSUME NEW i \in DOMAIN log, log[i].turn = k, log[i].topic = t
      PROVE  HomeAt(log', turn', t, k)
  <2>1. i \in DOMAIN log' /\ log'[i] = log[i]
    BY GrowsBy DEF Onward
  <2> QED
    BY <1>4, <2>1 DEF HomeAt
<1> QED
  BY <1>1, <1>2, <1>3, <1>4 DEF HomeAt

\* Messages stay good in a step that shows nothing new of their topic.
LEMMA GoodOn ==
  ASSUME Types, TurnsFit, Onward, NEW t, Quiet(t), NEW s, NEW s2, SameTurns(s, s2),
         t \in Topic \/ \A j \in Turn : turn[j].topic = t => HomeAt(log', turn', t, j),
         NEW more, NEW from, Good(log, turn, t, s, more, from)
  PROVE  Good(log', turn', t, s2, more, from)
<1>1. \A n \in DOMAIN s : HomeAt(log, turn, t, s[n].turn) => HomeAt(log', turn', t, s[n].turn)
  BY HomeStays
<1>2. \A i \in Visible(log', turn', t) : i \in Visible(log, turn, t)
  BY VisibleStays
<1>3. Grows(log, log')
  BY DEF Onward
<1> QED
  BY <1>1, <1>2, <1>3, GoodStays

LEMMA CalmOn ==
  ASSUME Types, TurnsFit, Onward, NEW t \in Topic, Quiet(t), NEW s, NEW more, NEW from,
         Calm(log, turn, run, t, s, more, from)
  PROVE  Calm(log', turn', run', t, s, more, from)
<1>1. Good(log', turn', t, s, more, from)
  BY GoodOn DEF Calm, SameTurns
<1>2. \A k \in Turn : Over(turn, k) => /\ Over(turn', k) /\ turn'[k].unheard = turn[k].unheard
                                       /\ ~turn[k].unheard /\ run'[k] = "saved" => run[k] = "saved"
  BY DEF Onward, TurnOn, Over, Busy
<1>3. Settled(turn', s)
  BY <1>2 DEF Calm, Settled
<1>4. Finished(turn', run', s)
  <2>1. SUFFICES ASSUME NEW n \in DOMAIN s, s[n].turn \in Turn, s[n].role = "assistant",
                        run'[s[n].turn] = "saved", ~turn'[s[n].turn].unheard
                 PROVE  s[n].status = "done" /\ s[n].text = Tokens
    BY DEF Finished
  <2>2. Over(turn, s[n].turn)
    BY <2>1 DEF Calm, Settled
  <2> QED
    BY <1>2, <2>1, <2>2 DEF Calm, Finished
<1> QED
  BY <1>1, <1>3, <1>4 DEF Calm

LEMMA KnownOn ==
  ASSUME Onward, NEW s, NEW s2, SameTurns(s, s2), Known(turn, s)
  PROVE  Known(turn', s2)
BY DEF Onward, TurnOn, Known, SameTurns

LEMMA UsedOn ==
  ASSUME Onward, NEW t \in Topic, Used(turn, t)
  PROVE  Used(turn', t)
BY ChatAssumption DEF Used, Onward, TurnOn

\* A page keeps its messages while rows are added.
LEMMA PageStays ==
  ASSUME Types, Onward, NEW t, NEW before \in DOMAIN log, before # None
  PROVE  Page(t, before)' = Page(t, before)
<1>1. /\ \A i \in DOMAIN log : i \in DOMAIN log' /\ log'[i] = log[i]
      /\ \A i \in DOMAIN log' : i \in Nat
      /\ \A i \in DOMAIN log', j \in DOMAIN log : i \notin DOMAIN log => j < i
      /\ \A i \in DOMAIN log : i \in Nat
  BY GrowsBy DEF Onward
<1>2. \A i \in DOMAIN log' : i < before => i \in DOMAIN log
  BY <1>1
<1>3. Older(t, before)' = Older(t, before)
  BY <1>1, <1>2 DEF Older
<1>4. OnPage(t, before)' = OnPage(t, before)
  BY <1>3 DEF OnPage
<1>5. Page(t, before)' =
        LET page == OnPage(t, before)'
            rows == InOrder(page)
            more == \E i \in Older(t, before)' : \A j \in page : i < j
        IN  [messages |-> [n \in DOMAIN rows |->
                             Entry(log'[rows[n]].turn, log'[rows[n]].role, "done", Tokens, FALSE)],
             has_more |-> more,
             cursor   |-> IF more THEN rows[1] ELSE None]
  <2>1. (IF before = None THEN {i \in DOMAIN log' : log'[i].topic = t}
         ELSE {i \in {i \in DOMAIN log' : log'[i].topic = t} : i < before}) = Older(t, before)'
    BY DEF Older
  <2> QED
    BY <2>1, Zenon DEF Page, OnPage
<1> DEFINE rows == InOrder(OnPage(t, before))
           more == \E i \in Older(t, before) : \A j \in OnPage(t, before) : i < j
<1>6. Page(t, before)' =
        [messages |-> [n \in DOMAIN rows |->
                         Entry(log'[rows[n]].turn, log'[rows[n]].role, "done", Tokens, FALSE)],
         has_more |-> more, cursor |-> IF more THEN rows[1] ELSE None]
  BY <1>3, <1>4, <1>5
<1>7. Page(t, before) =
        [messages |-> [n \in DOMAIN rows |->
                         Entry(log[rows[n]].turn, log[rows[n]].role, "done", Tokens, FALSE)],
         has_more |-> more, cursor |-> IF more THEN rows[1] ELSE None]
  BY PageIs DEF Saved
<1>8. \A n \in DOMAIN rows : rows[n] \in DOMAIN log
  <2>1. PICK L \in Nat : DOMAIN log = 1..L
    BY Len(log) \in Nat, DOMAIN log = 1..Len(log) DEF Types, ServerTypes
  <2>2. \A i \in OnPage(t, before) : i \in Nat /\ 0 < i /\ i <= L /\ i \in DOMAIN log
    BY <2>1 DEF OnPage, Older
  <2> QED
    BY <2>2, InOrderIs
<1> HIDE DEF rows, more
<1>9. \A n \in DOMAIN rows : log'[rows[n]] = log[rows[n]]
  BY <1>1, <1>8
<1> QED
  BY <1>6, <1>7, <1>9

-----------------------------------------------------------------------------
(* What every step of a user who waits leaves as it was.                   *)

LEMMA OverOrBusy ==
  ASSUME Types, NEW k \in Turn
  PROVE  /\ turn[k].phase = "new" \/ Busy(turn, k) \/ Over(turn, k)
         /\ ~(Busy(turn, k) /\ Over(turn, k))
         /\ turn[k].phase = "new" => ~Busy(turn, k) /\ ~Over(turn, k)
<1>1. turn[k].phase \in Phases
  BY DEF Types, ServerTypes, Turns
<1> QED
  BY <1>1 DEF Phases, Busy, Over

\* Who waits has no request or turn under way when he acts.
LEMMA Acts ==
  ASSUME ~Switching, MayAct
  PROVE  requests = {} /\ Rest
BY DEF MayAct, Outstanding, Rest, Busy

LEMMA AskOne ==
  ASSUME MaxRequests = 1, Types, OneAtATime, NEW kind, NEW t, NEW before, Ask(kind, t, before)
  PROVE  /\ requests = {}
         /\ requests' = {[kind |-> kind, topic |-> t, before |-> before, was |-> current, reply |-> None]}
<1> DEFINE q == [kind |-> kind, topic |-> t, before |-> before, was |-> current, reply |-> None]
<1>1. Cardinality(requests) < 1 /\ requests' = requests \cup {q}
  BY DEF Ask
<1>2. requests = {}
  <2>1. SUFFICES ASSUME NEW r \in requests PROVE FALSE
    OBVIOUS
  <2>2. requests = {r}
    BY DEF OneAtATime
  <2>3. Cardinality({r}) = 1
    BY FS_Singleton
  <2> QED
    BY <1>1, <2>2, <2>3
<1> QED
  BY <1>1, <1>2

\* Only send makes a turn busy.
LEMMA BusyStays ==
  ASSUME Basis, [Next]_vars, \A k \in Turn, files \in BOOLEAN : ~Send(k, files), NEW k \in Turn, Busy(turn', k)
  PROVE  Busy(turn, k)
<1>0. Types /\ turn \in [Turn -> Turns]
  BY DEF Basis, Types, ServerTypes
<1>1. Onward
  BY NextOnward
<1>2. SUFFICES ASSUME turn[k].phase = "new" PROVE turn'[k].phase = "new"
  <2>1. ~Over(turn, k)
    <3>1. SUFFICES ASSUME Over(turn, k) PROVE FALSE
      OBVIOUS
    <3>2. Over(turn', k)
      BY <1>1, <3>1 DEF Onward, TurnOn
    <3> QED
      BY <3>2 DEF Over, Busy
  <2> QED
    BY <1>0, <1>2, <2>1, OverOrBusy DEF Busy
<1>3. ~Busy(turn, k) /\ turn[k].phase \notin {"create", "upload", "sent", "open"}
  BY <1>2 DEF Busy
<1>4. CASE UNCHANGED turn
  BY <1>2, <1>4
<1>5. ASSUME NEW j \in Turn, Begin(j) \/ Dropped(j) \/ Token(j) \/ Finish(j) \/ Save(j) \/ Fail(j)
      PROVE  turn'[k].phase = "new"
  <2>1. CASE k = j
    <3>1. run[k] = None
      BY <1>2 DEF Basis, TurnsFit, TurnFits
    <3>2. Token(j) \/ Finish(j) \/ Save(j) \/ Fail(j) => FALSE
      BY <2>1, <3>1, ChatAssumption DEF Token, Finish, Save, Fail
    <3>3. ~Begin(j) /\ ~Dropped(j)
      BY <1>2, <2>1 DEF Begin, Dropped
    <3> QED
      BY <1>5, <3>2, <3>3
  <2>2. CASE k # j
    <3>1. turn'[k] = turn[k]
      BY <1>0, <1>5, <2>2 DEF Begin, Dropped, Token, Finish, Save, Fail
    <3> QED
      BY <1>2, <3>1
  <2> QED
    BY <2>1, <2>2
<1>6. ASSUME NEW j \in Turn, Created(j) \/ Uploaded(j) \/ UploadFails(j)
      PROVE  turn'[k].phase = "new"
  <2>1. k # j /\ turn'[k] = turn[k]
    BY <1>3, <1>6, UploadsOnward
  <2> QED
    BY <1>2, <2>1
<1>7. ASSUME NEW j \in Turn, Deliver(j)
      PROVE  turn'[k].phase = "new"
  <2>1. k # j
    BY <1>2, <1>7 DEF Deliver
  <2>2. turn'[k] = turn[k]
    BY <1>7, <2>1, DeliverOnward
  <2> QED
    BY <1>2, <2>2
<1>8. CASE Cancel
  BY <1>2, <1>3, <1>8, CancelOnward
<1>9. CASE Replies \/ (\E t \in topics \cup {None} : SelectTopic(t)) \/ LoadMore \/ \E t \in topics : RemoveTopic(t)
  <2>1. UNCHANGED turn
    BY <1>9 DEF Replies, Answer, Selected, LoadedMore, Removed, SelectTopic, LoadMore, RemoveTopic
  <2> QED
    BY <1>4, <2>1, Zenon
<1>10. ASSUME NEW j \in Turn, NEW t \in Topic, Elsewhere(j, t)
       PROVE  turn'[k].phase = "new"
  <2>1. turn'[j].phase = "over" /\ \A i \in Turn \ {j} : turn'[i] = turn[i]
    BY <1>0, <1>10, ElsewhereIs
  <2>2. k # j
    BY <2>1 DEF Busy
  <2> QED
    BY <1>2, <2>1, <2>2
<1>11. ASSUME NEW j \in Turn, Break(j)
       PROVE  turn'[k].phase = "new"
  <2>1. turn[j].phase \in {"sent", "open"} /\ \A i \in Turn \ {j} : turn'[i] = turn[i]
    BY <1>0, <1>11, BreakIs
  <2> QED
    BY <1>2, <1>3, <2>1
<1> QED
  BY <1>4, <1>5, <1>6, <1>7, <1>8, <1>9, <1>10, <1>11 DEF Next, Server, Uploads, User, Outside, vars

LEMMA NextLog ==
  ASSUME Basis, LogFits, [Next]_vars
  PROVE  LogFits'
<1>1. Onward /\ Types /\ TurnsFit
  BY NextOnward DEF Basis
<1>2. ASSUME NEW k \in Turn, Save(k) PROVE LogFits'
  BY <1>1, <1>2, SaveRows
<1>3. CASE UNCHANGED <<log, run>>
  BY <1>1, <1>3, RowsStay
<1>4. ASSUME NEW k \in Turn, Begin(k) \/ Dropped(k) \/ Token(k) \/ Finish(k) \/ Fail(k)
      PROVE  LogFits'
  <2>1. log' = log /\ \A j \in Turn : run'[j] = "saved" => run[j] = "saved"
    BY <1>1, <1>4 DEF Types, ServerTypes, Begin, Dropped, Token, Finish, Fail, server
  <2> QED
    BY <1>1, <2>1, RowsStay
<1>5. CASE Replies \/ Uploads \/ User \/ (\E k \in Turn : Deliver(k)) \/ UNCHANGED vars
  <2>1. UNCHANGED <<log, run>>
    BY <1>5 DEF Replies, Answer, Selected, LoadedMore, Removed, Uploads, Created, Uploaded, UploadFails,
                User, SelectTopic, LoadMore, Send, Cancel, RemoveTopic, Deliver, server, vars
  <2> QED
    BY <1>3, <2>1, Zenon
<1>6. ASSUME NEW k \in Turn, NEW t \in Topic, Elsewhere(k, t)
      PROVE  LogFits'
  <2>1. log' = log /\ \A j \in Turn : run'[j] = "saved" => run[j] = "saved"
    BY <1>1, <1>6, ElsewhereIs
  <2> QED
    BY <1>1, <2>1, RowsStay
<1>7. ASSUME NEW k \in Turn, Break(k)
      PROVE  LogFits'
  BY <1>1, <1>3, <1>7, BreakIs DEF server
<1> QED
  BY <1>2, <1>4, <1>5, <1>6, <1>7 DEF Next, Server, Outside

LEMMA NextOne ==
  ASSUME ~Switching, MaxRequests = 1, Basis, OneAtATime, [Next]_vars
  PROVE  OneAtATime'
<1>0. Types
  BY DEF Basis
<1>1. CASE \E k \in Turn, files \in BOOLEAN : Send(k, files)
  <2>1. PICK k \in Turn, files \in BOOLEAN : Send(k, files)
    BY <1>1
  <2>2. requests = {} /\ Rest /\ requests' = requests
    BY <2>1, Acts DEF Send
  <2>3. \A j \in Turn \ {k} : turn'[j] = turn[j]
    BY <1>0, <2>1 DEF Send, Types, ServerTypes
  <2> QED
    BY <2>2, <2>3 DEF OneAtATime, Rest, Busy
<1>2. CASE \A k \in Turn, files \in BOOLEAN : ~Send(k, files)
  <2>1. \A k \in Turn : Busy(turn', k) => Busy(turn, k)
    BY <1>2, BusyStays
  <2>2. \A j, k \in Turn : Busy(turn', j) /\ Busy(turn', k) => j = k
    BY <2>1 DEF OneAtATime
  <2>3. Rest => Rest'
    BY <2>1 DEF Rest
  <2> DEFINE One == /\ \A r, q \in requests' : r = q
                    /\ \A r \in requests' : r.kind \in {"select", "delete"} => Rest
  <2>4. One
    <3>1. CASE requests' \subseteq requests
      BY <3>1 DEF OneAtATime
    <3>2. ASSUME NEW r \in requests, Answer(r)
          PROVE  One
      <4>1. requests = {r}
        BY DEF OneAtATime
      <4>2. PICK q : requests' = (requests \ {r}) \cup {[r EXCEPT !.reply = q]}
        BY <3>2 DEF Answer
      <4>3. requests' = {[r EXCEPT !.reply = q]} /\ [r EXCEPT !.reply = q].kind = r.kind
        BY <1>0, <4>1, <4>2 DEF Types, LoadTypes, Requests
      <4> QED
        BY <4>3 DEF OneAtATime
    <3>3. ASSUME NEW t, SelectTopic(t) PROVE One
      <4>1. requests = {} /\ Rest
        BY <3>3, Acts DEF SelectTopic
      <4>2. CASE UNCHANGED requests
        BY <3>1, <4>2
      <4>3. CASE Ask("select", t, None)
        BY <1>0, <4>1, <4>3, AskOne
      <4> QED
        BY <3>3, <4>2, <4>3 DEF SelectTopic
    <3>4. ASSUME LoadMore PROVE One
      <4>1. requests' = {[kind |-> "more", topic |-> current, before |-> cursor, was |-> current, reply |-> None]}
        BY <1>0, <3>4, AskOne DEF LoadMore
      <4> QED
        BY <4>1
    <3>5. ASSUME NEW t, RemoveTopic(t) PROVE One
      <4>1. Rest /\ requests' = {[kind |-> "delete", topic |-> t, before |-> None, was |-> current, reply |-> None]}
        BY <1>0, <3>5, AskOne, Acts DEF RemoveTopic
      <4> QED
        BY <4>1
    <3>6. CASE Server \/ Uploads \/ Cancel \/ (\E k \in Turn : Deliver(k)) \/ UNCHANGED vars
      <4>1. requests' = requests
        BY <3>6 DEF Server, Begin, Dropped, Token, Finish, Save, Fail, Uploads, Created, Uploaded, UploadFails,
                    Cancel, Deliver, vars
      <4> QED
        BY <3>1, <4>1
    <3>7. ASSUME NEW r \in requests, Selected(r) \/ LoadedMore(r) \/ Removed(r)
          PROVE  One
      <4>1. requests' \subseteq requests
        BY <3>7 DEF Selected, LoadedMore, Removed
      <4> QED
        BY <3>1, <4>1
    <3>10. CASE Outside
      <4>1. requests' = requests
        BY <3>10 DEF Outside, Elsewhere, Break
      <4> QED
        BY <3>1, <4>1
    <3> HIDE DEF One
    <3>8. CASE Replies
      BY <3>2, <3>7, <3>8 DEF Replies
    <3>9. CASE User
      BY <1>2, <3>3, <3>4, <3>5, <3>6, <3>9 DEF User
    <3> QED
      BY <3>6, <3>8, <3>9, <3>10 DEF Next
  <2> QED
    BY <2>2, <2>3, <2>4 DEF OneAtATime
<1> QED
  BY <1>1, <1>2

LEMMA QuietAll ==
  ASSUME Onward, Rest \/ log' = log, NEW t
  PROVE  Quiet(t)
BY DEF Quiet, Onward, Rest

\* Older messages are asked for only of the topic on the screen.
LEMMA MoreRequest ==
  ASSUME Basis, Waits, NEW r \in requests, r.kind = "more"
  PROVE  /\ requests = {r} /\ ~Loading
         /\ r.topic = current /\ current \in Topic /\ current # None
         /\ r.before = cursor /\ cursor # None /\ cursor \in DOMAIN log /\ hasMore
         /\ \A k \in Turn : Busy(turn, k) => turn[k].topic = current
         /\ Good(log, turn, current, screen, TRUE, cursor)
         /\ Finished(turn, run, screen) /\ Known(turn, screen)
<1>1. requests = {r} /\ ~Loading
  BY DEF Waits, OneAtATime, Loading
<1>2. r.topic = current /\ current \in Topic /\ current # None /\ r.before = cursor /\ cursor # None /\ hasMore
  <2>1. r.topic \in Topic
    BY DEF Basis, Types, LoadTypes, Requests
  <2> QED
    BY <2>1, ChatAssumption DEF Waits, RequestFits
<1>3. Finished(turn, run, screen) /\ Known(turn, screen)
  BY <1>1 DEF Waits, ScreenFits
<1>4. ASSUME NEW k \in Turn, Busy(turn, k) PROVE turn[k].topic = current /\ TurnShown(k)
  <2>1. TurnShown(k)
    BY <1>4 DEF Waits, ScreenFits
  <2> QED
    BY <1>2, <2>1 DEF TurnShown, Naming
<1>5. Good(log, turn, current, screen, hasMore, cursor)
  <2>1. CASE Rest
    BY <1>1, <2>1 DEF Waits, ScreenFits
  <2>2. CASE ~Rest
    <3>1. PICK k \in Turn : Busy(turn, k)
      BY <2>2 DEF Rest
    <3> QED
      BY <1>4, <3>1 DEF TurnShown
  <2> QED
    BY <2>1, <2>2
<1>6. hasMore = TRUE
  BY <1>2 DEF Basis, Types, LoadTypes
<1>7. cursor \in DOMAIN log
  BY <1>2, <1>5 DEF Good, Since
<1> QED
  BY <1>1, <1>2, <1>3, <1>4, <1>5, <1>6, <1>7

\* A topic is selected or deleted while no turn is under way.
LEMMA CalmRequest ==
  ASSUME Waits, NEW r \in requests, r.kind \in {"select", "delete"}
  PROVE  requests = {r} /\ Rest
BY DEF Waits, OneAtATime

LEMMA RequestsStay ==
  ASSUME Basis, Waits, Onward, requests' \subseteq requests,
         requests # {} => UNCHANGED <<current, hasMore, cursor>> /\ topics \subseteq topics'
  PROVE  \A r \in requests' : RequestFits(r)'
<1>1. SUFFICES ASSUME NEW r \in requests, r \in requests' PROVE RequestFits(r)'
  OBVIOUS
<1>2. /\ RequestFits(r) /\ UNCHANGED <<current, hasMore, cursor>> /\ topics \subseteq topics'
      /\ Types /\ TurnsFit /\ r.topic \in Topic /\ r.kind \in {"select", "more", "delete"}
  BY <1>1 DEF Waits, Basis, Types, LoadTypes, Requests
<1>3. CASE r.kind = "select"
  <2>1. Rest
    BY <1>3, CalmRequest
  <2>2. Quiet(r.topic)
    BY <2>1, QuietAll
  <2>3. ASSUME r.reply # None
        PROVE  Calm(log', turn', run', r.topic, r.reply.messages, r.reply.has_more, r.reply.cursor)
    <3>1. Calm(log, turn, run, r.topic, r.reply.messages, r.reply.has_more, r.reply.cursor)
      BY <1>2, <1>3, <2>3 DEF RequestFits
    <3> QED
      BY <1>2, <2>2, <3>1, CalmOn
  <2> QED
    BY <1>2, <1>3, <2>3 DEF RequestFits
<1>4. CASE r.kind = "more"
  <2>1. r.before \in DOMAIN log /\ r.before # None
    BY <1>4, MoreRequest
  <2>2. Page(r.topic, r.before)' = Page(r.topic, r.before)
    BY <1>2, <2>1, PageStays
  <2> QED
    BY <1>2, <1>4, <2>2 DEF RequestFits
<1>5. CASE r.kind = "delete"
  BY <1>2, <1>5 DEF RequestFits
<1> QED
  BY <1>2, <1>3, <1>4, <1>5

\* What waits in the cache for the user to come back.
LEMMA CacheOn ==
  ASSUME Basis, Waits, Onward, NEW t \in Topic, cache[t] # None, t # current
  PROVE  Calm(log', turn', run', t, cache[t], FALSE, None)
<1>1. Quiet(t)
  <2>1. SUFFICES ASSUME NEW i \in DOMAIN log', i \notin DOMAIN log, log'[i].topic = t
                 PROVE  turn[log'[i].turn].unheard
    BY DEF Quiet
  <2>2. PICK k \in Turn : k = log'[i].turn /\ t = turn[k].topic /\ (turn[k].unheard \/ Busy(turn, k))
    BY <2>1 DEF Onward
  <2>3. CASE Busy(turn, k)
    <3>1. TurnShown(k)
      BY <2>3 DEF Waits, ScreenFits
    <3> QED
      BY <2>2, <3>1 DEF TurnShown, Naming
  <2> QED
    BY <2>2, <2>3
<1>2. Calm(log, turn, run, t, cache[t], FALSE, None)
  BY DEF Waits, CacheFits
<1> QED
  BY <1>1, <1>2, CalmOn DEF Basis

LEMMA CacheStays ==
  ASSUME Basis, Waits, Onward,
         \A t \in Topic : cache'[t] # None =>
           \/ cache'[t] = cache[t] /\ (t = current => t = current')
           \/ t = current' /\ Used(turn', t)
  PROVE  CacheFits'
<1>1. SUFFICES ASSUME NEW t \in Topic, cache'[t] # None
               PROVE  Used(turn', t) /\ (t # current' => Calm(log', turn', run', t, cache'[t], FALSE, None))
  BY DEF CacheFits
<1>2. CASE t = current' /\ Used(turn', t)
  BY <1>2
<1>3. CASE cache'[t] = cache[t] /\ (t = current => t = current')
  <2>1. Used(turn, t)
    BY <1>1, <1>3 DEF Waits, CacheFits
  <2>2. Used(turn', t)
    BY <2>1, UsedOn
  <2> QED
    BY <1>1, <1>3, <2>2, CacheOn
<1> QED
  BY <1>1, <1>2, <1>3

LEMMA UsedStays ==
  ASSUME Basis, Waits, Onward, current' \in {None, current} \cup topics \/ Used(turn', current'),
         \A t \in topics' : t \in topics \/ Used(turn', t)
  PROVE  UsedFits'
<1>1. /\ topics \subseteq Topic /\ current \in Topic \cup {None}
      /\ (\A t \in topics : Used(turn, t)) /\ (current # None => Used(turn, current))
  BY DEF Basis, Types, ServerTypes, ScreenTypes, Waits, UsedFits
<1>2. \A t \in topics : Used(turn', t)
  BY <1>1, UsedOn
<1>3. current # None => Used(turn', current)
  BY <1>1, UsedOn
<1>4. \A t \in topics' : Used(turn', t)
  BY <1>2
<1>5. current' # None => Used(turn', current')
  BY <1>2, <1>3
<1> QED
  BY <1>4, <1>5 DEF UsedFits

\* Answers stay finished: a message that is no longer busy was finished, or is.
LEMMA FinishedOn ==
  ASSUME Types, Onward, NEW s, NEW s2, SameTurns(s, s2), Known(turn, s), Finished(turn, run, s),
         \A n \in DOMAIN s : s[n].turn \in Turn /\ Over(turn, s[n].turn) /\ s[n].status = "done" =>
           s2[n].status = "done" /\ s2[n].text = s[n].text,
         \A n \in DOMAIN s : LET k == s[n].turn IN
           /\ k \in Turn /\ Busy(turn, k) /\ Over(turn', k) /\ s[n].role = "assistant"
           /\ run'[k] = "saved" /\ ~turn'[k].unheard
           => s2[n].status = "done" /\ s2[n].text = Tokens
  PROVE  Finished(turn', run', s2)
<1>1. SUFFICES ASSUME NEW n \in DOMAIN s, NEW k \in Turn, k = s[n].turn, s[n].role = "assistant",
                      Over(turn', k), run'[k] = "saved", ~turn'[k].unheard
               PROVE  s2[n].status = "done" /\ s2[n].text = Tokens
  BY DEF Finished, SameTurns
<1>2. Busy(turn, k) \/ Over(turn, k)
  BY <1>1, OverOrBusy DEF Known
<1>3. CASE Busy(turn, k)
  BY <1>1, <1>3
<1>4. CASE Over(turn, k)
  <2>1. ~turn[k].unheard /\ run[k] = "saved"
    BY <1>1, <1>4, OverOrBusy DEF Onward, TurnOn
  <2>2. s[n].status = "done" /\ s[n].text = Tokens
    BY <1>1, <1>4, <2>1 DEF Finished
  <2> QED
    BY <1>1, <1>4, <2>2
<1> QED
  BY <1>2, <1>3, <1>4

\* The same messages, and what was done is as it was.
Touched(s, s2) ==
  /\ SameTurns(s, s2) /\ Len(s2) = Len(s)
  /\ \A n \in DOMAIN s : /\ s2[n].live = s[n].live
                         /\ s[n].status = "done" => s2[n].status = "done" /\ s2[n].text = s[n].text

LEMMA Untouched ==
  ASSUME NEW s
  PROVE  Touched(s, s)
BY DEF Touched, SameTurns

\* The screen in a step that shows nothing of a turn that is under way.
LEMMA ScreenStays ==
  ASSUME Basis, Waits, Onward, UNCHANGED <<current, hasMore, cursor, cache>>, Touched(screen, screen'),
         Loading => Loading',
         \A k \in Turn :
           /\ turn'[k].topic = turn[k].topic
           /\ Busy(turn', k) <=> Busy(turn, k)
           /\ Busy(turn, k) => Quiet(turn[k].topic) /\ (Heard(k)' => Heard(k)) /\ (Naming(k) => Naming(k)')
  PROVE  ScreenFits'
<1>1. SameTurns(screen, screen') /\ Types /\ TurnsFit /\ Known(turn, screen)
  BY DEF Touched, Basis, Waits, ScreenFits
<1>2. Known(turn', screen')
  BY <1>1, KnownOn
<1>3. \A t : \A j \in Turn : turn[j].topic = t => HomeAt(log', turn', t, j)
  BY DEF HomeAt
<1>4. ASSUME ~Loading' PROVE Finished(turn', run', screen')
  <2>1. Finished(turn, run, screen)
    BY <1>4 DEF Waits, ScreenFits
  <2>2. \A k \in Turn : ~(Busy(turn, k) /\ Over(turn', k))
    BY DEF Over, Busy
  <2> QED
    BY <1>1, <2>1, <2>2, FinishedOn DEF Touched
<1>5. ASSUME ~Loading', Rest' PROVE Good(log', turn', current, screen', hasMore, cursor)
  <2>1. Rest /\ ~Loading
    BY <1>5 DEF Rest
  <2>2. Quiet(current) /\ Good(log, turn, current, screen, hasMore, cursor)
    BY <2>1, QuietAll DEF Waits, ScreenFits
  <2> QED
    BY <1>1, <1>3, <2>2, GoodOn
<1>6. ASSUME NEW k \in Turn, Busy(turn', k) PROVE TurnShown(k)'
  <2>1. TurnShown(k) /\ Quiet(turn[k].topic)
    BY <1>6 DEF Waits, ScreenFits
  <2>2. Good(log', turn', turn[k].topic, screen', hasMore, cursor)
    <3>1. Good(log, turn, turn[k].topic, screen, hasMore, cursor)
      BY <2>1 DEF TurnShown
    <3> QED
      BY <1>1, <1>3, <2>1, <3>1, GoodOn
  <2>3. /\ AtEnd(k, screen')
        /\ screen[Len(screen)].status = "done" /\ screen[Len(screen)].text = Tokens =>
             screen'[Len(screen')].status = "done" /\ screen'[Len(screen')].text = Tokens
    <3>1. /\ AtEnd(k, screen) /\ Len(screen) \in Nat /\ DOMAIN screen = 1..Len(screen)
          /\ Len(screen) \in DOMAIN screen /\ Len(screen) - 1 \in DOMAIN screen
      BY <1>1, <2>1 DEF TurnShown, AtEnd, Types, ScreenTypes
    <3> QED
      BY <3>1 DEF AtEnd, Touched, SameTurns
  <2> QED
    BY <1>6, <2>1, <2>2, <2>3 DEF TurnShown
<1> QED
  BY <1>2, <1>4, <1>5, <1>6 DEF ScreenFits

\* The screen in a step of the turn that is under way.
LEMMA ScreenGoes ==
  ASSUME Basis, Basis', Waits, Onward, NEW k \in Turn, Busy(turn, k),
         \A j \in Turn \ {k} : turn'[j] = turn[j],
         SameTurns(screen, screen'), Loading' => Loading,
         \A n \in DOMAIN screen : screen[n].turn # k /\ screen[n].status = "done" =>
           screen'[n].status = "done" /\ screen'[n].text = screen[n].text,
         Busy(turn', k) => TurnShown(k)',
         Over(turn', k) =>
           /\ Good(log', turn', current', screen', hasMore', cursor')
           /\ run'[k] = "saved" /\ ~turn'[k].unheard =>
                \A n \in DOMAIN screen : screen[n].turn = k /\ screen[n].role = "assistant" =>
                  screen'[n].status = "done" /\ screen'[n].text = Tokens
  PROVE  ScreenFits'
<1>1. Types /\ Known(turn, screen)
  BY DEF Basis, Waits, ScreenFits
<1>2. \A j \in Turn \ {k} : ~Busy(turn, j) /\ ~Busy(turn', j)
  BY DEF Waits, OneAtATime, Busy
<1>3. ~Loading
  BY DEF Waits, OneAtATime, Loading, Rest
<1>4. Known(turn', screen')
  BY <1>1, KnownOn
<1>5. Finished(turn', run', screen')
  <2>1. Finished(turn, run, screen)
    BY <1>3 DEF Waits, ScreenFits
  <2>2. ~Over(turn, k)
    BY <1>1, OverOrBusy
  <2> QED
    BY <1>1, <1>2, <2>1, <2>2, FinishedOn
<1>6. turn[k].phase # "new" /\ turn'[k].phase # "new"
  BY DEF Busy, Onward, TurnOn
<1>7. ASSUME Rest' PROVE Over(turn', k)
  <2>1. turn'[k].phase \in Phases
    BY DEF Basis, Types, ServerTypes, Turns
  <2> QED
    BY <1>6, <1>7, <2>1 DEF Rest, Over, Busy, Phases
<1> QED
  BY <1>2, <1>4, <1>5, <1>7 DEF ScreenFits

-----------------------------------------------------------------------------
(* The steps of the server, for a user who waits.                          *)

LEMMA WireGrows ==
  ASSUME Types, NEW k \in Turn, NEW e \in Events, Emit(k, <<e>>)
  PROVE  /\ \A x : Has(wire[k], x) => Has(wire'[k], x)
         /\ wire[k] # <<>> => wire'[k] # <<>> /\ wire'[k][1] = wire[k][1]
         /\ turn[k].phase = "open" => Has(wire'[k], e)
         /\ \A j \in Turn \ {k} : wire'[j] = wire[j]
<1>1. wire \in [Turn -> Seq(Events)] /\ wire[k] \in Seq(Events)
  BY DEF Types, ServerTypes
<1>2. /\ \A j \in Turn \ {k} : wire'[j] = wire[j]
      /\ turn[k].phase = "open" => wire'[k] = wire[k] \o <<e>>
      /\ turn[k].phase # "open" => wire'[k] = wire[k]
  BY <1>1, EventsGrow
<1>3. CASE turn[k].phase # "open"
  BY <1>2, <1>3
<1>4. CASE turn[k].phase = "open"
  <2>1. /\ Len(wire[k]) \in Nat /\ DOMAIN wire[k] = 1..Len(wire[k]) /\ DOMAIN wire'[k] = 1..Len(wire[k]) + 1
        /\ \A i \in 1..Len(wire[k]) : wire'[k][i] = wire[k][i]
        /\ wire'[k][Len(wire[k]) + 1] = e /\ Len(wire'[k]) = Len(wire[k]) + 1
    BY <1>1, <1>2, <1>4, Appended
  <2>2. wire[k] # <<>> => 1 \in 1..Len(wire[k])
    BY <1>1, <2>1, EmptySeq
  <2>3. wire'[k] # <<>>
    BY <2>1
  <2>4. Len(wire[k]) + 1 \in DOMAIN wire'[k]
    BY <2>1
  <2>5. \A i \in DOMAIN wire[k] : i \in DOMAIN wire'[k] /\ wire'[k][i] = wire[k][i]
    BY <2>1
  <2> QED
    BY <1>2, <2>1, <2>2, <2>3, <2>4, <2>5 DEF Has
<1> QED
  BY <1>3, <1>4

\* The name of a topic is still on its way.
LEMMA NamingStays ==
  ASSUME NEW k \in Turn, Naming(k), UNCHANGED <<current, cache>>, turn'[k].target = turn[k].target,
         turn'[k].phase = turn[k].phase,
         wire'[k] # <<>>, wire'[k][1] = wire[k][1], SameTurns(screen, screen'),
         \A j \in Turn : turn'[j].topic = turn[j].topic
  PROVE  Naming(k)'
BY DEF Naming, SameTurns

LEMMA RunShows ==
  ASSUME Basis, Waits, NEW k \in Turn, Token(k) \/ Finish(k) \/ Fail(k) \/ (Save(k) /\ ~Busy(turn, k))
  PROVE  ScreenFits'
<1>1. /\ Types /\ TurnsFit /\ TurnFits(k) /\ Onward
      /\ turn \in [Turn -> Turns] /\ turn[k] \in Turns /\ run \in [Turn -> Runs]
  BY ServerOnward DEF Basis, Types, ServerTypes, TurnsFit
<1>2. UNCHANGED <<view, requests>>
  BY DEF Token, Finish, Fail, Save
<1>3. PICK e \in Events : Emit(k, <<e>>)
  BY DEF Token, Finish, Fail, Save, Events
<1>4. /\ \A j \in Turn : /\ turn'[j].topic = turn[j].topic /\ turn'[j].target = turn[j].target
                         /\ turn'[j].phase = turn[j].phase /\ turn'[j].unheard = turn[j].unheard
      /\ \A j \in Turn \ {k} : run'[j] = run[j] /\ wire'[j] = wire[j]
  <2>1. \A j \in Turn \ {k} : run'[j] = run[j] /\ wire'[j] = wire[j]
    BY <1>1, <1>3, WireGrows DEF Token, Finish, Fail, Save, server
  <2>2. CASE Token(k)
    BY <1>1, <2>1, <2>2 DEF Token, Turns
  <2>3. CASE Finish(k) \/ Fail(k) \/ Save(k)
    BY <2>1, <2>3 DEF Finish, Fail, Save
  <2> QED
    BY <2>2, <2>3
<1>5. ASSUME NEW t PROVE Quiet(t)
  <2>1. CASE log' = log
    BY <2>1, <1>1, QuietAll
  <2>2. CASE log' # log
    <3>1. Save(k) /\ ~Busy(turn, k)
      BY <2>2 DEF Token, Finish, Fail, server
    <3>2. turn[k].unheard
      BY <1>1, <3>1, ChatAssumption DEF TurnFits, Busy, Save
    <3>3. log \in Seq(Rows) /\ Len(log) \in Nat /\ DOMAIN log = 1..Len(log)
      BY <1>1 DEF Types, ServerTypes
    <3>4. /\ DOMAIN log' = 1..Len(log) + 2
          /\ log'[Len(log) + 1].turn = k /\ log'[Len(log) + 2].turn = k
      <4>1. /\ log' \in Seq(Rows) /\ Len(log') = Len(log) + 2
            /\ log'[Len(log) + 1] = [topic |-> turn[k].topic, turn |-> k, role |-> "user"]
            /\ log'[Len(log) + 2] = [topic |-> turn[k].topic, turn |-> k, role |-> "assistant"]
        BY <1>1, <3>1, SaveGrows DEF NewRows
      <4> QED
        BY <4>1
    <3>5. ASSUME NEW i \in DOMAIN log', i \notin DOMAIN log PROVE log'[i].turn = k
      <4>1. i = Len(log) + 1 \/ i = Len(log) + 2
        BY <3>3, <3>4, <3>5
      <4> QED
        BY <3>4, <4>1
    <3> QED
      BY <3>2, <3>5 DEF Quiet
  <2> QED
    BY <2>1, <2>2
<1>6. ASSUME NEW j \in Turn, Busy(turn, j)
      PROVE  (Heard(j)' => Heard(j)) /\ (Naming(j) => Naming(j)')
  <2>1. CASE j # k
    BY <1>2, <1>4, <2>1, NamingStays DEF Heard, Has, view, Naming, SameTurns
  <2>2. CASE j = k
    <3>1. Naming(k) => Naming(k)'
      BY <1>1, <1>2, <1>3, <1>4, WireGrows, NamingStays DEF view, Naming, SameTurns
    <3>2. ~Heard(k)'
      <4>1. CASE Finish(k)
        <5>1. turn[k].phase = "open"
          BY <1>1, <1>6, <2>2, <4>1, ChatAssumption DEF Finish, TurnFits, Busy
        <5>2. Emit(k, <<"done">>) /\ "done" \in Events
          BY <4>1 DEF Finish, Events
        <5>3. Has(wire'[k], "done")
          BY <1>1, <5>1, <5>2, WireGrows
        <5> QED
          BY <5>3 DEF Heard
      <4>2. CASE Token(k) \/ Fail(k)
        <5>1. run'[k] \in {"running", "failed"}
          BY <1>1, <4>2 DEF Token, Fail, server
        <5> QED
          BY <5>1 DEF Heard
      <4> QED
        BY <1>6, <2>2, <4>1, <4>2
    <3> QED
      BY <2>2, <3>1, <3>2
  <2> QED
    BY <2>1, <2>2
<1>7. \A j \in Turn : Busy(turn', j) <=> Busy(turn, j)
  BY <1>4 DEF Busy
<1>8. Loading' = Loading
  BY <1>2 DEF Loading
<1> QED
  BY <1>1, <1>2, <1>4, <1>5, <1>6, <1>7, <1>8, ScreenStays, Untouched DEF view

LEMMA SaveShows ==
  ASSUME Basis, Basis', Waits, NEW k \in Turn, Save(k), Busy(turn, k)
  PROVE  ScreenFits'
<1>1. /\ Types /\ TurnsFit /\ TurnFits(k) /\ Onward /\ run \in [Turn -> Runs] /\ LogFits
      /\ TurnShown(k) /\ screen \in Seq(Message) /\ log \in Seq(Rows)
  BY ServerOnward DEF Basis, Types, ServerTypes, ScreenTypes, TurnsFit, Waits, ScreenFits
<1>2. UNCHANGED <<view, requests, turn>> /\ run[k] = "answered" /\ run' = [run EXCEPT ![k] = "saved"]
      /\ Emit(k, <<"exit0">>) /\ "exit0" \in Events
  BY DEF Save, Events
<1>3. turn[k].phase = "open"
  BY <1>1, <1>2, ChatAssumption DEF TurnFits, Busy
<1>4. /\ Has(wire[k], "done") => Has(wire'[k], "done")
      /\ wire[k] # <<>> => wire'[k] # <<>> /\ wire'[k][1] = wire[k][1]
  BY <1>1, <1>2, WireGrows
<1>5. Good(log', turn', turn[k].topic, screen, hasMore, cursor)
  <2>1. /\ Len(log') = Len(log) + 2 /\ Grows(log, log')
        /\ log'[Len(log) + 1] = [topic |-> turn[k].topic, turn |-> k, role |-> "user"]
        /\ log'[Len(log) + 2] = [topic |-> turn[k].topic, turn |-> k, role |-> "assistant"]
    BY <1>1, SaveGrows DEF NewRows, Onward
  <2>2. \A i \in DOMAIN log : log[i].turn # k
    BY <1>1, SaveRows
  <2>3. Good(log, turn, turn[k].topic, screen, hasMore, cursor) /\ AtEnd(k, screen)
    BY <1>1 DEF TurnShown
  <2>4. Good(log', turn, turn[k].topic, screen, hasMore, cursor)
    BY <1>1, <2>1, <2>2, <2>3, GoodSaves
  <2> QED
    BY <1>2, <2>4
<1>6. TurnShown(k)'
  <2>1. Heard(k)' => Heard(k)
    BY <1>2, <1>4 DEF Heard
  <2>2. Naming(k) => Naming(k)'
    BY <1>2, <1>4, NamingStays DEF Naming, view, SameTurns
  <2> QED
    BY <1>1, <1>2, <1>5, <2>1, <2>2 DEF TurnShown, view
<1>7. SameTurns(screen, screen') /\ Loading' = Loading /\ ~Over(turn', k)
  BY <1>2, <1>3 DEF SameTurns, Loading, Over, view
<1> QED
  BY <1>1, <1>2, <1>6, <1>7, ScreenGoes DEF view

\* A topic is made for the message under way.
LEMMA Named ==
  ASSUME Basis, Waits, Onward, NEW k \in Turn, Busy(turn, k), turn[k].topic = None,
         Unused # {}, turn'[k].topic = Fresh, log' = log, \A j \in Turn \ {k} : turn'[j] = turn[j]
  PROVE  /\ current = None /\ cache[Fresh] = None /\ Fresh \notin Old /\ Fresh \in Topic
         /\ Good(log, turn, None, screen, hasMore, cursor)
         /\ Good(log', turn', Fresh, screen, hasMore, cursor)
         /\ \A j \in Turn \ {k} : turn'[j].topic # Fresh
<1>1. /\ Types /\ TurnFits(k) /\ LogFits /\ TurnShown(k) /\ Known(turn, screen)
      /\ \A j \in Turn : TurnFits(j) /\ turn[j] \in Turns
      /\ \A j \in Turn \ {k} : ~Busy(turn, j)
  BY DEF Basis, Types, ServerTypes, TurnsFit, Waits, OneAtATime, ScreenFits
<1>2. current = None /\ Good(log, turn, None, screen, hasMore, cursor)
  <2>1. ~Naming(k)
    BY <1>1 DEF Naming, TurnFits
  <2> QED
    BY <1>1, <2>1 DEF TurnShown
<1>3. /\ Fresh \in Topic /\ Fresh # None /\ Fresh \notin Old
      /\ \A j \in Turn : turn[j].topic # Fresh
  BY FreshIs
<1>4. cache[Fresh] = None
  BY <1>3 DEF Waits, CacheFits, Used
<1> HIDE DEF Fresh
<1>5. \A i \in DOMAIN log : log[i].topic # Fresh /\ log[i].topic # None
  <2>1. SUFFICES ASSUME NEW i \in DOMAIN log PROVE log[i].topic # Fresh /\ log[i].topic # None
    OBVIOUS
  <2>2. log[i] \in Rows
    BY <1>1 DEF Types, ServerTypes
  <2>3. log[i].topic # None /\ (log[i].turn \in Turn \/ log[i].turn \in Past)
    BY <2>2, ChatAssumption DEF Rows
  <2> QED
    BY <1>1, <1>3, <2>3 DEF LogFits
<1>6. Visible(log', turn', Fresh) = {}
  BY <1>5 DEF Visible
<1>7. ASSUME NEW n \in DOMAIN screen, HomeAt(log, turn, None, screen[n].turn)
      PROVE  HomeAt(log', turn', Fresh, screen[n].turn)
  <2>1. PICK j : j = screen[n].turn
    OBVIOUS
  <2>2. CASE j = None
    BY <2>1, <2>2 DEF HomeAt
  <2>3. CASE Lost(turn, j)
    <3>1. j \in Turn /\ turn[j].phase # "new" /\ TurnOn(j)
      BY <1>1, <2>1, <2>3 DEF Lost, Known, Onward
    <3>2. Lost(turn', j)
      BY <2>3, <3>1 DEF Lost, TurnOn
    <3> QED
      BY <2>1, <3>2 DEF HomeAt
  <2>4. CASE j \in Turn /\ turn[j].topic = None /\ j # k
    <3>1. turn[j].phase \in {"over", "failed", "dropped"}
      BY <1>1, <2>1, <2>4, OverOrBusy DEF Known, Over
    <3>2. turn[j].target = None /\ (turn[j].phase = "failed" \/ turn[j].unheard)
      BY <1>1, <2>4, <3>1 DEF TurnFits
    <3>3. Lost(turn', j)
      BY <2>4, <3>2 DEF Lost
    <3> QED
      BY <2>1, <3>3 DEF HomeAt
  <2>5. CASE j = k
    BY <2>1, <2>5 DEF HomeAt
  <2> QED
    BY <1>5, <1>7, <2>1, <2>2, <2>3, <2>4, <2>5 DEF HomeAt
<1>8. Good(log', turn', Fresh, screen, hasMore, cursor)
  <2>1. Grows(log, log') /\ SameTurns(screen, screen)
    BY DEF Onward, SameTurns
  <2> QED
    BY <1>2, <1>6, <1>7, <2>1, GoodStays
<1> QED
  BY <1>2, <1>3, <1>4, <1>8

LEMMA BeginShows ==
  ASSUME Basis, Basis', Waits, NEW k \in Turn, Begin(k)
  PROVE  ScreenFits'
<1>1. /\ Types /\ TurnsFit /\ TurnFits(k) /\ Onward /\ turn[k].phase = "sent" /\ Busy(turn, k) /\ run[k] = None
      /\ turn[k] \in Turns /\ turn \in [Turn -> Turns] /\ run \in [Turn -> Runs] /\ TurnFits(k)'
  BY ServerOnward DEF Basis, Types, ServerTypes, TurnsFit, Begin, Busy, TurnFits
<1>2. TurnShown(k) /\ ~Naming(k) /\ current = turn[k].topic /\ Good(log, turn, current, screen, hasMore, cursor)
  BY <1>1 DEF Waits, ScreenFits, TurnShown, Naming
<1>3. UNCHANGED <<log, requests, view>> /\ SameTurns(screen, screen') /\ Loading' = Loading
  BY DEF Begin, SameTurns, view, Loading
<1>4. \A j \in Turn \ {k} : turn'[j] = turn[j]
  BY <1>1 DEF Begin
<1>5. run'[k] \in {"refused", "running"}
  BY <1>1 DEF Begin
<1>6. ~Heard(k)'
  BY <1>5 DEF Heard
<1>7. Quiet(current)
  BY <1>1, <1>3, QuietAll
<1> DEFINE phase == IF turn[k].unheard THEN "over" ELSE "open"
<1>8. /\ turn[k].unheard => phase = "over"
      /\ ~turn[k].unheard => phase = "open"
  OBVIOUS
<1>9. CASE turn[k].topic # None
  <2>1. turn' = [turn EXCEPT ![k].phase = phase]
    BY <1>9 DEF Begin
  <2> HIDE DEF phase
  <2>2. turn'[k].phase = phase /\ turn'[k].unheard = turn[k].unheard /\ turn'[k].topic = turn[k].topic
    BY <1>1, <2>1 DEF Turns
  <2>3. current \in Topic
    BY <1>1, <1>2, <1>9 DEF Turns
  <2>4. Good(log', turn', current, screen', hasMore, cursor)
    BY <1>1, <1>2, <1>3, <1>7, <2>3, GoodOn
  <2>5. Good(log', turn', current', screen', hasMore', cursor')
    BY <1>3, <2>4 DEF view
  <2>6. TurnShown(k)'
    BY <1>2, <1>3, <1>6, <2>2, <2>5 DEF TurnShown, view
  <2>7. Over(turn', k) => turn'[k].unheard
    BY <1>8, <2>2 DEF Over
  <2> QED
    BY <1>1, <1>3, <1>4, <2>5, <2>6, <2>7, ScreenGoes DEF view
<1>10. CASE turn[k].topic = None
  <2>1. /\ turn' = [turn EXCEPT ![k].phase = phase, ![k].topic = Fresh] /\ Unused # {}
        /\ ~turn[k].unheard => wire' = [wire EXCEPT ![k] = <<"info">>]
    BY <1>10 DEF Begin
  <2> HIDE DEF phase, Fresh
  <2>2. /\ turn'[k].phase = phase /\ turn'[k].unheard = turn[k].unheard /\ turn'[k].topic = Fresh
        /\ turn'[k].target = turn[k].target /\ turn[k].target = None
    BY <1>1, <1>10, <2>1 DEF Turns, TurnFits
  <2>3. /\ current = None /\ cache[Fresh] = None /\ Fresh \notin Old /\ Fresh \in Topic
        /\ Good(log', turn', Fresh, screen, hasMore, cursor)
        /\ \A j \in Turn \ {k} : turn'[j].topic # Fresh
    BY <1>1, <1>3, <1>4, <1>10, <2>1, <2>2, Named
  <2>4. Busy(turn', k) => TurnShown(k)'
    <3>1. SUFFICES ASSUME Busy(turn', k) PROVE TurnShown(k)'
      OBVIOUS
    <3>2. ~turn[k].unheard /\ turn'[k].phase = "open"
      BY <1>8, <2>2, <3>1 DEF Busy
    <3>3. wire'[k] # <<>> /\ wire'[k][1] = "info"
      BY <1>1, <2>1, <3>2 DEF Types, ServerTypes
    <3>4. Naming(k)'
      BY <1>3, <2>2, <2>3, <3>2, <3>3 DEF Naming, view
    <3> QED
      BY <1>2, <1>3, <1>6, <2>2, <2>3, <3>4 DEF TurnShown, view
  <2>5. Over(turn', k) => turn'[k].unheard /\ Good(log', turn', current', screen', hasMore', cursor')
    <3>1. SUFFICES ASSUME Over(turn', k)
                   PROVE  turn'[k].unheard /\ Good(log', turn', current', screen', hasMore', cursor')
      OBVIOUS
    <3>2. turn'[k].unheard
      BY <1>8, <2>2, <3>1 DEF Over
    <3>3. Lost(turn', k)
      BY <2>2, <3>2 DEF Lost
    <3>4. \A j \in Turn : turn[j].topic = current => HomeAt(log', turn', current, j)
      BY <1>4, <3>3 DEF HomeAt
    <3>5. Good(log', turn', current, screen', hasMore, cursor)
      BY <1>1, <1>2, <1>3, <1>7, <3>4, GoodOn
    <3> QED
      BY <1>3, <3>2, <3>5 DEF view
  <2> QED
    BY <1>1, <1>3, <1>4, <2>4, <2>5, ScreenGoes DEF view
<1> QED
  BY <1>9, <1>10

LEMMA DroppedShows ==
  ASSUME Basis, Basis', Waits, NEW k \in Turn, Dropped(k)
  PROVE  ScreenFits'
<1>1. /\ Types /\ TurnsFit /\ TurnFits(k) /\ Onward /\ turn[k].phase = "sent" /\ Busy(turn, k)
      /\ turn[k] \in Turns /\ turn \in [Turn -> Turns]
  BY ServerOnward DEF Basis, Types, ServerTypes, TurnsFit, Dropped, Busy
<1>2. current = turn[k].topic /\ Good(log, turn, current, screen, hasMore, cursor)
  BY <1>1 DEF Waits, ScreenFits, TurnShown, Naming
<1>3. UNCHANGED <<log, requests, view>> /\ SameTurns(screen, screen') /\ Loading' = Loading
  BY DEF Dropped, SameTurns, view, server, Loading
<1>4. /\ turn[k].unheard /\ turn'[k].unheard /\ turn'[k].phase = "dropped"
      /\ \A j \in Turn : turn'[j].topic = turn[j].topic
      /\ \A j \in Turn \ {k} : turn'[j] = turn[j]
  BY <1>1 DEF Dropped, Turns
<1>5. Quiet(current) /\ \A j \in Turn : turn[j].topic = current => HomeAt(log', turn', current, j)
  BY <1>1, <1>3, <1>4, QuietAll DEF HomeAt
<1>6. Good(log', turn', current, screen', hasMore, cursor)
  BY <1>1, <1>2, <1>3, <1>5, GoodOn
<1>7. ~Busy(turn', k)
  BY <1>4 DEF Busy
<1> QED
  BY <1>1, <1>3, <1>4, <1>6, <1>7, ScreenGoes DEF view

-----------------------------------------------------------------------------
(* Uploads, for a user who waits.                                          *)

\* updateAssistant touches the answer of its own turn only.
LEMMA UpdatedIs ==
  ASSUME NEW k \in Turn, NEW status, NEW text, Types
  PROVE  /\ SameTurns(screen, Updated(k, status, text))
         /\ \A n \in DOMAIN screen : /\ Updated(k, status, text)[n].live = screen[n].live
                                     /\ screen[n].turn # k => Updated(k, status, text)[n] = screen[n]
         /\ \A n \in DOMAIN screen :
              screen[n].turn = k /\ screen[n].role = "assistant" /\ screen[n].live =>
                /\ Updated(k, status, text)[n].text = text
                /\ status # None => Updated(k, status, text)[n].status = status
<1>1. \A n \in DOMAIN screen : screen[n] \in Message
  BY DEF Types, ScreenTypes
<1>2. \A n \in DOMAIN screen :
        IF screen[n].turn = k /\ screen[n].role = "assistant" /\ screen[n].live
          THEN Updated(k, status, text)[n] =
                 [screen[n] EXCEPT !.status = IF status = None THEN @ ELSE status, !.text = text]
          ELSE Updated(k, status, text)[n] = screen[n]
  BY DEF Updated
<1>3. DOMAIN Updated(k, status, text) = DOMAIN screen
  BY DEF Updated
<1> HIDE DEF Updated
<1>4. ASSUME NEW n \in DOMAIN screen
      PROVE  /\ Updated(k, status, text)[n].turn = screen[n].turn
             /\ Updated(k, status, text)[n].role = screen[n].role
             /\ Updated(k, status, text)[n].live = screen[n].live
             /\ screen[n].turn # k => Updated(k, status, text)[n] = screen[n]
             /\ screen[n].turn = k /\ screen[n].role = "assistant" /\ screen[n].live =>
                  /\ Updated(k, status, text)[n].text = text
                  /\ status # None => Updated(k, status, text)[n].status = status
  <2>1. CASE screen[n].turn = k /\ screen[n].role = "assistant" /\ screen[n].live
    <3>1. Updated(k, status, text)[n] =
            [screen[n] EXCEPT !.status = IF status = None THEN @ ELSE status, !.text = text]
      BY <1>2, <2>1
    <3> QED
      BY <1>1, <2>1, <3>1, ZenonT(40) DEF Message
  <2>2. CASE ~(screen[n].turn = k /\ screen[n].role = "assistant" /\ screen[n].live)
    BY <1>2, <2>2
  <2> QED
    BY <2>1, <2>2
<1> QED
  BY <1>3, <1>4 DEF SameTurns

LEMMA CreatedShows ==
  ASSUME Basis, Basis', Waits, NEW k \in Turn, Created(k)
  PROVE  ScreenFits' /\ requests = {} /\ current = None /\ Fresh \in Topic
<1>1. /\ Types /\ TurnFits(k) /\ Onward /\ turn[k].phase = "create" /\ Busy(turn, k) /\ turn[k].topic = None
      /\ turn'[k].topic = Fresh /\ turn'[k].phase = "upload" /\ Unused # {} /\ current' = Fresh
      /\ UNCHANGED <<run, log, wire, requests, screen, hasMore, cursor, cache>> /\ TurnFits(k)'
      /\ \A j \in Turn \ {k} : turn'[j] = turn[j]
  BY UploadsOnward DEF Basis, TurnsFit, TurnFits, Created, Busy
<1>2. /\ current = None /\ cache[Fresh] = None /\ Fresh \notin Old /\ Fresh \in Topic
      /\ Good(log', turn', Fresh, screen, hasMore, cursor)
  BY <1>1, Named
<1>3. requests = {}
  <2>1. SUFFICES ASSUME NEW r \in requests PROVE FALSE
    OBVIOUS
  <2>2. r.kind = "more"
    BY <1>1, CalmRequest DEF Basis, Types, LoadTypes, Requests, Rest
  <2> QED
    BY <1>2, <2>2, MoreRequest
<1>4. TurnShown(k)'
  <2>1. ~Heard(k)'
    BY <1>1, ChatAssumption DEF Heard, TurnFits
  <2>2. AtEnd(k, screen)
    BY <1>1 DEF Waits, ScreenFits, TurnShown
  <2> QED
    BY <1>1, <1>2, <2>1, <2>2 DEF TurnShown
<1>5. SameTurns(screen, screen') /\ Loading' = Loading /\ ~Over(turn', k)
  BY <1>1 DEF SameTurns, Loading, Over
<1> QED
  BY <1>1, <1>2, <1>3, <1>4, <1>5, ScreenGoes

LEMMA UploadedShows ==
  ASSUME Basis, Basis', Waits, NEW k \in Turn, Uploaded(k)
  PROVE  ScreenFits'
<1>1. /\ Types /\ TurnsFit /\ Onward /\ turn[k].phase = "upload" /\ Busy(turn, k)
      /\ turn'[k].topic = turn[k].topic /\ turn'[k].phase = "sent"
      /\ UNCHANGED <<run, log, wire, requests, screen, current, hasMore, cursor, cache>> /\ TurnFits(k)'
      /\ \A j \in Turn \ {k} : turn'[j] = turn[j]
  BY UploadsOnward DEF Basis, TurnsFit, Uploaded, Created, UploadFails, Busy
<1>2. TurnShown(k) /\ current = turn[k].topic /\ Good(log, turn, current, screen, hasMore, cursor)
  BY <1>1 DEF Waits, ScreenFits, TurnShown, Naming
<1>3. Good(log', turn', current, screen, hasMore, cursor)
  <2>1. Quiet(current) /\ \A j \in Turn : turn[j].topic = current => HomeAt(log', turn', current, j)
    BY <1>1, QuietAll DEF HomeAt
  <2> QED
    BY <1>1, <1>2, <2>1, GoodOn DEF SameTurns
<1>4. TurnShown(k)'
  <2>1. ~Heard(k)'
    BY <1>1, ChatAssumption DEF Heard, TurnFits
  <2> QED
    BY <1>1, <1>2, <1>3, <2>1 DEF TurnShown
<1>5. SameTurns(screen, screen') /\ Loading' = Loading /\ ~Over(turn', k)
  BY <1>1 DEF SameTurns, Loading, Over
<1> QED
  BY <1>1, <1>4, <1>5, ScreenGoes

LEMMA UploadFailsShows ==
  ASSUME Basis, Basis', Waits, NEW k \in Turn, UploadFails(k)
  PROVE  ScreenFits' /\ turn[k].topic = current
<1>1. /\ Types /\ TurnsFit /\ Onward /\ turn[k].phase \in {"create", "upload"} /\ Busy(turn, k)
      /\ turn'[k].topic = turn[k].topic /\ turn'[k].phase = "failed"
      /\ UNCHANGED <<run, log, requests, current, hasMore, cursor>> /\ TurnFits(k)'
      /\ screen' = Updated(k, "error", 0)
      /\ \A j \in Turn \ {k} : turn'[j] = turn[j]
  BY UploadsOnward DEF Basis, TurnsFit, Uploaded, Created, UploadFails, UpdateAssistant, Busy, server
<1>2. TurnShown(k) /\ current = turn[k].topic /\ Good(log, turn, current, screen, hasMore, cursor)
  BY <1>1 DEF Waits, ScreenFits, TurnShown, Naming
<1>3. SameTurns(screen, screen') /\ \A n \in DOMAIN screen : screen[n].turn # k => screen'[n] = screen[n]
  BY <1>1, UpdatedIs
<1>4. Good(log', turn', current, screen', hasMore, cursor)
  <2>1. Quiet(current) /\ \A j \in Turn : turn[j].topic = current => HomeAt(log', turn', current, j)
    BY <1>1, QuietAll DEF HomeAt
  <2> QED
    BY <1>1, <1>2, <1>3, <2>1, GoodOn
<1>5. run'[k] # "saved"
  BY <1>1, ChatAssumption DEF TurnFits
<1>6. Loading' = Loading /\ ~Busy(turn', k)
  BY <1>1 DEF Loading, Busy
<1> QED
  BY <1>1, <1>2, <1>3, <1>4, <1>5, <1>6, ScreenGoes

-----------------------------------------------------------------------------
(* The stream, for a user who waits.                                       *)

\* What a callback of the stream does to the screen.
LEMMA DeliverScreen ==
  ASSUME Types, NEW k \in Turn, Deliver(k)
  PROVE  /\ wire[k][1] \in {"info", "exit0"} => screen' = screen
         /\ wire[k][1] = "text" => screen' = Updated(k, None, turn[k].got + 1)
         /\ wire[k][1] = "done" => screen' = Updated(k, "done", turn[k].got)
         /\ wire[k][1] = "exit1" => screen' = Updated(k, "error", turn[k].got)
         /\ turn'[k].phase # "open" => wire[k][1] \in {"exit0", "exit1"}
         /\ current' = IF wire[k][1] = "info" /\ turn[k].target = None THEN turn[k].topic ELSE current
         /\ wire[k][1] \in {"info", "text", "done", "exit0", "exit1"}
<1>1. wire[k] # <<>> /\ wire[k] \in Seq(Events) /\ Head(wire[k]) = wire[k][1] /\ turn[k].phase = "open"
      /\ turn \in [Turn -> Turns] /\ turn[k] \in Turns
  BY Taken DEF Deliver, Types, ServerTypes
<1>2. CASE wire[k][1] = "info" /\ OnInfo(k)
  BY <1>1, <1>2 DEF OnInfo
<1>3. CASE wire[k][1] = "text" /\ OnText(k)
  <2>1. turn'[k].phase = "open"
    BY <1>1, <1>3 DEF OnText, Turns
  <2> QED
    BY <1>3, <2>1 DEF OnText, UpdateAssistant
<1>4. CASE wire[k][1] = "done" /\ OnDone(k)
  BY <1>1, <1>4 DEF OnDone
<1>5. CASE wire[k][1] = "exit1" /\ OnError(k)
  BY <1>1, <1>5 DEF OnError, UpdateAssistant
<1>6. CASE wire[k][1] = "exit0" /\ UNCHANGED <<current, screen, isStreaming, cache, stream>>
  BY <1>1, <1>6
<1> QED
  BY <1>1, <1>2, <1>3, <1>4, <1>5, <1>6 DEF Deliver

\* The end of an answer that was heard.
LEMMA LastOne ==
  ASSUME NEW k \in Turn, NEW s \in Seq(Message), AtEnd(k, s), Distinct(s), NEW n \in DOMAIN s,
         s[n].turn = k, s[n].role = "assistant"
  PROVE  n = Len(s)
<1>1. Len(s) \in Nat /\ DOMAIN s = 1..Len(s) /\ Len(s) \in DOMAIN s /\ n \in 1..Len(s)
  BY DEF AtEnd
<1>2. k # None
  BY ChatAssumption
<1>3. ~(n < Len(s))
  BY <1>1, <1>2 DEF AtEnd, Distinct
<1> QED
  BY <1>1, <1>3

LEMMA DeliverShows ==
  ASSUME Basis, Basis', Waits, NEW k \in Turn, Deliver(k)
  PROVE  /\ ScreenFits'
         /\ current' = turn[k].topic /\ turn[k].topic = turn'[k].topic
         /\ current = current' \/ current = None
<1>1. /\ Types /\ TurnsFit /\ TurnFits(k) /\ WireFits(k) /\ Onward
      /\ turn[k].phase = "open" /\ Busy(turn, k) /\ ~turn[k].unheard
      /\ turn[k] \in Turns /\ turn'[k].topic = turn[k].topic /\ ~turn'[k].unheard
      /\ turn'[k].phase \in {"open", "over"}
      /\ UNCHANGED <<run, log, requests, hasMore, cursor>>
      /\ \A j \in Turn \ {k} : turn'[j] = turn[j]
  BY DeliverOnward DEF Basis, TurnsFit, TurnFits, Deliver, Busy, Types, ServerTypes
<1>2. TurnShown(k) /\ turn[k].topic \in Topic /\ screen \in Seq(Message)
  BY <1>1, ChatAssumption DEF Waits, ScreenFits, TurnFits, Turns, Types, ScreenTypes
<1> DEFINE e == wire[k][1]
<1>3. /\ wire[k] # <<>> /\ wire[k] \in Seq(Events) /\ wire' = [wire EXCEPT ![k] = Tail(@)]
      /\ wire \in [Turn -> Seq(Events)]
  BY <1>1 DEF Deliver, Types, ServerTypes
<1>4. /\ Len(wire[k]) \in Nat /\ DOMAIN wire[k] = 1..Len(wire[k]) /\ DOMAIN wire'[k] = 1..Len(wire[k]) - 1
      /\ 1 \in DOMAIN wire[k] /\ wire'[k] = Tail(wire[k])
      /\ \A i \in 1..Len(wire[k]) - 1 : wire'[k][i] = wire[k][i + 1]
  BY <1>3, Taken
<1>5. /\ e \in {"info", "exit0"} => screen' = screen
      /\ e = "text" => screen' = Updated(k, None, turn[k].got + 1)
      /\ e = "done" => screen' = Updated(k, "done", turn[k].got)
      /\ e = "exit1" => screen' = Updated(k, "error", turn[k].got)
      /\ turn'[k].phase # "open" => e \in {"exit0", "exit1"}
      /\ current' = IF e = "info" /\ turn[k].target = None THEN turn[k].topic ELSE current
      /\ e \in {"info", "text", "done", "exit0", "exit1"}
  BY <1>1, DeliverScreen
<1>6. current' = turn[k].topic /\ (current = current' \/ current = None)
  <2>1. CASE Naming(k)
    BY <1>5, <2>1 DEF Naming
  <2>2. CASE ~Naming(k)
    <3>1. turn[k].topic = current
      BY <1>2, <2>2 DEF TurnShown
    <3> QED
      BY <1>5, <3>1
  <2> QED
    BY <2>1, <2>2
<1>7. /\ SameTurns(screen, screen')
      /\ \A n \in DOMAIN screen : /\ screen'[n].live = screen[n].live
                                  /\ screen[n].turn # k => screen'[n] = screen[n]
  BY <1>1, <1>5, UpdatedIs DEF SameTurns
<1>8. Good(log, turn, turn[k].topic, screen, hasMore, cursor) /\ AtEnd(k, screen)
  BY <1>2 DEF TurnShown
<1>9. Good(log', turn', current', screen', hasMore', cursor')
  <2>1. Quiet(turn[k].topic)
    BY <1>1, QuietAll
  <2>2. Good(log', turn', turn[k].topic, screen', hasMore, cursor)
    BY <1>1, <1>2, <1>7, <1>8, <2>1, GoodOn
  <2> QED
    BY <1>1, <1>6, <2>2
<1> DEFINE N == Len(screen)
<1>10. /\ N \in Nat /\ DOMAIN screen = 1..N /\ N \in DOMAIN screen /\ N - 1 \in DOMAIN screen
       /\ screen[N].turn = k /\ screen[N].role = "assistant" /\ screen[N].live
  BY <1>2, <1>8 DEF AtEnd
<1>11. Len(screen') = N /\ AtEnd(k, screen')
  <2>1. screen' \in Seq(Message) /\ DOMAIN screen' = 1..N
    BY <1>7, <1>10 DEF Basis, Types, ScreenTypes, SameTurns
  <2>2. Len(screen') = N
    BY <1>10, <2>1
  <2> QED
    BY <1>7, <1>8, <1>10, <2>2 DEF AtEnd, SameTurns
<1>12. ASSUME Heard(k)' PROVE screen'[N].status = "done" /\ screen'[N].text = Tokens
  <2>1. run[k] \in {"answered", "saved"} /\ ~Has(wire'[k], "done")
    BY <1>1, <1>12 DEF Heard
  <2>2. CASE e = "done"
    <3>1. 1 = Told(k) + 1 /\ turn[k].said = Tokens /\ turn[k].got <= turn[k].said
      BY <1>1, <1>4, <2>2 DEF WireFits
    <3>2. turn[k].got \in Nat /\ turn[k].said \in Nat /\ Opening(wire[k]) \in Nat
      BY <1>1, ChatAssumption DEF Turns, Opening
    <3>3. turn[k].got = Tokens
      BY <3>1, <3>2 DEF Told
    <3>4. "done" # None
      BY ChatAssumption
    <3> QED
      BY <1>1, <1>5, <1>10, <2>2, <3>3, <3>4, UpdatedIs
  <2>3. CASE e # "done"
    <3>1. ~Has(wire[k], "done")
      <4>1. SUFFICES ASSUME NEW i \in DOMAIN wire[k], wire[k][i] = "done" PROVE FALSE
        BY DEF Has
      <4>2. i # 1
        BY <2>3, <4>1
      <4>3. i - 1 \in DOMAIN wire'[k] /\ wire'[k][i - 1] = wire[k][i]
        BY <1>4, <4>1, <4>2
      <4> QED
        BY <2>1, <4>1, <4>3 DEF Has
    <3>2. screen[N].status = "done" /\ screen[N].text = Tokens
      BY <1>2, <2>1, <3>1 DEF TurnShown, Heard
    <3>3. e # "exit1"
      BY <1>1, <1>4, <2>1 DEF WireFits
    <3>4. e # "text"
      <4>1. SUFFICES ASSUME e = "text" PROVE FALSE
        OBVIOUS
      <4>2. Opening(wire[k]) < 1 /\ 1 <= Told(k)
        BY <1>1, <1>4, <4>1 DEF WireFits
      <4>3. ~(turn[k].got < turn[k].said) /\ turn[k].got <= turn[k].said
        BY <1>1, <2>1, <3>1 DEF WireFits
      <4>4. turn[k].got \in Nat /\ turn[k].said \in Nat /\ Opening(wire[k]) \in Nat
        BY <1>1, ChatAssumption DEF Turns, Opening
      <4> QED
        BY <4>2, <4>3, <4>4 DEF Told
    <3> QED
      BY <1>5, <2>3, <3>2, <3>3, <3>4
  <2> QED
    BY <2>2, <2>3
<1> HIDE DEF e, N
<1>13. TurnShown(k)'
  BY <1>1, <1>6, <1>9, <1>11, <1>12 DEF TurnShown
<1>14. ASSUME Over(turn', k), run'[k] = "saved", NEW n \in DOMAIN screen, screen[n].turn = k,
              screen[n].role = "assistant"
       PROVE  screen'[n].status = "done" /\ screen'[n].text = Tokens
  <2>1. e \in {"exit0", "exit1"} /\ run[k] = "saved"
    BY <1>1, <1>5, <1>14 DEF Over
  <2>2. 1 = Len(wire[k])
    BY <1>1, <1>4, <2>1 DEF WireFits, e
  <2>3. ~Has(wire'[k], "done")
    BY <1>4, <2>2 DEF Has
  <2>4. Heard(k)'
    BY <1>1, <2>1, <2>3 DEF Heard
  <2>5. n = N
    BY <1>2, <1>8, <1>14, LastOne DEF Good, N
  <2> QED
    BY <1>12, <2>4, <2>5
<1>15. Loading' = Loading
  BY <1>1 DEF Loading
<1> QED
  BY <1>1, <1>6, <1>7, <1>9, <1>13, <1>14, <1>15, ScreenGoes

\* The name of a topic is on its way when the stream ends: its message
\* is one of no topic from now on.
LEMMA Unnamed ==
  ASSUME Basis, Waits, Onward, NEW k \in Turn, Naming(k), TurnShown(k), log' = log, turn'[k].unheard,
         \A j \in Turn \ {k} : turn'[j] = turn[j], SameTurns(screen, screen')
  PROVE  Good(log', turn', None, screen', hasMore, cursor)
<1> DEFINE T == turn[k].topic
<1>1. /\ Types /\ LogFits /\ Known(turn, screen) /\ log \in Seq(Rows)
      /\ turn[k].phase = "open" /\ turn[k].target = None /\ turn'[k].target = None
      /\ T \notin Old
      /\ \A n \in DOMAIN screen : screen[n].turn \in Turn \ {k} => turn[screen[n].turn].topic # T
      /\ Good(log, turn, T, screen, hasMore, cursor)
  BY DEF Basis, Types, ServerTypes, Waits, ScreenFits, Naming, TurnShown, Onward, TurnOn
<1> HIDE DEF T
<1>2. Lost(turn', k)
  BY <1>1 DEF Lost
<1>3. \A i \in DOMAIN log : log[i] \in Rows /\ log[i].topic # None
  <2>1. \A i \in DOMAIN log : log[i] \in Rows
    BY <1>1
  <2> QED
    BY <2>1, ChatAssumption DEF Rows
<1>4. Visible(log', turn', None) = {}
  BY <1>3 DEF Visible
<1>5. ASSUME NEW n \in DOMAIN screen, HomeAt(log, turn, T, screen[n].turn)
      PROVE  HomeAt(log', turn', None, screen[n].turn)
  <2>1. PICK j : j = screen[n].turn
    OBVIOUS
  <2>2. CASE j = None
    BY <2>1, <2>2 DEF HomeAt
  <2>3. CASE Lost(turn, j)
    <3>1. j \in Turn /\ turn[j].phase # "new" /\ TurnOn(j)
      BY <1>1, <2>1, <2>3 DEF Lost, Known, Onward
    <3>2. Lost(turn', j)
      BY <2>3, <3>1 DEF Lost, TurnOn
    <3> QED
      BY <2>1, <3>2 DEF HomeAt
  <2>4. CASE j = k
    BY <1>2, <2>1, <2>4 DEF HomeAt
  <2>5. CASE j \in Turn /\ turn[j].topic = T
    BY <1>1, <2>1, <2>4, <2>5
  <2>6. ASSUME NEW i \in DOMAIN log, log[i].turn = j, log[i].topic = T
        PROVE  j = k
    <3>1. log[i].turn \in Turn \/ log[i].turn \in Past
      BY <1>3 DEF Rows
    <3>2. j \in Turn /\ turn[j].topic = T
      BY <1>1, <2>6, <3>1 DEF LogFits
    <3> QED
      BY <1>1, <2>1, <3>2
  <2> QED
    BY <1>5, <2>1, <2>2, <2>3, <2>4, <2>5, <2>6 DEF HomeAt
<1>6. Grows(log, log')
  BY DEF Onward
<1> QED
  BY <1>1, <1>4, <1>5, <1>6, GoodStays

LEMMA CancelShows ==
  ASSUME Basis, Basis', Waits, Cancel
  PROVE  ScreenFits'
<1>1. /\ Types /\ TurnsFit /\ Onward /\ UNCHANGED <<run, log>>
      /\ \A k \in Turn : /\ turn'[k].topic = turn[k].topic /\ turn'[k].target = turn[k].target
                         /\ \/ turn'[k] = turn[k] /\ wire'[k] = wire[k]
                            \/ /\ turn'[k].unheard /\ turn[k].phase \in {"sent", "open"}
                               /\ turn'[k].phase \in {"sent", "over"}
  BY CancelOnward DEF Basis
<1>2. UNCHANGED <<requests, current, hasMore, cursor, cache>> /\ screen \in Seq(Message) /\ screen' \in Seq(Message)
  BY DEF Cancel, Basis, Types, ScreenTypes
<1>3. Touched(screen, screen')
  <2>1. /\ DOMAIN screen' = DOMAIN screen
        /\ \A n \in DOMAIN screen :
             screen'[n] = IF screen[n].status = "streaming" THEN [screen[n] EXCEPT !.status = "done"]
                          ELSE screen[n]
    BY DEF Cancel
  <2>2. \A n \in DOMAIN screen : screen[n] \in Message
    BY <1>2
  <2>3. \A n \in DOMAIN screen : /\ screen'[n].turn = screen[n].turn /\ screen'[n].role = screen[n].role
                                 /\ screen'[n].live = screen[n].live
                                 /\ screen[n].status = "done" => screen'[n] = screen[n]
    BY <2>1, <2>2 DEF Message
  <2>4. Len(screen') = Len(screen)
    BY <1>2, <2>1
  <2> QED
    BY <2>1, <2>3, <2>4 DEF Touched, SameTurns
<1>4. Loading' = Loading
  BY <1>2 DEF Loading
<1>5. CASE \A k \in Turn : turn'[k] = turn[k] /\ wire'[k] = wire[k]
  <2>1. \A k \in Turn : Busy(turn', k) <=> Busy(turn, k)
    BY <1>5 DEF Busy
  <2>2. \A k \in Turn : (Heard(k)' => Heard(k)) /\ (Naming(k) => Naming(k)') /\ Quiet(turn[k].topic)
    BY <1>1, <1>2, <1>3, <1>5, QuietAll DEF Heard, Naming, Touched, SameTurns
  <2> QED
    BY <1>1, <1>2, <1>3, <1>4, <2>1, <2>2, ScreenStays
<1>6. ASSUME NEW k \in Turn, ~(turn'[k] = turn[k] /\ wire'[k] = wire[k]) PROVE ScreenFits'
  <2>1. /\ turn'[k].unheard /\ turn[k].phase \in {"sent", "open"} /\ Busy(turn, k)
        /\ turn'[k].phase \in {"sent", "over"}
    BY <1>1, <1>6 DEF Busy
  <2>2. \A j \in Turn \ {k} : ~Busy(turn, j)
    BY <2>1 DEF Waits, OneAtATime
  <2>3. \A j \in Turn \ {k} : turn'[j] = turn[j]
    BY <1>1, <2>2 DEF Busy
  <2>4. TurnShown(k)
    BY <2>1 DEF Waits, ScreenFits
  <2>5. ASSUME ~Naming(k)
        PROVE  current = turn[k].topic /\ Good(log', turn', current, screen', hasMore, cursor)
    <3>1. current = turn[k].topic /\ Good(log, turn, current, screen, hasMore, cursor)
      BY <2>4, <2>5 DEF TurnShown
    <3>2. Quiet(current) /\ \A j \in Turn : turn[j].topic = current => HomeAt(log', turn', current, j)
      BY <1>1, QuietAll DEF HomeAt
    <3> QED
      BY <1>1, <1>3, <3>1, <3>2, GoodOn DEF Touched
  <2>6. Busy(turn', k) => TurnShown(k)'
    <3>1. SUFFICES ASSUME turn'[k].phase = "sent" PROVE TurnShown(k)'
      BY <2>1 DEF Busy
    <3>2. run'[k] = None
      BY <3>1 DEF Basis, TurnsFit, TurnFits
    <3>3. turn[k].phase # "open"
      BY <1>1, <3>2 DEF TurnsFit, TurnFits
    <3>4. ~Naming(k) /\ ~Heard(k)'
      BY <3>2, <3>3, ChatAssumption DEF Naming, Heard
    <3>5. AtEnd(k, screen')
      <4>1. /\ AtEnd(k, screen) /\ Len(screen) \in Nat /\ DOMAIN screen = 1..Len(screen)
            /\ Len(screen) \in DOMAIN screen /\ Len(screen) - 1 \in DOMAIN screen
        BY <1>2, <2>4 DEF TurnShown, AtEnd
      <4> QED
        BY <1>3, <4>1 DEF AtEnd, Touched, SameTurns
    <3> QED
      BY <1>1, <1>2, <2>5, <3>4, <3>5 DEF TurnShown
  <2>7. Good(log', turn', current, screen', hasMore, cursor) \/ Naming(k)
    BY <2>5
  <2>8. Naming(k) => Good(log', turn', current, screen', hasMore, cursor)
    <3>1. SUFFICES ASSUME Naming(k) PROVE Good(log', turn', None, screen', hasMore, cursor)
      BY DEF Naming
    <3> QED
      BY <1>1, <1>3, <2>1, <2>3, <2>4, <3>1, Unnamed DEF Touched
  <2> QED
    BY <1>1, <1>2, <1>3, <1>4, <2>1, <2>3, <2>6, <2>7, <2>8, ScreenGoes DEF Touched
<1> QED
  BY <1>5, <1>6

LEMMA SendShows ==
  ASSUME ~Switching, Basis, Basis', Waits, NEW k \in Turn, NEW files \in BOOLEAN, Send(k, files)
  PROVE  ScreenFits' /\ requests = {}
<1>1. requests = {} /\ Rest /\ requests' = requests /\ UNCHANGED <<run, log, wire, current, hasMore, cursor>>
  BY Acts DEF Send, server
<1>2. /\ Types /\ TurnsFit /\ Onward /\ turn[k].phase = "new" /\ run[k] = None
      /\ turn'[k].phase \in {"sent", "create", "upload"} /\ turn'[k].topic = current
      /\ \A j \in Turn \ {k} : turn'[j] = turn[j]
  BY SendFits, SendOnward DEF Basis, TurnsFit, TurnFits
<1>3. /\ Known(turn, screen) /\ Finished(turn, run, screen) /\ LogFits
      /\ Good(log, turn, current, screen, hasMore, cursor) /\ screen \in Seq(Message) /\ k # None
  BY <1>1, <1>2, ChatAssumption DEF Waits, ScreenFits, Loading, Types, ScreenTypes
<1> DEFINE u == Entry(k, "user", "done", Tokens, TRUE)
           a == Entry(k, "assistant", "streaming", 0, TRUE)
           s1 == screen \o <<u>>
           s2 == s1 \o <<a>>
           N == Len(screen)
<1>4. /\ u \in Message /\ a \in Message /\ u.turn = k /\ u.role = "user"
      /\ a.turn = k /\ a.role = "assistant" /\ a.live
  BY ChatAssumption DEF Entry, Message, TurnOrNone
<1> HIDE DEF u, a
<1>5. /\ N \in Nat /\ s1 \in Seq(Message) /\ s2 \in Seq(Message) /\ Len(s2) = N + 2
      /\ DOMAIN screen = 1..N /\ DOMAIN s1 = 1..N + 1 /\ DOMAIN s2 = 1..N + 2
      /\ \A n \in 1..N : s1[n] = screen[n] /\ s2[n] = screen[n]
      /\ s1[N + 1] = u /\ s2[N + 1] = u /\ s2[N + 2] = a
  BY <1>3, <1>4
<1>6. screen' = s2
  <2>1. screen' = screen \o <<u, a>>
    BY DEF Send, u, a
  <2> HIDE DEF N, s1, s2
  <2>2. /\ screen' \in Seq(Message) /\ Len(screen') = N + 2
        /\ \A n \in 1..N : screen'[n] = screen[n]
        /\ screen'[N + 1] = u /\ screen'[N + 2] = a
    <3>1. <<u, a>> \in Seq(Message) /\ Len(<<u, a>>) = 2 /\ <<u, a>>[1] = u /\ <<u, a>>[2] = a
      BY <1>4
    <3> QED
      BY <1>3, <2>1, <3>1 DEF N
  <2>3. Len(screen') = Len(s2)
    BY <1>5, <2>2
  <2>4. \A n \in 1..Len(screen') : screen'[n] = s2[n]
    <3>1. \A n \in 1..Len(screen') : n \in 1..N \/ n = N + 1 \/ n = N + 2
      BY <1>5, <2>2
    <3> QED
      BY <1>5, <2>2, <3>1
  <2> QED
    BY <1>5, <2>2, <2>3, <2>4, SeqEqual
<1> HIDE DEF s1, s2, N
<1>7. \A n \in DOMAIN screen : screen[n].turn # k
  BY <1>2, <1>3 DEF Known
<1>8. \A i \in DOMAIN log : log[i].turn # k
  BY <1>2, <1>3, ChatAssumption DEF LogFits
<1>9. HomeAt(log', turn', current, k)
  BY <1>2 DEF HomeAt
<1>10. Good(log', turn', current, screen, hasMore, cursor)
  <2>1. Quiet(current)
    BY <1>1, <1>2, QuietAll
  <2>2. \A j \in Turn : turn[j].topic = current => HomeAt(log', turn', current, j)
    BY <1>2, <1>9 DEF HomeAt
  <2> QED
    BY <1>2, <1>3, <2>1, <2>2, GoodOn DEF SameTurns
<1>11. Good(log', turn', current, s1, hasMore, cursor)
  <2>1. \A i \in DOMAIN log' : ~RowOf(log', i, u)
    BY <1>1, <1>4, <1>8 DEF RowOf
  <2> QED
    BY <1>3, <1>4, <1>7, <1>9, <1>10, <2>1, GoodAppends DEF s1
<1>12. Good(log', turn', current, s2, hasMore, cursor)
  <2>1. \A i \in DOMAIN log' : ~RowOf(log', i, a)
    BY <1>1, <1>4, <1>8 DEF RowOf
  <2>2. \A n \in DOMAIN s1 : s1[n].turn # k \/ s1[n].role # "assistant"
    BY <1>4, <1>5, <1>7
  <2> QED
    BY <1>4, <1>5, <1>9, <1>11, <2>1, <2>2, GoodAppends DEF s2
<1>13. Busy(turn', k) /\ ~Over(turn', k) /\ \A j \in Turn \ {k} : ~Busy(turn', j)
  BY <1>1, <1>2 DEF Busy, Over, Rest
<1>14. TurnShown(k)'
  <2>1. AtEnd(k, s2)
    BY <1>4, <1>5 DEF AtEnd
  <2>2. ~Heard(k)'
    BY <1>1, <1>2, ChatAssumption DEF Heard
  <2> QED
    BY <1>1, <1>2, <1>6, <1>12, <2>1, <2>2 DEF TurnShown
<1>15. \A n \in DOMAIN s2 : (n \in DOMAIN screen /\ s2[n] = screen[n]) \/ s2[n].turn = k
  BY <1>4, <1>5
<1>16. Known(turn', s2)
  BY <1>2, <1>3, <1>7, <1>15 DEF Known
<1>17. Finished(turn', run', s2)
  BY <1>1, <1>2, <1>3, <1>7, <1>13, <1>15 DEF Finished, Over
<1>18. ~Rest'
  BY <1>13 DEF Rest
<1> QED
  BY <1>1, <1>6, <1>13, <1>14, <1>16, <1>17, <1>18 DEF ScreenFits

-----------------------------------------------------------------------------
(* Others' runs and connections that break, for a user who waits.          *)

\* A turn of someone else is not on the screen, and its rows are not missed.
LEMMA ElsewhereShows ==
  ASSUME Basis, Waits, NEW k \in Turn, NEW t \in Topic, Elsewhere(k, t)
  PROVE  ScreenFits'
<1>1. /\ Types /\ TurnsFit /\ Onward /\ Known(turn, screen) /\ turn[k].phase = "new"
      /\ log' = log /\ wire' = wire /\ requests' = requests /\ turn'[k].unheard /\ turn'[k].phase = "over"
      /\ UNCHANGED <<current, screen, hasMore, cursor, cache>>
      /\ \A j \in Turn \ {k} : turn'[j] = turn[j] /\ run'[j] = run[j]
  BY ElsewhereIs, ElsewhereOnward DEF Basis, Waits, ScreenFits, view
<1>2. \A n \in DOMAIN screen : screen[n].turn # k
  BY <1>1 DEF Known
<1>3. ~Busy(turn, k) /\ ~Busy(turn', k) /\ \A j \in Turn \ {k} : Busy(turn', j) <=> Busy(turn, j)
  BY <1>1 DEF Busy
<1>4. ASSUME NEW h, Good(log, turn, h, screen, hasMore, cursor)
      PROVE  Good(log', turn', h, screen', hasMore', cursor')
  <2>1. \A n \in DOMAIN screen : HomeAt(log, turn, h, screen[n].turn) => HomeAt(log', turn', h, screen[n].turn)
    BY <1>1, <1>2 DEF HomeAt, Lost
  <2>2. \A i \in Visible(log', turn', h) : i \in Visible(log, turn, h)
    <3>1. SUFFICES ASSUME NEW i \in DOMAIN log, log[i].topic = h,
                          log[i].turn \in Turn => ~turn'[log[i].turn].unheard
                   PROVE  i \in Visible(log, turn, h)
      BY <1>1 DEF Visible
    <3>2. log[i].turn # k
      BY <1>1, <3>1
    <3> QED
      BY <1>1, <3>1, <3>2 DEF Visible
  <2>3. Grows(log, log') /\ SameTurns(screen, screen)
    BY <1>1 DEF Onward, SameTurns
  <2>4. Good(log', turn', h, screen, hasMore, cursor)
    BY <1>4, <2>1, <2>2, <2>3, GoodStays
  <2> QED
    BY <1>1, <2>4
<1>5. Known(turn', screen')
  BY <1>1, KnownOn DEF SameTurns
<1>6. Loading' = Loading
  BY <1>1 DEF Loading
<1>7. ASSUME ~Loading' PROVE Finished(turn', run', screen')
  <2>1. Finished(turn, run, screen)
    BY <1>6, <1>7 DEF Waits, ScreenFits
  <2> QED
    BY <1>1, <1>2, <2>1 DEF Finished, Over
<1>8. ASSUME ~Loading', Rest' PROVE Good(log', turn', current', screen', hasMore', cursor')
  <2>1. Rest
    BY <1>3, <1>8 DEF Rest
  <2>2. Good(log, turn, current, screen, hasMore, cursor)
    BY <1>6, <1>8, <2>1 DEF Waits, ScreenFits
  <2> QED
    BY <1>1, <1>4, <2>2
<1>9. ASSUME NEW j \in Turn, Busy(turn', j) PROVE TurnShown(j)'
  <2>1. j # k /\ Busy(turn, j) /\ turn'[j] = turn[j] /\ run'[j] = run[j]
    BY <1>1, <1>3, <1>9
  <2>2. TurnShown(j)
    BY <2>1 DEF Waits, ScreenFits
  <2>3. Naming(j) => Naming(j)'
    <3>1. \A n \in DOMAIN screen : screen[n].turn \in Turn => turn'[screen[n].turn] = turn[screen[n].turn]
      BY <1>1, <1>2
    <3> QED
      BY <1>1, <2>1, <3>1 DEF Naming
  <2>4. Good(log', turn', turn'[j].topic, screen', hasMore', cursor')
    BY <1>4, <2>1, <2>2 DEF TurnShown
  <2>5. Heard(j)' => Heard(j)
    BY <1>1, <2>1 DEF Heard
  <2> QED
    BY <1>1, <2>1, <2>2, <2>3, <2>4, <2>5 DEF TurnShown
<1> QED
  BY <1>5, <1>7, <1>8, <1>9 DEF ScreenFits

\* The message stays where it is when its stream breaks, with an error.
LEMMA BreakShows ==
  ASSUME Basis, Basis', Waits, NEW k \in Turn, Break(k)
  PROVE  ScreenFits'
<1>1. /\ Types /\ TurnsFit /\ Onward /\ UNCHANGED <<run, log, requests, current, hasMore, cursor>>
      /\ screen' = Updated(k, "error", turn[k].got) /\ turn[k].phase \in {"sent", "open"}
      /\ turn'[k].unheard /\ turn'[k].phase \in {"sent", "over"} /\ turn'[k].topic = turn[k].topic
      /\ \A j \in Turn \ {k} : turn'[j] = turn[j]
  BY BreakIs, BreakOnward DEF Basis, server
<1>2. /\ SameTurns(screen, screen') /\ screen \in Seq(Message) /\ screen' \in Seq(Message)
      /\ \A n \in DOMAIN screen : /\ screen'[n].live = screen[n].live
                                  /\ screen[n].turn # k => screen'[n] = screen[n]
  BY <1>1, UpdatedIs DEF Basis, Types, ScreenTypes
<1>3. Busy(turn, k) /\ Loading' = Loading
  BY <1>1 DEF Busy, Loading
<1>4. TurnShown(k)
  BY <1>3 DEF Waits, ScreenFits
<1>5. ASSUME ~Naming(k)
      PROVE  current = turn[k].topic /\ Good(log', turn', current, screen', hasMore, cursor)
  <2>1. current = turn[k].topic /\ Good(log, turn, current, screen, hasMore, cursor)
    BY <1>4, <1>5 DEF TurnShown
  <2>2. Quiet(current) /\ \A j \in Turn : turn[j].topic = current => HomeAt(log', turn', current, j)
    BY <1>1, QuietAll DEF HomeAt
  <2> QED
    BY <1>1, <1>2, <2>1, <2>2, GoodOn
<1>6. Busy(turn', k) => TurnShown(k)'
  <2>1. SUFFICES ASSUME turn'[k].phase = "sent" PROVE TurnShown(k)'
    BY <1>1 DEF Busy
  <2>2. run'[k] = None
    BY <2>1 DEF Basis, TurnsFit, TurnFits
  <2>3. turn[k].phase # "open"
    BY <1>1, <2>2 DEF TurnsFit, TurnFits
  <2>4. ~Naming(k) /\ ~Heard(k)'
    BY <2>2, <2>3, ChatAssumption DEF Naming, Heard
  <2>5. AtEnd(k, screen')
    <3>1. /\ AtEnd(k, screen) /\ Len(screen) \in Nat /\ DOMAIN screen = 1..Len(screen)
          /\ Len(screen) \in DOMAIN screen /\ Len(screen) - 1 \in DOMAIN screen
      BY <1>2, <1>4 DEF TurnShown, AtEnd
    <3>2. Len(screen') = Len(screen)
      BY <1>2 DEF SameTurns
    <3> QED
      BY <1>2, <3>1, <3>2 DEF AtEnd, SameTurns
  <2> QED
    BY <1>1, <1>5, <2>4, <2>5 DEF TurnShown
<1>7. Naming(k) => Good(log', turn', current, screen', hasMore, cursor)
  <2>1. SUFFICES ASSUME Naming(k) PROVE Good(log', turn', None, screen', hasMore, cursor)
    BY DEF Naming
  <2> QED
    BY <1>1, <1>2, <1>4, <2>1, Unnamed
<1>8. Good(log', turn', current', screen', hasMore', cursor')
  BY <1>1, <1>5, <1>7
<1> QED
  BY <1>1, <1>2, <1>3, <1>6, <1>8, ScreenGoes

-----------------------------------------------------------------------------
(* Topics and pages, for a user who waits.                                 *)

LEMMA GoodNothing ==
  ASSUME NEW l, NEW x, NEW t, NEW from, NEW more, Visible(l, x, t) = {}, more => from \in DOMAIN l
  PROVE  Good(l, x, t, <<>>, more, from)
<1>1. DOMAIN <<>> = {}
  OBVIOUS
<1>2. \A i : ~IsShown(l, i, <<>>)
  BY <1>1 DEF IsShown
<1> QED
  BY <1>1, <1>2 DEF Good, Homes, Distinct, Ordered, Suffix, Latest, Since

\* No row is one of no topic.
LEMMA NoneOfNone ==
  ASSUME Types, NEW x
  PROVE  Visible(log, x, None) = {}
<1>1. \A i \in DOMAIN log : log[i] \in Rows
  BY DEF Types, ServerTypes
<1> QED
  BY <1>1, ChatAssumption DEF Visible, Rows

LEMMA GoodLess ==
  ASSUME NEW l, NEW x, NEW t, NEW s, NEW more, NEW from, NEW from2, Good(l, x, t, s, more, from)
  PROVE  Good(l, x, t, s, FALSE, from2)
BY DEF Good, Since

LEMMA SettledAtRest ==
  ASSUME Types, Rest, NEW s, Known(turn, s)
  PROVE  Settled(turn, s)
BY OverOrBusy DEF Rest, Known, Settled

\* When nothing is under way.
LEMMA AtEase ==
  ASSUME Basis, Waits, Rest, ~Loading
  PROVE  /\ Good(log, turn, current, screen, hasMore, cursor)
         /\ Finished(turn, run, screen) /\ Known(turn, screen) /\ Settled(turn, screen)
BY SettledAtRest DEF Basis, Waits, ScreenFits

LEMMA SelectWaits ==
  ASSUME ~Switching, MaxRequests = 1, Basis, Waits, NEW t \in topics \cup {None}, SelectTopic(t)
  PROVE  ScreenFits' /\ CacheFits' /\ UsedFits' /\ \A r \in requests' : RequestFits(r)'
<1>1. /\ requests = {} /\ Rest /\ UNCHANGED <<turn, run, log, topics>> /\ Types
      /\ current' = t /\ hasMore' = FALSE /\ t # current
      /\ cache' = IF current = None THEN cache ELSE [cache EXCEPT ![current] = screen]
  BY Acts DEF SelectTopic, server, Basis
<1>2. ~Loading
  BY <1>1 DEF Loading
<1>3. /\ Good(log, turn, current, screen, hasMore, cursor)
      /\ Finished(turn, run, screen) /\ Known(turn, screen) /\ Settled(turn, screen)
  BY <1>1, <1>2, AtEase
<1>4. Calm(log, turn, run, current, screen, FALSE, None)
  BY <1>3, GoodLess DEF Calm
<1>5. ASSUME NEW q \in Topic, cache'[q] # None
      PROVE  Used(turn, q) /\ (q # t => Calm(log, turn, run, q, cache'[q], FALSE, None))
  <2>1. CASE q = current
    <3>1. current # None
      BY <2>1, ChatAssumption
    <3>2. cache'[q] = screen
      BY <1>1, <2>1, <3>1 DEF Types, ScreenTypes
    <3> QED
      BY <1>4, <2>1, <3>1, <3>2 DEF Waits, UsedFits
  <2>2. CASE q # current
    <3>1. cache'[q] = cache[q]
      BY <1>1, <2>2 DEF Types, ScreenTypes
    <3> QED
      BY <1>5, <2>2, <3>1 DEF Waits, CacheFits
  <2> QED
    BY <2>1, <2>2
<1>6. CacheFits'
  BY <1>1, <1>5 DEF CacheFits
<1>7. UsedFits'
  BY <1>1 DEF Waits, UsedFits
<1>8. Rest' /\ \A k \in Turn : ~Busy(turn', k)
  BY <1>1 DEF Rest
<1>9. CASE t = None
  <2>1. screen' = <<>> /\ requests' = requests
    BY <1>9 DEF SelectTopic
  <2>2. Good(log', turn', current', screen', hasMore', cursor')
    BY <1>1, <1>9, <2>1, NoneOfNone, GoodNothing
  <2>3. Known(turn', screen') /\ Finished(turn', run', screen')
    BY <2>1 DEF Known, Finished
  <2> QED
    BY <1>1, <1>6, <1>7, <1>8, <2>1, <2>2, <2>3 DEF ScreenFits
<1>10. ASSUME t # None, screen' = cache'[t], cache'[t] # None, requests' = requests
       PROVE  ScreenFits'
  <2>1. t \in Topic
    BY <1>1, <1>10 DEF Types, ServerTypes
  <2>2. cache'[t] = cache[t]
    BY <1>1, <2>1 DEF Types, ScreenTypes
  <2>3. Calm(log, turn, run, t, screen', FALSE, None)
    BY <1>1, <1>10, <2>1, <2>2 DEF Waits, CacheFits
  <2>4. Good(log', turn', current', screen', hasMore', cursor') /\ Finished(turn', run', screen')
    BY <1>1, <2>3, GoodLess DEF Calm
  <2>5. Known(turn', screen')
    BY <1>1, <2>3 DEF Calm, Known, Settled, Over
  <2> QED
    BY <1>8, <2>4, <2>5 DEF ScreenFits
<1>11. ASSUME t # None, screen' = screen, Ask("select", t, None)
       PROVE  ScreenFits' /\ \A r \in requests' : RequestFits(r)'
  <2>1. requests' = {[kind |-> "select", topic |-> t, before |-> None, was |-> current, reply |-> None]}
    BY <1>1, <1>11, AskOne DEF Waits
  <2>2. Loading'
    BY <2>1 DEF Loading
  <2>3. Known(turn', screen')
    BY <1>1, <1>3, <1>11
  <2>4. t \in topics'
    BY <1>1, <1>11
  <2>5. ASSUME NEW r \in requests' PROVE RequestFits(r)'
    <3>1. r.kind = "select" /\ r.topic = t /\ r.before = None /\ r.reply = None
      BY <2>1, <2>5
    <3> QED
      BY <1>1, <2>4, <3>1 DEF RequestFits
  <2> QED
    BY <1>8, <2>2, <2>3, <2>5 DEF ScreenFits
<1>12. CASE t # None
  <2>1. \/ screen' = cache'[t] /\ cache'[t] # None /\ requests' = requests
        \/ screen' = screen /\ Ask("select", t, None)
    BY <1>12 DEF SelectTopic
  <2> QED
    BY <1>1, <1>6, <1>7, <1>10, <1>11, <1>12, <2>1
<1> QED
  BY <1>9, <1>12

LEMMA SelectedWaits ==
  ASSUME Basis, Waits, NEW r \in requests, Selected(r)
  PROVE  ScreenFits' /\ CacheFits' /\ UsedFits' /\ requests' = {}
<1>1. /\ r.kind = "select" /\ r.reply # None /\ requests = {r} /\ Rest /\ RequestFits(r)
      /\ UNCHANGED <<turn, run, log, topics, current>> /\ requests' = requests \ {r} /\ Types /\ r.topic \in Topic
  BY CalmRequest DEF Selected, server, Waits, Basis, Types, LoadTypes, Requests
<1>2. /\ r.reply # Error /\ r.topic = current
      /\ Calm(log, turn, run, r.topic, r.reply.messages, r.reply.has_more, r.reply.cursor)
  BY <1>1 DEF RequestFits
<1>3. /\ cursor' = r.reply.cursor /\ hasMore' = r.reply.has_more /\ screen' = r.reply.messages
      /\ cache' = [cache EXCEPT ![r.topic] = r.reply.messages]
  BY <1>2 DEF Selected
<1>4. Onward
  BY <1>1, OnwardSame
<1>5. Good(log', turn', current', screen', hasMore', cursor') /\ Finished(turn', run', screen')
  BY <1>1, <1>2, <1>3 DEF Calm
<1>6. Known(turn', screen')
  BY <1>1, <1>2, <1>3 DEF Calm, Known, Settled, Over
<1>7. \A k \in Turn : ~Busy(turn', k)
  BY <1>1 DEF Rest
<1>8. Used(turn, current)
  BY <1>1, <1>2, ChatAssumption DEF Waits, UsedFits
<1>9. CacheFits'
  <2>1. \A q \in Topic : q # current => cache'[q] = cache[q]
    BY <1>1, <1>2, <1>3 DEF Types, ScreenTypes
  <2> QED
    BY <1>1, <1>4, <1>8, <2>1, CacheStays
<1>10. UsedFits'
  BY <1>1 DEF Waits, UsedFits
<1> QED
  BY <1>1, <1>5, <1>6, <1>7, <1>9, <1>10 DEF ScreenFits

\* The messages of a page were saved.
LEMMA PageSaved ==
  ASSUME Basis, LogFits, NEW t \in Topic, NEW before \in (DOMAIN log) \cup {None}
  PROVE  LET p == Page(t, before) IN
         /\ PageOf(t, before, p) /\ p \in Replied /\ p.messages \in Seq(Message)
         /\ Known(turn, p.messages) /\ Finished(turn, run, p.messages)
         /\ Rest => Settled(turn, p.messages)
         /\ \A n \in DOMAIN p.messages : p.messages[n].turn # None
<1> DEFINE p == Page(t, before)
<1>1. Types /\ TurnsFit /\ log \in Seq(Rows) /\ (before = None \/ before \in Nat)
  <2>1. log \in Seq(Rows) /\ DOMAIN log \subseteq Nat
    BY DEF Basis, Types, ServerTypes
  <2> QED
    BY <2>1 DEF Basis
<1>2. p \in Replied /\ PageOf(t, before, p)
  BY <1>1, PageTyped, PageIsPageOf
<1> HIDE DEF p
<1>3. ASSUME NEW n \in DOMAIN p.messages
      PROVE  /\ p.messages[n].turn \in Turn \cup Past /\ p.messages[n].status = "done" /\ p.messages[n].text = Tokens
             /\ p.messages[n].turn \in Turn => run[p.messages[n].turn] = "saved"
  <2>1. PICK i \in DOMAIN log : p.messages[n] = Saved(i)
    BY <1>2, <1>3 DEF PageOf, Older
  <2>2. log[i] \in Rows
    BY <1>1
  <2>3. p.messages[n].turn = log[i].turn
    BY <2>1 DEF Saved, Entry
  <2> QED
    BY <2>1, <2>2, <2>3 DEF Saved, Entry, LogFits, Rows
<1>4. ASSUME NEW k \in Turn, run[k] = "saved"
      PROVE  turn[k].phase \in {"open", "over"}
  BY <1>1, <1>4, ChatAssumption DEF TurnsFit, TurnFits
<1>5. Known(turn, p.messages)
  BY <1>3, <1>4 DEF Known
<1>6. Finished(turn, run, p.messages)
  BY <1>3 DEF Finished
<1>7. Rest => Settled(turn, p.messages)
  BY <1>3, <1>4 DEF Settled, Rest, Busy, Over
<1>8. \A n \in DOMAIN p.messages : p.messages[n].turn # None
  BY <1>3, ChatAssumption
<1> QED
  BY <1>2, <1>5, <1>6, <1>7, <1>8 DEF Replied, p

LEMMA LoadMoreWaits ==
  ASSUME MaxRequests = 1, Basis, Waits, LoadMore
  PROVE  ScreenFits' /\ CacheFits' /\ UsedFits' /\ \A r \in requests' : RequestFits(r)'
<1>1. /\ UNCHANGED <<turn, run, log, topics, wire, current, screen, hasMore, cursor, cache>> /\ Types
      /\ cursor # None /\ hasMore
      /\ requests = {}
      /\ requests' = {[kind |-> "more", topic |-> current, before |-> cursor, was |-> current, reply |-> None]}
  BY AskOne DEF LoadMore, server, Basis, Waits
<1>2. Onward /\ Touched(screen, screen') /\ ~Loading
  BY <1>1, OnwardSame, Untouched DEF Loading
<1>3. \A k \in Turn : (Heard(k)' => Heard(k)) /\ (Naming(k) => Naming(k)') /\ Quiet(turn[k].topic)
                      /\ (Busy(turn', k) <=> Busy(turn, k))
  BY <1>1, <1>2, QuietAll DEF Heard, Has, Naming
<1>4. ScreenFits'
  BY <1>1, <1>2, <1>3, ScreenStays
<1>5. CacheFits' /\ UsedFits'
  BY <1>1 DEF Waits, CacheFits, UsedFits
<1>6. ASSUME NEW r \in requests' PROVE RequestFits(r)'
  <2>1. r.kind = "more" /\ r.topic = current /\ r.before = cursor /\ r.reply = None
    BY <1>1, <1>6
  <2> QED
    BY <1>1, <2>1 DEF RequestFits
<1> QED
  BY <1>4, <1>5, <1>6

LEMMA LoadedMoreWaits ==
  ASSUME Basis, Basis', Waits, NEW r \in requests, LoadedMore(r)
  PROVE  ScreenFits' /\ CacheFits' /\ UsedFits' /\ requests' = {}
<1>1. /\ UNCHANGED <<turn, run, log, topics, wire, current, cache>> /\ Types
      /\ r.kind = "more" /\ r.reply # None /\ requests' = requests \ {r} /\ LogFits
  BY DEF LoadedMore, server, Basis, Waits
<1>2. /\ requests = {r} /\ ~Loading /\ r.topic = current /\ current \in Topic /\ current # None
      /\ r.before = cursor /\ cursor # None /\ cursor \in DOMAIN log /\ hasMore
      /\ \A k \in Turn : Busy(turn, k) => turn[k].topic = current
      /\ Good(log, turn, current, screen, TRUE, cursor)
      /\ Finished(turn, run, screen) /\ Known(turn, screen)
  BY <1>1, MoreRequest
<1>3. CacheFits' /\ UsedFits' /\ requests' = {} /\ Rest' = Rest
  BY <1>1, <1>2 DEF Waits, CacheFits, UsedFits, Rest
<1>4. ASSUME Good(log, turn, current, screen', hasMore', cursor'),
             Finished(turn, run, screen'), Known(turn, screen'),
             \A k \in Turn : AtEnd(k, screen) => AtEnd(k, screen') /\ screen'[Len(screen')] = screen[Len(screen)]
      PROVE  ScreenFits'
  <2>1. ASSUME NEW k \in Turn, Busy(turn', k) PROVE TurnShown(k)'
    <3>1. TurnShown(k) /\ turn[k].topic = current
      BY <1>1, <1>2, <2>1 DEF Waits, ScreenFits
    <3>2. Heard(k)' => Heard(k)
      BY <1>1 DEF Heard, Has
    <3> QED
      BY <1>1, <1>4, <3>1, <3>2 DEF TurnShown
  <2> QED
    BY <1>1, <1>4, <2>1 DEF ScreenFits
<1>5. CASE r.reply = Error
  <2>1. UNCHANGED <<cursor, hasMore, screen>>
    BY <1>5 DEF LoadedMore
  <2>2. hasMore = TRUE
    BY <1>1, <1>2 DEF Types, LoadTypes
  <2> QED
    BY <1>2, <1>3, <1>4, <2>1, <2>2
<1>6. CASE r.reply # Error
  <2> DEFINE p == Page(current, cursor)
  <2>1. r.reply = p
    BY <1>1, <1>2, <1>6 DEF Waits, RequestFits
  <2>2. /\ PageOf(current, cursor, p) /\ p.messages \in Seq(Message)
        /\ Known(turn, p.messages) /\ Finished(turn, run, p.messages)
    BY <1>1, <1>2, PageSaved
  <2> HIDE DEF p
  <2>3. CASE p.messages = <<>>
    <3>1. hasMore' = FALSE /\ UNCHANGED <<cursor, screen>>
      BY <1>6, <2>1, <2>3 DEF LoadedMore
    <3>2. Good(log, turn, current, screen, FALSE, cursor)
      BY <1>2, GoodLess
    <3> QED
      BY <1>2, <1>3, <1>4, <3>1, <3>2
  <2>4. CASE p.messages # <<>>
    <3> DEFINE m == p.messages
               N == Len(m)
               M == Len(screen)
    <3>1. cursor' = p.cursor /\ hasMore' = p.has_more /\ screen' = m \o screen
      BY <1>6, <2>1, <2>4 DEF LoadedMore
    <3>2. Good(log, turn, current, screen', hasMore', cursor')
      BY <1>1, <1>2, <2>2, <3>1, GoodGrows DEF Types, ScreenTypes
    <3>3. screen \in Seq(Message)
      BY <1>1 DEF Types, ScreenTypes
    <3>4. /\ N \in Nat /\ M \in Nat /\ Len(screen') = N + M /\ DOMAIN screen = 1..M /\ DOMAIN m = 1..N
          /\ DOMAIN screen' = 1..N + M
          /\ \A n \in 1..N : screen'[n] = m[n]
          /\ \A n \in 1..M : screen'[N + n] = screen[n]
      BY <2>2, <3>1, <3>3
    <3> HIDE DEF m, N, M
    <3>5. \A n \in DOMAIN screen' : \/ n \in DOMAIN m /\ screen'[n] = m[n]
                                    \/ n - N \in DOMAIN screen /\ screen'[n] = screen[n - N]
      BY <3>4
    <3>6. Known(turn, screen') /\ Finished(turn, run, screen')
      BY <1>2, <2>2, <3>5 DEF Known, Finished, m
    <3>7. ASSUME NEW k \in Turn, AtEnd(k, screen)
          PROVE  AtEnd(k, screen') /\ screen'[Len(screen')] = screen[Len(screen)]
      <4>1. M >= 2 /\ M \in 1..M /\ M - 1 \in 1..M
        BY <3>4, <3>7 DEF AtEnd, M
      <4>2. screen'[N + M] = screen[M] /\ screen'[N + (M - 1)] = screen[M - 1]
        BY <3>4, <4>1
      <4>3. Len(screen') = N + M /\ Len(screen') - 1 = N + (M - 1) /\ Len(screen') >= 2
        BY <3>4, <4>1
      <4> QED
        BY <3>7, <4>2, <4>3 DEF AtEnd, M
    <3> QED
      BY <1>3, <1>4, <3>2, <3>6, <3>7
  <2> QED
    BY <2>3, <2>4
<1> QED
  BY <1>5, <1>6

LEMMA RemoveWaits ==
  ASSUME ~Switching, MaxRequests = 1, Basis, Waits, NEW t \in topics, RemoveTopic(t)
  PROVE  ScreenFits' /\ CacheFits' /\ UsedFits' /\ \A r \in requests' : RequestFits(r)'
<1>1. /\ UNCHANGED <<turn, run, log, topics, wire, current, screen, hasMore, cursor, cache>> /\ Types
      /\ requests = {}
      /\ requests' = {[kind |-> "delete", topic |-> t, before |-> None, was |-> current, reply |-> None]}
  BY AskOne DEF RemoveTopic, server, view, Basis, Waits
<1>2. Onward /\ Touched(screen, screen') /\ ~Loading
  BY <1>1, OnwardSame, Untouched DEF Loading
<1>3. \A k \in Turn : (Heard(k)' => Heard(k)) /\ (Naming(k) => Naming(k)') /\ Quiet(turn[k].topic)
                      /\ (Busy(turn', k) <=> Busy(turn, k))
  BY <1>1, <1>2, QuietAll DEF Heard, Has, Naming
<1>4. ScreenFits'
  BY <1>1, <1>2, <1>3, ScreenStays
<1>5. CacheFits' /\ UsedFits'
  BY <1>1 DEF Waits, CacheFits, UsedFits
<1>6. ASSUME NEW r \in requests' PROVE RequestFits(r)'
  <2>1. r.kind = "delete" /\ r.was = current
    BY <1>1, <1>6
  <2> QED
    BY <1>1, <2>1 DEF RequestFits
<1> QED
  BY <1>4, <1>5, <1>6

LEMMA RemovedWaits ==
  ASSUME Basis, Waits, NEW r \in requests, Removed(r)
  PROVE  ScreenFits' /\ CacheFits' /\ UsedFits' /\ requests' = {}
<1>1. /\ UNCHANGED <<turn, run, log, topics, wire, hasMore, cursor>> /\ Types
      /\ r.kind = "delete" /\ requests = {r} /\ Rest /\ requests' = requests \ {r} /\ r.topic \in Topic
      /\ r.was = current /\ ~Loading
  BY CalmRequest DEF Removed, server, Basis, Types, LoadTypes, Requests, Waits, RequestFits, Loading
<1>2. /\ Good(log, turn, current, screen, hasMore, cursor)
      /\ Finished(turn, run, screen) /\ Known(turn, screen)
  BY <1>1, AtEase
<1>3. \A k \in Turn : ~Busy(turn', k)
  BY <1>1 DEF Rest
<1>4. cache'[r.topic] = None /\ \A q \in Topic : q # r.topic => cache'[q] = cache[q]
  BY <1>1 DEF Removed, Types, ScreenTypes
<1>5. CASE current = r.topic
  <2>1. current' = None /\ screen' = <<>>
    BY <1>1, <1>5 DEF Removed
  <2>2. hasMore => cursor \in DOMAIN log
    BY <1>2 DEF Good, Since
  <2>3. Good(log', turn', current', screen', hasMore', cursor')
    BY <1>1, <2>1, <2>2, NoneOfNone, GoodNothing
  <2>4. Known(turn', screen') /\ Finished(turn', run', screen')
    BY <2>1 DEF Known, Finished
  <2>5. CacheFits'
    BY <1>1, <1>4, <1>5 DEF Waits, CacheFits
  <2>6. UsedFits'
    BY <1>1, <2>1 DEF Waits, UsedFits
  <2> QED
    BY <1>1, <1>3, <2>3, <2>4, <2>5, <2>6 DEF ScreenFits
<1>6. CASE current # r.topic
  <2>1. UNCHANGED <<current, screen>>
    BY <1>1, <1>6 DEF Removed
  <2>2. CacheFits' /\ UsedFits'
    BY <1>1, <1>4, <2>1 DEF Waits, CacheFits, UsedFits
  <2> QED
    BY <1>1, <1>2, <1>3, <2>1, <2>2 DEF ScreenFits
<1> QED
  BY <1>5, <1>6

\* The page tells an answer from a failure.
ErrorIsNoPage ==
  \A messages, more, from : Error # [messages |-> messages, has_more |-> more, cursor |-> from]

LEMMA AnswerWaits ==
  ASSUME ErrorIsNoPage, Basis, Waits, NEW r \in requests, Answer(r)
  PROVE  ScreenFits' /\ CacheFits' /\ UsedFits' /\ \A q \in requests' : RequestFits(q)'
<1> DEFINE a == [r EXCEPT !.reply = Reply(r)]
<1>1. /\ UNCHANGED <<turn, run, log, wire, current, screen, hasMore, cursor, cache>> /\ Types /\ LogFits
      /\ requests = {r} /\ RequestFits(r) /\ r \in Requests /\ r.reply = None
      /\ topics' = IF r.kind = "delete" THEN topics \ {r.topic} ELSE topics
  BY DEF Answer, view, Basis, Waits, OneAtATime, Types, LoadTypes
<1>2. requests' = {a}
  BY <1>1 DEF Answer, Reply
<1>3. a.kind = r.kind /\ a.topic = r.topic /\ a.before = r.before /\ a.was = r.was /\ a.reply = Reply(r)
      /\ r.kind \in {"select", "more", "delete"} /\ r.topic \in Topic /\ r.before \in (DOMAIN log) \cup {None}
  BY <1>1 DEF Requests
<1> HIDE DEF a
<1>4. Onward /\ Touched(screen, screen')
  BY <1>1, OnwardSame, Untouched
<1>5. Loading' = Loading
  BY <1>1, <1>2, <1>3 DEF Loading
<1>6. \A k \in Turn : (Heard(k)' => Heard(k)) /\ (Naming(k) => Naming(k)') /\ Quiet(turn[k].topic)
                      /\ (Busy(turn', k) <=> Busy(turn, k))
  BY <1>1, <1>4, QuietAll DEF Heard, Has, Naming
<1>7. ScreenFits'
  BY <1>1, <1>4, <1>5, <1>6, ScreenStays
<1>8. CacheFits' /\ UsedFits'
  BY <1>1 DEF Waits, CacheFits, UsedFits
<1> DEFINE p == Page(r.topic, r.before)
           more == IF Active(r.topic) /\ r.kind = "select" THEN <<Placeholder>> ELSE <<>>
<1>9. /\ p \in Replied /\ PageOf(r.topic, r.before, p) /\ p.messages \in Seq(Message)
      /\ Finished(turn, run, p.messages)
      /\ Rest => Settled(turn, p.messages)
  BY <1>1, <1>3, PageSaved
<1>10. r.kind # "delete" => Reply(r) = IF r.topic \in topics THEN [p EXCEPT !.messages = @ \o more] ELSE Error
  BY DEF Reply
<1>11. more = <<>> \/ (more = <<Placeholder>> /\ r.kind = "select")
  OBVIOUS
<1>12. r.kind # "select" => more = <<>>
  OBVIOUS
<1>13. ASSUME r.kind = "select" PROVE r.before = None /\ PageOf(r.topic, None, p)
  BY <1>1, <1>9, <1>13 DEF RequestFits
<1> HIDE DEF p, more
<1> SUFFICES ASSUME NEW q \in requests' PROVE RequestFits(q)'
  BY <1>7, <1>8
<1> DEFINE reply == Reply(r)
<1>14. q.kind = r.kind /\ q.topic = r.topic /\ q.before = r.before /\ q.was = r.was /\ q.reply = reply
  BY <1>2, <1>3
<1>15. CASE r.kind = "select"
  <2>1. r.topic = current /\ r.before = None /\ r.topic \in topics /\ Rest /\ topics' = topics
    BY <1>1, <1>15, CalmRequest DEF RequestFits
  <2>2. Reply(r) = [messages |-> p.messages \o more, has_more |-> p.has_more, cursor |-> p.cursor]
    BY <1>9, <1>10, <1>15, <2>1 DEF Replied
  <2>3. Reply(r) # Error
    BY <2>2 DEF ErrorIsNoPage
  <2>4. Good(log, turn, r.topic, p.messages, p.has_more, p.cursor)
    BY <1>1, <1>3, <1>13, <1>15, PageGood
  <2>5. Calm(log, turn, run, r.topic, p.messages, p.has_more, p.cursor)
    BY <1>9, <2>1, <2>4 DEF Calm
  <2>6. Calm(log, turn, run, r.topic, p.messages \o more, p.has_more, p.cursor)
    <3>1. CASE more = <<>>
      <4>1. p.messages \o more = p.messages
        BY <1>9, <3>1
      <4> QED
        BY <2>5, <4>1
    <3>2. CASE more = <<Placeholder>>
      <4> DEFINE s == p.messages \o <<Placeholder>>
                 N == Len(p.messages)
      <4>1. Placeholder \in Message /\ Placeholder.turn = None
        BY ChatAssumption DEF Placeholder, Entry, Message, TurnOrNone
      <4> HIDE DEF Placeholder
      <4>2. \A i \in DOMAIN log : ~RowOf(log, i, Placeholder)
        <5>1. \A i \in DOMAIN log : log[i] \in Rows
          BY <1>1 DEF Types, ServerTypes
        <5> QED
          BY <4>1, <5>1, ChatAssumption DEF RowOf, Rows
      <4>3. Good(log, turn, r.topic, s, p.has_more, p.cursor)
        BY <1>9, <2>4, <4>1, <4>2, GoodAppends DEF HomeAt
      <4>4. \A n \in DOMAIN s : (n \in DOMAIN p.messages /\ s[n] = p.messages[n]) \/ s[n].turn = None
        <5>1. /\ N \in Nat /\ DOMAIN p.messages = 1..N /\ DOMAIN s = 1..N + 1 /\ s[N + 1] = Placeholder
              /\ \A n \in 1..N : s[n] = p.messages[n]
          BY <1>9, <4>1
        <5> HIDE DEF s, N
        <5> QED
          BY <4>1, <5>1
      <4>5. None \notin Turn
        BY ChatAssumption
      <4> HIDE DEF s
      <4>6. Settled(turn, s) /\ Finished(turn, run, s)
        BY <2>5, <4>4, <4>5 DEF Calm, Settled, Finished
      <4>7. s = p.messages \o more
        BY <3>2 DEF s
      <4> QED
        BY <4>3, <4>6, <4>7 DEF Calm
    <3> QED
      BY <1>11, <3>1, <3>2
  <2>7. /\ q.kind = "select" /\ q.topic = current /\ q.before = None /\ q.reply # Error
        /\ Calm(log, turn, run, q.topic, q.reply.messages, q.reply.has_more, q.reply.cursor)
    BY <1>14, <1>15, <2>1, <2>2, <2>3, <2>6
  <2>8. q.topic \in topics'
    BY <1>14, <2>1
  <2> QED
    BY <1>1, <2>7, <2>8 DEF RequestFits
<1>16. CASE r.kind = "more"
  <2>1. p.messages \o more = p.messages
    BY <1>9, <1>12, <1>16
  <2>2. Reply(r) = Error \/ Reply(r) = p
    BY <1>9, <1>10, <1>16, <2>1 DEF Replied
  <2>3. q.kind = "more" /\ q.topic = current /\ q.before = cursor /\ cursor # None /\ hasMore
    BY <1>1, <1>14, <1>16 DEF RequestFits
  <2>4. Page(q.topic, q.before)' = Page(q.topic, q.before)
    BY <1>1 DEF Page
  <2>5. p = Page(q.topic, q.before)
    BY <1>14 DEF p
  <2>6. q.reply \notin {None, Error} => q.reply = Page(q.topic, q.before)
    BY <1>14, <2>2, <2>5
  <2> QED
    BY <1>1, <2>3, <2>4, <2>6 DEF RequestFits
<1>17. CASE r.kind = "delete"
  <2>1. q.kind = "delete" /\ q.was = current
    BY <1>1, <1>14, <1>17 DEF RequestFits
  <2> QED
    BY <1>1, <2>1 DEF RequestFits
<1> QED
  BY <1>3, <1>15, <1>16, <1>17

LEMMA ServerWaits ==
  ASSUME Basis, Basis', Waits, NEW k \in Turn,
         Begin(k) \/ Dropped(k) \/ Token(k) \/ Finish(k) \/ Save(k) \/ Fail(k)
  PROVE  ScreenFits' /\ CacheFits' /\ UsedFits' /\ \A r \in requests' : RequestFits(r)'
<1>1. Onward /\ UNCHANGED <<view, requests>> /\ Types
  BY NextOnward DEF Basis, Next, Server, Begin, Dropped, Token, Finish, Save, Fail
<1>2. UNCHANGED <<current, hasMore, cursor, cache>>
  BY <1>1 DEF view
<1>3. topics' = topics \/ \E t : topics' = topics \cup {t} /\ Used(turn', t)
  <2>1. CASE Begin(k) /\ turn[k].topic = None
    <3>1. topics' = topics \cup {Fresh} /\ turn'[k].topic = Fresh
      <4> DEFINE f == Fresh
                 p == IF turn[k].unheard THEN "over" ELSE "open"
      <4>1. /\ turn \in [Turn -> Turns] /\ topics' = topics \cup {f}
            /\ turn' = [turn EXCEPT ![k].phase = p, ![k].topic = f]
        BY <1>1, <2>1 DEF Types, ServerTypes, Begin
      <4> HIDE DEF f, p
      <4>2. turn'[k].topic = f
        BY <4>1 DEF Turns
      <4> QED
        BY <4>1, <4>2 DEF f
    <3> QED
      BY <3>1 DEF Used
  <2>2. CASE ~(Begin(k) /\ turn[k].topic = None)
    BY <2>2 DEF Begin, Dropped, Token, Finish, Save, Fail, server
  <2> QED
    BY <2>1, <2>2
<1>4. ScreenFits'
  BY RunShows, SaveShows, BeginShows, DroppedShows
<1>5. CacheFits'
  BY <1>1, <1>2, CacheStays
<1>6. UsedFits'
  <2>1. \A t \in topics' : t \in topics \/ Used(turn', t)
    BY <1>3
  <2> QED
    BY <1>1, <1>2, <2>1, UsedStays
<1>7. \A r \in requests' : RequestFits(r)'
  <2>1. topics \subseteq topics'
    BY <1>3
  <2> QED
    BY <1>1, <1>2, <2>1, RequestsStay
<1> QED
  BY <1>4, <1>5, <1>6, <1>7

LEMMA UploadsWait ==
  ASSUME Basis, Basis', Waits, NEW k \in Turn, Created(k) \/ Uploaded(k) \/ UploadFails(k)
  PROVE  ScreenFits' /\ CacheFits' /\ UsedFits' /\ \A r \in requests' : RequestFits(r)'
<1>1. Onward /\ UNCHANGED <<requests, hasMore, cursor>> /\ Types /\ topics \subseteq topics'
      /\ TurnFits(k) /\ turn \in [Turn -> Turns]
  BY NextOnward DEF Basis, TurnsFit, Types, ServerTypes, Next, Uploads, Created, Uploaded, UploadFails, server
<1>2. ScreenFits'
  BY CreatedShows, UploadedShows, UploadFailsShows
<1>3. CASE Created(k)
  <2>1. requests = {} /\ current = None /\ UNCHANGED cache
    BY <1>3, CreatedShows DEF Created
  <2>2. topics' = topics \cup {current'} /\ turn'[k].topic = current'
    <3> DEFINE f == Fresh
    <3>1. /\ topics' = topics \cup {f} /\ current' = f
          /\ turn' = [turn EXCEPT ![k].phase = "upload", ![k].topic = f]
      BY <1>3 DEF Created
    <3> HIDE DEF f
    <3> QED
      BY <1>1, <3>1 DEF Turns
  <2>3. Used(turn', current')
    BY <2>2 DEF Used
  <2>4. UsedFits'
    BY <1>1, <2>2, <2>3, UsedStays
  <2>5. \A t \in Topic : t # current
    BY <2>1, ChatAssumption
  <2>6. CacheFits'
    BY <1>1, <2>1, <2>5, CacheStays
  <2> QED
    BY <1>1, <1>2, <2>1, <2>4, <2>6
<1>4. CASE Uploaded(k) \/ UploadFails(k)
  <2>1. UNCHANGED <<topics, current>>
    BY <1>4 DEF Uploaded, UploadFails, server
  <2>2. UsedFits'
    BY <1>1, <2>1, UsedStays
  <2>3. \A r \in requests' : RequestFits(r)'
    BY <1>1, <2>1, RequestsStay
  <2>4. \A t \in Topic : cache'[t] = cache[t] \/ (UploadFails(k) /\ t = turn[k].target)
    BY <1>1, <1>4 DEF Types, ScreenTypes, Uploaded, UploadFails, UpdateAssistant, Kept
  <2>5. ASSUME NEW t \in Topic, UploadFails(k), t = turn[k].target PROVE t = current' /\ Used(turn', t)
    <3>1. t = current' /\ t # None
      BY <1>1, <2>1, <2>5, UploadFailsShows, ChatAssumption DEF TurnFits
    <3> QED
      BY <2>2, <3>1 DEF UsedFits
  <2>6. CacheFits'
    BY <1>1, <2>1, <2>4, <2>5, CacheStays
  <2> QED
    BY <1>2, <2>2, <2>3, <2>6
<1> QED
  BY <1>3, <1>4

LEMMA DeliverWaits ==
  ASSUME Basis, Basis', Waits, NEW k \in Turn, Deliver(k)
  PROVE  ScreenFits' /\ CacheFits' /\ UsedFits' /\ \A r \in requests' : RequestFits(r)'
<1>1. Onward /\ UNCHANGED <<topics, requests, hasMore, cursor>> /\ Types /\ TurnFits(k)
      /\ turn[k].phase = "open"
  BY NextOnward DEF Basis, TurnsFit, Next, Deliver, server
<1>2. ScreenFits' /\ current' = turn'[k].topic /\ current' = turn[k].topic /\ (current = current' \/ current = None)
  BY DeliverShows
<1>3. Used(turn', current')
  BY <1>2 DEF Used
<1>4. UsedFits'
  BY <1>1, <1>3, UsedStays
<1>5. requests # {} => current' = current
  <2>1. SUFFICES ASSUME NEW r \in requests, current = None PROVE FALSE
    BY <1>2
  <2>2. r.kind \in {"select", "more", "delete"}
    BY <1>1 DEF Types, LoadTypes, Requests
  <2>3. Busy(turn, k)
    BY <1>1 DEF Busy
  <2>4. r.kind = "more"
    BY <2>2, <2>3, CalmRequest DEF Rest
  <2> QED
    BY <2>1, <2>4, MoreRequest
<1>6. \A r \in requests' : RequestFits(r)'
  BY <1>1, <1>5, RequestsStay
<1>7. \A t \in Topic : cache'[t] = cache[t] \/ t = turn[k].target
  <2>1. cache' = cache \/ \E m : cache' = Kept(k, m)
    BY DEF Deliver, OnInfo, OnText, OnDone, OnError, UpdateAssistant
  <2> QED
    BY <1>1, <2>1 DEF Types, ScreenTypes, Kept
<1>8. \A t \in Topic : t = turn[k].target => t = current'
  BY <1>1, <1>2, ChatAssumption DEF TurnFits
<1>9. \A t \in Topic : t = current => t = current'
  BY <1>2, ChatAssumption
<1>10. CacheFits'
  BY <1>1, <1>3, <1>7, <1>8, <1>9, CacheStays
<1> QED
  BY <1>2, <1>4, <1>6, <1>10

LEMMA CancelWaits ==
  ASSUME Basis, Basis', Waits, Cancel
  PROVE  ScreenFits' /\ CacheFits' /\ UsedFits' /\ \A r \in requests' : RequestFits(r)'
<1>1. Onward /\ UNCHANGED <<topics, requests, current, hasMore, cursor, cache>>
  BY NextOnward DEF Next, User, Cancel, server
<1>2. CacheFits' /\ UsedFits'
  BY <1>1, CacheStays, UsedStays
<1> QED
  BY <1>1, <1>2, CancelShows, RequestsStay

LEMMA SendWaits ==
  ASSUME ~Switching, Basis, Basis', Waits, NEW k \in Turn, NEW files \in BOOLEAN, Send(k, files)
  PROVE  ScreenFits' /\ CacheFits' /\ UsedFits' /\ \A r \in requests' : RequestFits(r)'
<1>1. Onward /\ UNCHANGED <<topics, requests, current, cache>>
  BY NextOnward DEF Next, User, Send, server
<1>2. CacheFits' /\ UsedFits'
  BY <1>1, CacheStays, UsedStays
<1>3. requests' = {}
  BY <1>1, SendShows
<1> QED
  BY <1>2, <1>3, SendShows

LEMMA ElsewhereWaits ==
  ASSUME Basis, Waits, NEW k \in Turn, NEW t \in Topic, Elsewhere(k, t)
  PROVE  ScreenFits' /\ CacheFits' /\ UsedFits' /\ \A r \in requests' : RequestFits(r)'
<1>1. /\ Onward /\ topics' = topics \cup {t} /\ turn'[k].topic = t
      /\ UNCHANGED <<requests, current, hasMore, cursor, cache>>
  BY ElsewhereIs, ElsewhereOnward DEF Basis, view
<1>2. Used(turn', t)
  BY <1>1 DEF Used
<1>3. CacheFits'
  BY <1>1, CacheStays
<1>4. UsedFits'
  BY <1>1, <1>2, UsedStays
<1>5. \A r \in requests' : RequestFits(r)'
  BY <1>1, RequestsStay
<1> QED
  BY <1>3, <1>4, <1>5, ElsewhereShows

LEMMA BreakWaits ==
  ASSUME Basis, Basis', Waits, NEW k \in Turn, Break(k)
  PROVE  ScreenFits' /\ CacheFits' /\ UsedFits' /\ \A r \in requests' : RequestFits(r)'
<1>1. /\ Onward /\ UNCHANGED <<topics, requests, current, hasMore, cursor>> /\ Types /\ TurnFits(k)
      /\ turn[k].phase \in {"sent", "open"} /\ cache' = Kept(k, screen')
  BY BreakIs, BreakOnward DEF Basis, TurnsFit, server
<1>2. UsedFits'
  BY <1>1, UsedStays
<1>3. \A t \in Topic : cache'[t] = cache[t] \/ t = turn[k].target
  BY <1>1 DEF Types, ScreenTypes, Kept
<1>4. ASSUME NEW t \in Topic, t = turn[k].target PROVE t = current' /\ Used(turn', t)
  <2>1. t # None /\ TurnShown(k) /\ ~Naming(k)
    BY <1>1, <1>4, ChatAssumption DEF Waits, ScreenFits, Busy, Naming
  <2>2. t = current'
    BY <1>1, <1>4, <2>1 DEF TurnShown, TurnFits
  <2> QED
    BY <1>2, <2>1, <2>2 DEF UsedFits
<1>5. CacheFits'
  BY <1>1, <1>3, <1>4, CacheStays
<1>6. \A r \in requests' : RequestFits(r)'
  BY <1>1, RequestsStay
<1> QED
  BY <1>2, <1>5, <1>6, BreakShows

LEMMA NextWaits ==
  ASSUME ~Switching, MaxRequests = 1, ErrorIsNoPage, Basis, Basis', Waits, [Next]_vars
  PROVE  Waits'
<1> DEFINE Fit == ScreenFits' /\ CacheFits' /\ UsedFits' /\ \A r \in requests' : RequestFits(r)'
<1>1. LogFits' /\ OneAtATime'
  BY NextLog, NextOne DEF Waits
<1>2. ASSUME Server PROVE Fit
  BY <1>2, ServerWaits DEF Server
<1>3. ASSUME Uploads PROVE Fit
  BY <1>3, UploadsWait DEF Uploads
<1>4. ASSUME \E k \in Turn : Deliver(k) PROVE Fit
  BY <1>4, DeliverWaits
<1>5. ASSUME Replies PROVE Fit
  <2>1. ASSUME NEW r \in requests, Selected(r) \/ LoadedMore(r) \/ Removed(r)
        PROVE  Fit
    <3>1. ScreenFits' /\ CacheFits' /\ UsedFits' /\ requests' = {}
      BY <2>1, SelectedWaits, LoadedMoreWaits, RemovedWaits
    <3> QED
      BY <3>1
  <2>2. ASSUME NEW r \in requests, Answer(r) PROVE Fit
    BY <2>2, AnswerWaits
  <2> QED
    BY <1>5, <2>1, <2>2 DEF Replies
<1>6. ASSUME User PROVE Fit
  <2>1. ASSUME NEW t \in topics \cup {None}, SelectTopic(t) PROVE Fit
    BY <2>1, SelectWaits
  <2>2. ASSUME LoadMore PROVE Fit
    BY <2>2, LoadMoreWaits
  <2>3. ASSUME NEW k \in Turn, NEW files \in BOOLEAN, Send(k, files) PROVE Fit
    BY <2>3, SendWaits
  <2>4. ASSUME Cancel PROVE Fit
    BY <2>4, CancelWaits
  <2>5. ASSUME NEW t \in topics, RemoveTopic(t) PROVE Fit
    BY <2>5, RemoveWaits
  <2> HIDE DEF Fit
  <2> QED
    BY <1>6, <2>1, <2>2, <2>3, <2>4, <2>5 DEF User
<1>7. ASSUME UNCHANGED vars PROVE Fit
  <2>1. Onward /\ UNCHANGED <<topics, run, turn, log, wire, requests, current, screen, hasMore, cursor, cache>>
    BY <1>7, OnwardSame DEF vars, server, view, Basis
  <2>2. CacheFits' /\ UsedFits'
    BY <2>1, CacheStays, UsedStays
  <2>3. \A r \in requests' : RequestFits(r)'
    BY <2>1, RequestsStay
  <2>4. Loading' = Loading /\ Touched(screen, screen')
    BY <2>1, Untouched DEF Loading, Basis, Types
  <2>5. \A k \in Turn : (Heard(k)' => Heard(k)) /\ (Naming(k) => Naming(k)') /\ Quiet(turn[k].topic)
                        /\ (Busy(turn', k) <=> Busy(turn, k))
    BY <2>1, QuietAll DEF Heard, Has, Naming
  <2>6. ScreenFits'
    BY <2>1, <2>4, <2>5, ScreenStays
  <2> QED
    BY <2>2, <2>3, <2>6
<1>8. ASSUME Outside PROVE Fit
  BY <1>8, ElsewhereWaits, BreakWaits DEF Outside
<1> HIDE DEF Fit
<1>9. Fit
  BY <1>2, <1>3, <1>4, <1>5, <1>6, <1>7, <1>8 DEF Next
<1> QED
  BY <1>1, <1>9 DEF Fit, Waits

LEMMA InitWaits ==
  ASSUME Init
  PROVE  Waits
<1>1. Types
  BY InitBasis DEF Basis
<1>2. LogFits
  <2>1. \A i \in DOMAIN log : log[i].turn \in Past /\ log[i].topic \in Old
    BY FirstRows
  <2>2. \A i \in DOMAIN log : log[i].turn \notin Turn
    BY <2>1, ChatAssumption
  <2>3. \A k \in Turn : run[k] # "saved"
    BY ChatAssumption DEF Init
  <2>4. \A i, j \in DOMAIN log : log[i].turn = log[j].turn =>
          log[i].topic = log[j].topic /\ (log[i].role = log[j].role => i = j)
    BY FirstRows
  <2> QED
    BY <2>1, <2>2, <2>3, <2>4 DEF LogFits
<1>3. \A k \in Turn : ~Busy(turn, k)
  BY DEF Init, Busy
<1>4. requests = {} /\ screen = <<>> /\ current = None /\ hasMore = FALSE /\ topics = Old
  BY DEF Init
<1>5. ScreenFits
  <2>1. Good(log, turn, current, screen, hasMore, cursor)
    BY <1>1, <1>4, NoneOfNone, GoodNothing
  <2>2. Known(turn, screen) /\ Finished(turn, run, screen)
    BY <1>4 DEF Known, Finished
  <2> QED
    BY <1>3, <2>1, <2>2 DEF ScreenFits
<1>6. CacheFits
  BY DEF Init, CacheFits
<1>7. UsedFits
  BY <1>4 DEF UsedFits, Used
<1> QED
  BY <1>2, <1>3, <1>4, <1>5, <1>6, <1>7 DEF Waits, OneAtATime

LEMMA WaitsHolds ==
  ASSUME ~Switching, MaxRequests = 1, ErrorIsNoPage
  PROVE  Spec => [](Basis /\ Waits)
<1>1. Init => Basis /\ Waits
  BY InitBasis, InitWaits
<1>2. Basis /\ Waits /\ [Next]_vars => (Basis /\ Waits)'
  BY NextBasis, NextWaits
<1> QED
  BY <1>1, <1>2, PTL DEF Spec

\* Nothing is under way.
LEMMA RestIs ==
  ASSUME Basis, Waits, AtRest
  PROVE  /\ Good(log, turn, current, screen, hasMore, cursor)
         /\ Finished(turn, run, screen) /\ Settled(turn, screen) /\ Types /\ LogFits
<1>1. Rest /\ ~Loading
  BY DEF AtRest, Outstanding, Rest, Busy, Loading
<1> QED
  BY <1>1, AtEase DEF Basis, Waits

LEMMA RestCurrent ==
  ASSUME Basis, Waits, AtRest
  PROVE  \A i \in DOMAIN screen :
           LET k == screen[i].turn IN k = None \/ Nameless(k) \/ Home(k) = current
<1>1. Good(log, turn, current, screen, hasMore, cursor) /\ LogFits
  BY RestIs
<1>2. SUFFICES ASSUME NEW n \in DOMAIN screen, NEW k, k = screen[n].turn, k # None, ~Nameless(k)
               PROVE  Home(k) = current
  OBVIOUS
<1>3. HomeAt(log, turn, current, k)
  BY <1>1, <1>2 DEF Good, Homes
<1>4. CASE k \in Turn
  BY <1>1, <1>2, <1>3, <1>4 DEF HomeAt, Lost, Nameless, Home, LogFits
<1>5. CASE k \notin Turn
  <2>1. PICK i \in DOMAIN log : log[i].turn = k /\ log[i].topic = current
    BY <1>2, <1>3, <1>5 DEF HomeAt, Lost
  <2> DEFINE rows == {log[j] : j \in DOMAIN log}
             row == CHOOSE q \in rows : q.turn = k
  <2>2. row \in rows /\ row.turn = k
    BY <2>1
  <2>3. PICK j \in DOMAIN log : row = log[j]
    BY <2>2
  <2>4. row.topic = current
    BY <1>1, <2>1, <2>2, <2>3 DEF LogFits
  <2> QED
    BY <1>5, <2>4 DEF Home
<1> QED
  BY <1>4, <1>5

LEMMA RestNoGaps ==
  ASSUME Basis, Waits, AtRest
  PROVE  NoGaps
<1>1. Good(log, turn, current, screen, hasMore, cursor) /\ Types
  BY RestIs
<1> DEFINE here == {i \in DOMAIN log : /\ log[i].topic = current
                                       /\ log[i].turn \in Turn => ~turn[log[i].turn].unheard}
           row(s) == {i \in here : log[i].turn = s.turn /\ log[i].role = s.role}
           shown == UNION {row(screen[n]) : n \in DOMAIN screen}
<1>2. here = Visible(log, turn, current)
  BY DEF Visible
<1>3. \A s : row(s) = {i \in here : RowOf(log, i, s)}
  BY DEF RowOf
<1>4. shown = {i \in here : IsShown(log, i, screen)}
  BY <1>3 DEF IsShown
<1>5. here \subseteq Nat
  BY <1>1 DEF Types, ServerTypes
<1> HIDE DEF here, row
<1>6. ASSUME NEW m \in DOMAIN screen, NEW n \in DOMAIN screen, m < n
      PROVE  /\ \A i \in row(screen[m]), j \in row(screen[n]) : i < j
             /\ <<screen[m].turn, screen[m].role>> # <<screen[n].turn, screen[n].role>>
                  \/ screen[m].turn = None
  <2>1. Ordered(log, turn, current, screen) /\ Distinct(screen)
    BY <1>1 DEF Good
  <2>2. \A i \in row(screen[m]), j \in row(screen[n]) : i < j
    BY <1>2, <1>3, <1>6, <2>1 DEF Ordered
  <2>3. screen[m].turn = screen[n].turn /\ screen[m].role = screen[n].role => screen[m].turn = None
    BY <1>6, <2>1 DEF Distinct
  <2> QED
    BY <2>2, <2>3
<1> HIDE DEF shown
<1>7. ASSUME NEW i \in shown, NEW j \in shown
      PROVE  i..j \cap here \subseteq shown
  <2>1. SUFFICES ASSUME NEW h \in here, h \in i..j PROVE h \in shown
    OBVIOUS
  <2>2. i \in here /\ IsShown(log, i, screen) /\ i \in Nat /\ h \in Nat /\ j \in Nat /\ i <= h
    BY <1>4, <1>5, <1>7, <2>1
  <2>3. CASE h = i
    BY <1>7, <2>3
  <2>4. CASE h # i
    <3>1. i < h
      BY <2>2, <2>4
    <3>2. IsShown(log, h, screen)
      BY <1>1, <1>2, <2>2, <3>1 DEF Good, Suffix
    <3> QED
      BY <1>4, <3>2
  <2> QED
    BY <2>3, <2>4
<1> QED
  BY <1>6, <1>7 DEF NoGaps, here, row, shown

LEMMA RestAnswerShown ==
  ASSUME Basis, Waits, AtRest,
         NEW k \in Turn, run[k] = "saved", turn[k].topic = current, ~turn[k].unheard,
         \A i, j \in DOMAIN log : i < j /\ log[i].turn = k => log[j].topic # current \/ log[j].turn = k
  PROVE  \E n \in DOMAIN screen :
           /\ screen[n].turn = k /\ screen[n].role = "assistant"
           /\ screen[n].status = "done" /\ screen[n].text = Tokens
<1>1. /\ Good(log, turn, current, screen, hasMore, cursor) /\ Finished(turn, run, screen)
      /\ Settled(turn, screen) /\ Types /\ LogFits
  BY RestIs
<1>2. PICK i \in DOMAIN log : i + 1 \in DOMAIN log /\ log[i + 1].turn = k /\ log[i + 1].role = "assistant"
                             /\ log[i].turn = k /\ log[i].role = "user"
  BY <1>1 DEF LogFits
<1>3. log \in Seq(Rows) /\ \A j \in DOMAIN log : j \in Nat /\ log[j].role \in {"user", "assistant"}
  <2>1. log \in Seq(Rows)
    BY <1>1 DEF Types, ServerTypes
  <2>2. \A j \in DOMAIN log : j \in Nat /\ log[j] \in Rows
    BY <2>1
  <2>3. \A row \in Rows : row.role \in {"user", "assistant"}
    BY DEF Rows
  <2> QED
    BY <2>1, <2>2, <2>3
<1>4. i + 1 \in Visible(log, turn, current)
  BY <1>1, <1>2 DEF Visible, LogFits
<1>5. ASSUME NEW j \in DOMAIN log, i + 1 < j PROVE log[j].topic # current
  <2>1. SUFFICES ASSUME log[j].turn = k PROVE FALSE
    BY <1>2, <1>5
  <2>2. j = i \/ j = i + 1
    BY <1>1, <1>2, <1>3, <2>1 DEF LogFits
  <2> QED
    BY <1>3, <1>5, <2>2
<1>6. IsShown(log, i + 1, screen)
  BY <1>1, <1>4, <1>5 DEF Good, Latest
<1>7. PICK n \in DOMAIN screen : screen[n].turn = k /\ screen[n].role = "assistant"
  BY <1>2, <1>6 DEF IsShown, RowOf
<1>8. Over(turn, k)
  BY <1>1, <1>7 DEF Settled
<1> QED
  BY <1>1, <1>7, <1>8 DEF Finished

\* A user who waits for what is under way sees, when nothing is, messages of the
\* topic that is current and of no other, however pages, streams, uploads,
\* cancelled streams, connections that break, the runs behind them and any number
\* of runs that others start followed each other; but for the messages that were
\* sent to no topic and given up before the page learnt their topic (Nameless).
THEOREM ScreenIsCurrentHolds ==
  ASSUME ~Switching, MaxRequests = 1, ErrorIsNoPage
  PROVE  Spec => []ScreenIsCurrent
<1>1. Basis /\ Waits => ScreenIsCurrent
  BY RestCurrent DEF ScreenIsCurrent
<1> QED
  BY <1>1, WaitsHolds, PTL

\* For that user pages, placeholders and streamed messages never overlap, keep
\* the order of the rows and leave nothing out between two messages shown, but
\* for the rows of runs that the page does not hear to their end: others' runs,
\* and its own after a cancelled or broken stream.
THEOREM NoGapsHolds ==
  ASSUME ~Switching, MaxRequests = 1, ErrorIsNoPage
  PROVE  Spec => []NoGaps
<1>1. Basis /\ Waits => NoGaps
  <2>1. ~AtRest => NoGaps
    BY DEF NoGaps
  <2> QED
    BY <2>1, RestNoGaps
<1> QED
  BY <1>1, WaitsHolds, PTL

\* For that user the answer that was saved last is on the screen of its topic in
\* full, unless its stream was cancelled or broke, or the run is someone else's.
THEOREM AnswerShownHolds ==
  ASSUME ~Switching, MaxRequests = 1, ErrorIsNoPage
  PROVE  Spec => []AnswerShown
<1>1. Basis /\ Waits => AnswerShown
  BY RestAnswerShown DEF AnswerShown
<1> QED
  BY <1>1, WaitsHolds, PTL

=============================================================================
