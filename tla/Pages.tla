------------------------------- MODULE Pages --------------------------------
(***************************************************************************)
(* A client reads a list page by page (src/handlers/topic.ts, run.ts,       *)
(* event.ts, response.ts; src/db.ts, events.ts) while its rows are written. *)
(* A page ends in a cursor; the next request hands it back.  Topics, runs   *)
(* and messages are read by key: the query takes the rows after the cursor. *)
(* The runs of one topic and the events are read whole on every request,    *)
(* and the cursor is looked up in them.                                     *)
(***************************************************************************)
EXTENDS Integers, FiniteSets, FiniteSetsExt

CONSTANTS
  Topics, RunIds, EventIds, \* ids the rows may get: random, never given twice
  MaxMessages,              \* bound: messages, numbered from 1 by the database
  MaxClock,                 \* bound: seconds
  MaxRows,                  \* bound: rows ever written
  Limits,                   \* limits a client asks for
  Lists,                    \* lists read, with the status asked for
  NoCursor

ASSUME PagesAssumption ==
  /\ Topics \cup RunIds \cup EventIds \subseteq Nat /\ \A i \in Topics \cup RunIds \cup EventIds : i > MaxMessages
  /\ Limits \subseteq Nat \ {0} /\ {MaxMessages, MaxClock, MaxRows} \subseteq Nat
  /\ Lists \subseteq {"topics", "messages", "runs", "topicRuns", "events"} \X STRING
  /\ NoCursor \notin [key : Int \X Int \X Int, id : Nat]

VARIABLES
  clock,
  topics,    \* id -> created_at
  messages,  \* id -> topic and created_at
  runs,      \* id -> topic, started_at, status
  events,    \* id -> topic, next_run_at, created_at, status
  used,      \* ids given so far, of every table
  reader,    \* the client: list, status, topic, limit; cursor; what it has been shown
  quiet,     \* history: ids that were in the list at the first page and have not been written since
  lost       \* history: a page was asked for with a cursor at a row written since

tables == <<topics, messages, runs, events>>
pagesVars == <<clock, tables, used, reader, quiet, lost>>

Keyed == {"topics", "messages", "runs"}

-----------------------------------------------------------------------------
(* What the queries read.                                                  *)

MessagesOf(t) == {m \in DOMAIN messages : messages[m].topic = t}

last_message_at(t) ==
  Max({topics[t]} \cup {messages[m].created_at : m \in MessagesOf(t)})

\* A process that runs a topic is alive: runs of dead processes are in Runs.
getActiveRunTopics == {runs[r].topic : r \in {i \in DOMAIN runs : runs[i].status = "running"}}

\* The columns the list is ordered by, the smallest first.
Key(list, i) ==
  CASE list = "topics"    -> <<-last_message_at(i), 0, -i>>
    [] list = "messages"  -> <<0, 0, -i>>
    [] list = "runs"      -> <<-runs[i].started_at, 0, -i>>
    [] list = "topicRuns" -> <<-runs[i].started_at, 0, i>>
    [] list = "events"    -> <<events[i].next_run_at, events[i].created_at, i>>

Before(k, l) ==
  \E n \in 1..3 : k[n] < l[n] /\ \A h \in 1..(n - 1) : k[h] = l[h]

\* The WHERE clause, the cursor's condition aside.
Selected(list, status, topic) ==
  CASE list = "topics"    -> DOMAIN topics
    [] list = "messages"  -> MessagesOf(topic)
    [] list = "runs"      -> {r \in DOMAIN runs : status \in {"all", runs[r].status}}
    [] list = "topicRuns" -> {r \in DOMAIN runs : runs[r].topic = topic}
    [] list = "events"    -> {e \in DOMAIN events : status \in {"all", "canceled"} \/ events[e].status # "canceled"}

\* The filter the handler applies to the rows it was given.
PostFilter(list, status, rows) ==
  CASE list = "topics" /\ status = "active"       -> rows \cap getActiveRunTopics
    [] list = "topics" /\ status = "idle"         -> rows \ getActiveRunTopics
    [] list = "topicRuns" /\ status # "all"       -> {r \in rows : runs[r].status = status}
    [] list = "events" /\ status # "all"          -> {e \in rows : events[e].status = status}
    [] OTHER                                      -> rows

\* The first rows in the list's order: LIMIT, or slice(0, n).
First(list, rows, n) ==
  {i \in rows : Cardinality({j \in rows : Before(Key(list, j), Key(list, i))}) < n}

LastOf(list, rows) == CHOOSE i \in rows : \A j \in rows : ~Before(Key(list, i), Key(list, j))

encodeCursor(list, i) == [key |-> Key(list, i), id |-> i]

paginate(list, rows, limit) ==
  LET data == First(list, rows, limit)
  IN  [data     |-> data,
       has_more |-> Cardinality(rows) > limit,
       cursor   |-> IF Cardinality(rows) > limit THEN encodeCursor(list, LastOf(list, data)) ELSE NoCursor]

\* Mutant of KeyedPage: the query takes no row more than the page has.
KeyedPageShort(list, status, limit, cursor) ==
  LET after == {i \in Selected(list, status, 0) :
                  cursor # NoCursor => Before(cursor.key, Key(list, i))}
  IN  paginate(list, PostFilter(list, status, First(list, after, limit)), limit)

\* A page of the topics or of the runs of all topics: one row too many is asked for.
KeyedPage(list, status, limit, cursor) ==
  LET after == {i \in Selected(list, status, 0) :
                  cursor # NoCursor => Before(cursor.key, Key(list, i))}
  IN  paginate(list, PostFilter(list, status, First(list, after, limit + 1)), limit)

\* Mutant of loadMessagesPage: the cursor's row is read again.
loadMessagesPageFrom(topic, limit, cursor) ==
  LET before == {m \in MessagesOf(topic) : cursor # NoCursor => m <= cursor.id}
      rows   == First("messages", before, limit)
  IN  [data     |-> rows,
       has_more |-> \E m \in MessagesOf(topic) : \A r \in rows : m < r,
       cursor   |-> IF rows # {} THEN encodeCursor("messages", LastOf("messages", rows)) ELSE NoCursor]

\* A page of messages: whether there are more is asked for separately.
loadMessagesPage(topic, limit, cursor) ==
  LET before == {m \in MessagesOf(topic) : cursor # NoCursor => m < cursor.id}
      rows   == First("messages", before, limit)
      more   == rows # {} /\ \E m \in MessagesOf(topic) : \A r \in rows : m < r
  IN  [data |-> rows, has_more |-> more,
       cursor |-> IF more THEN encodeCursor("messages", LastOf("messages", rows)) ELSE NoCursor]

\* A page of a list that is read whole: a cursor that is not in it is ignored.
IndexedPage(list, status, topic, limit, cursor) ==
  LET filtered == PostFilter(list, status, Selected(list, status, topic))
      after    == IF cursor # NoCursor /\ cursor.id \in filtered
                  THEN {i \in filtered : Before(Key(list, cursor.id), Key(list, i))} ELSE filtered
  IN  paginate(list, after, limit)

Page(r) ==
  CASE r.list = "messages"             -> loadMessagesPage(r.topic, r.limit, r.cursor)
    [] r.list \in {"topics", "runs"}   -> KeyedPage(r.list, r.status, r.limit, r.cursor)
    [] r.list \in {"topicRuns", "events"} -> IndexedPage(r.list, r.status, r.topic, r.limit, r.cursor)

-----------------------------------------------------------------------------
(* Writers.  What does not show in the list that is read is not written.   *)

\* Bound: the tables that the lists read.
Shown(table) ==
  table \in (CASE reader.list = "topics"    -> {"topics", "messages"} \cup IF reader.status = "all" THEN {} ELSE {"runs"}
               [] reader.list = "messages"  -> {"topics", "messages"}
               [] reader.list = "events"    -> {"topics", "events"}
               [] OTHER                     -> {"topics", "runs"})

Insert(f, i, row) == [j \in DOMAIN f \cup {i} |-> IF j = i THEN row ELSE f[j]]
Without(f, rows)  == [i \in DOMAIN f \ rows |-> f[i]]

Fresh(ids) == {i \in ids : i \notin used}
MayWrite(table) == Shown(table) /\ Cardinality(used) < MaxRows

\* A row is written: its id, and the topic if the list of topics shows it, are not quiet.
Touch(ids) == quiet' = quiet \ ids /\ UNCHANGED <<clock, reader, lost>>

createTopic ==
  /\ MayWrite("topics")
  /\ \E t \in Fresh(Topics) :
       topics' = Insert(topics, t, clock) /\ used' = used \cup {t} /\ Touch({t})
  /\ UNCHANGED <<messages, runs, events>>

saveMessages ==
  /\ MayWrite("messages")
  /\ \E t \in DOMAIN topics, m \in Fresh(1..MaxMessages) :
       /\ m - 1 \in used \cup {0}
       /\ messages' = Insert(messages, m, [topic |-> t, created_at |-> clock])
       /\ used' = used \cup {m}
       /\ Touch(IF reader.list = "topics" THEN {t} ELSE {m})
  /\ UNCHANGED <<topics, runs, events>>

createRun ==
  /\ MayWrite("runs")
  /\ \E t \in DOMAIN topics, r \in Fresh(RunIds) :
       /\ runs' = Insert(runs, r, [topic |-> t, started_at |-> clock, status |-> "running"])
       /\ used' = used \cup {r}
       /\ Touch(IF reader.list = "topics" THEN {t} ELSE {r})
  /\ UNCHANGED <<topics, messages, events>>

finishRun ==
  /\ \E r \in DOMAIN runs, status \in {"done", "error"} :
       /\ runs[r].status = "running"
       /\ runs' = [runs EXCEPT ![r].status = status]
       /\ Touch(IF reader.list = "topics" THEN {runs[r].topic} ELSE {r})
  /\ UNCHANGED <<topics, messages, events, used>>

createEvent ==
  /\ MayWrite("events")
  /\ \E t \in DOMAIN topics, e \in Fresh(EventIds), at \in clock + 1..MaxClock + 1 :
       /\ events' = Insert(events, e, [topic |-> t, next_run_at |-> at, created_at |-> clock, status |-> "scheduled"])
       /\ used' = used \cup {e} /\ Touch({e})
  /\ UNCHANGED <<topics, messages, runs>>

\* A daily event is put off to a later time, an event that ran once is done.
advanceDueEvent ==
  /\ \E e \in DOMAIN events, at \in clock + 1..MaxClock + 1, status \in {"scheduled", "done"} :
       /\ events[e].status = "scheduled" /\ events[e].next_run_at <= clock
       /\ events' = [events EXCEPT ![e].status = status, ![e].next_run_at = IF status = "done" THEN @ ELSE at]
       /\ Touch({e})
  /\ UNCHANGED <<topics, messages, runs, used>>

updateEvent ==
  /\ \E e \in DOMAIN events, at \in clock + 1..MaxClock + 1 :
       /\ events[e].status = "scheduled" /\ events[e].next_run_at # at
       /\ events' = [events EXCEPT ![e].next_run_at = at] /\ Touch({e})
  /\ UNCHANGED <<topics, messages, runs, used>>

cancelEvent ==
  /\ \E e \in DOMAIN events :
       /\ events[e].status = "scheduled"
       /\ events' = [events EXCEPT ![e].status = "canceled"] /\ Touch({e})
  /\ UNCHANGED <<topics, messages, runs, used>>

\* The rows of the topic go with it.
deleteTopic ==
  \E t \in DOMAIN topics :
    LET of(f) == {i \in DOMAIN f : f[i].topic = t} IN
    /\ topics' = Without(topics, {t}) /\ messages' = Without(messages, of(messages))
    /\ runs' = Without(runs, of(runs)) /\ events' = Without(events, of(events))
    /\ Touch(CASE reader.list = "topics"   -> {t}
               [] reader.list = "messages" -> of(messages)
               [] reader.list = "events"   -> of(events)
               [] OTHER                    -> of(runs))
    /\ UNCHANGED used

-----------------------------------------------------------------------------
(* The client.                                                             *)

Answered(page) ==
  reader' = [reader EXCEPT !.state = IF page.has_more THEN "more" ELSE "end",
                           !.page = page.data, !.seen = @ \cup reader.page, !.cursor = page.cursor]

Open ==
  /\ reader.state = "closed"
  /\ \E t \in IF reader.list \in {"messages", "topicRuns"} THEN DOMAIN topics ELSE {0} :
       LET asked == [reader EXCEPT !.topic = t]
           page  == Page(asked)
       IN  /\ reader' = [asked EXCEPT !.state = IF page.has_more THEN "more" ELSE "end",
                                      !.page = page.data, !.cursor = page.cursor]
           /\ quiet' = PostFilter(reader.list, reader.status, Selected(reader.list, reader.status, t))
  /\ UNCHANGED <<clock, tables, used, lost>>

\* topic get of a topic that is gone fails; the client has no more pages.
More ==
  /\ reader.state = "more"
  /\ IF reader.list = "messages" /\ reader.topic \notin DOMAIN topics
     THEN reader' = [reader EXCEPT !.state = "failed"]
     ELSE Answered(Page(reader))
  /\ lost' = (lost \/ reader.cursor.id \notin quiet)
  /\ UNCHANGED <<clock, tables, used, quiet>>

Tick == clock < MaxClock /\ clock' = clock + 1 /\ UNCHANGED <<tables, used, reader, quiet, lost>>

PagesInit ==
  /\ clock = 0 /\ topics = <<>> /\ messages = <<>> /\ runs = <<>> /\ events = <<>>
  /\ used = {} /\ quiet = {} /\ lost = FALSE
  /\ \E asked \in Lists, limit \in Limits :
       reader = [list |-> asked[1], status |-> asked[2], topic |-> 0, limit |-> limit,
                 state |-> "closed", cursor |-> NoCursor, page |-> {}, seen |-> {}]

PagesNext ==
  \/ createTopic \/ saveMessages \/ createRun \/ finishRun
  \/ createEvent \/ advanceDueEvent \/ updateEvent \/ cancelEvent \/ deleteTopic
  \/ Open \/ More \/ Tick

PagesSpec == PagesInit /\ [][PagesNext]_pagesVars

-----------------------------------------------------------------------------
(* Properties.                                                             *)

\* A list that is read by key shows no row twice, whatever is written between
\* its pages; one that is read whole shows no row twice that was not written,
\* as long as the rows its cursors stand at are not (response.ts:65-109).
NoRepeats ==
  \A i \in reader.page \cap reader.seen :
    reader.list \notin Keyed /\ (lost \/ i \notin quiet)

\* A client that has come to the end was shown every row of the list that
\* nobody wrote while it was reading (response.ts:95-109, db.ts:391-434).
QuietRowsListed ==
  reader.state = "end" /\ (reader.list \in Keyed \/ ~lost) => quiet \subseteq reader.page \cup reader.seen
=============================================================================
