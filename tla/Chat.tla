------------------------------- MODULE Chat -------------------------------
(***************************************************************************)
(* The chat page of the web user interface (ui/src/lib/useChat.ts), the    *)
(* calls it makes (ui/src/lib/agent.ts), and the part of the server that   *)
(* it talks to (src/commands.ts, src/handlers/topic.ts): topics that are   *)
(* selected and loaded page by page, messages that are sent with or        *)
(* without files and whose answers are streamed, streams that are          *)
(* cancelled or break, topics that are deleted.  Other writers of the same *)
(* topics (an event check, the command line, another page) are seen by     *)
(* what they save.                                                         *)
(*                                                                         *)
(* A turn is one message, with its answer.  A callback of                  *)
(* the page is one action, a step of the server another; what is between   *)
(* them is a request or an event on its way.  Of an answer only the number *)
(* of its tokens is kept.                                                  *)
(***************************************************************************)
EXTENDS Integers, Sequences, FiniteSets, SequencesExt

CONSTANTS
  Topic,       \* ids of topics
  Old,         \* topics that exist, with saved turns, when the page is opened
  Turn,        \* turns the user of the page, or someone else, may start
  Past,        \* turns that were saved in the topics of Old
  Tokens,      \* tokens of an answer
  PageSize,    \* limit of get-topic, in messages
  MaxRequests, \* bound: requests of the page under way at one time
  Error,       \* answer to a request that failed
  Switching,   \* whether the user acts on topics while something is under way
  None

ASSUME ChatAssumption ==
  /\ Old \subseteq Topic /\ Turn \cap Past = {}
  /\ None \notin Topic \cup Turn \cup Past \cup {"refused", "running", "answered", "saved", "failed", "done"}
  /\ IsFiniteSet(Past)
  /\ {Tokens, PageSize, MaxRequests} \subseteq Nat \ {0} /\ Switching \in BOOLEAN

VARIABLES
  topics,        \* server: rows of the topics table
  log,           \* server: rows of the messages table; the id is the index
  run,           \* server: what became of the run of a turn
  turn,          \* page: the closure of send for a turn; unheard: the page does
                 \* not (any more) hear what becomes of its run
  wire,          \* events of a turn's stream on their way to the page
  requests,      \* requests under way and answers on their way
  current,       \* page: currentTopicId
  screen,        \* page: messages
  isStreaming, hasMore, isLoadingMore,
  cursor,        \* page: cursorRef
  cache,         \* page: messageCacheRef
  stream         \* page: streamRef

server == <<topics, log, run>>
view   == <<current, screen, isStreaming, hasMore, isLoadingMore, cursor, cache, stream>>
vars   == <<server, turn, wire, requests, view>>

Role == <<"user", "assistant">>

\* A message on the screen.  One that send made (live) has the id that the
\* callbacks of its stream look for; one that was loaded has an id of its own.
Entry(k, role, status, text, live) ==
  [turn |-> k, role |-> role, status |-> status, text |-> text, live |-> live]

Placeholder == Entry(None, "assistant", "streaming", 0, FALSE)

-----------------------------------------------------------------------------
(* The server.                                                             *)

\* The ids of a set, in their order.
InOrder(ids) ==
  [n \in 1..Cardinality(ids) |-> CHOOSE i \in ids : Cardinality({j \in ids : j <= i}) = n]

\* Mutant: the cursor is part of the next page.
PageWithCursor(t, before) ==
  LET ids   == {i \in DOMAIN log : log[i].topic = t}
      older == IF before = None THEN ids ELSE {i \in ids : i <= before}
      page  == {i \in older : Cardinality({j \in older : j > i}) < PageSize}
      rows  == InOrder(page)
      more  == \E i \in older : \A j \in page : i < j
  IN  [messages |-> [n \in DOMAIN rows |->
                       Entry(log[rows[n]].turn, log[rows[n]].role, "done", Tokens, FALSE)],
       has_more |-> more,
       cursor   |-> IF more THEN rows[1] ELSE None]

\* A page of the messages of a topic: the latest that are older than a cursor.
Page(t, before) ==
  LET ids   == {i \in DOMAIN log : log[i].topic = t}
      older == IF before = None THEN ids ELSE {i \in ids : i < before}
      page  == {i \in older : Cardinality({j \in older : j > i}) < PageSize}
      rows  == InOrder(page)
      more  == \E i \in older : \A j \in page : i < j
  IN  [messages |-> [n \in DOMAIN rows |->
                       Entry(log[rows[n]].turn, log[rows[n]].role, "done", Tokens, FALSE)],
       has_more |-> more,
       cursor   |-> IF more THEN rows[1] ELSE None]

EmptyPage == [messages |-> <<>>, has_more |-> FALSE, cursor |-> None]

\* The id of a new topic: never that of a topic that was deleted.
Unused == {t \in Topic \ (topics \cup Old) : \A k \in Turn : turn[k].topic # t}
Fresh  == CHOOSE t \in Unused : TRUE

Active(t) == \E k \in Turn : run[k] = "running" /\ turn[k].topic = t

Emit(k, events) ==
  wire' = [wire EXCEPT ![k] = IF turn[k].phase = "open" THEN @ \o events ELSE @]

\* handleSend: a topic is made for a message that names none, a topic with an
\* active run refuses it.  The page does not hear of the run if it has aborted
\* the fetch or lost the connection.
Begin(k) ==
  LET phase       == IF turn[k].unheard THEN "over" ELSE "open"
      Say(events) == wire' = [wire EXCEPT ![k] = IF turn[k].unheard THEN @ ELSE events]
  IN  /\ turn[k].phase = "sent"
      /\ IF turn[k].topic # None
           THEN /\ turn' = [turn EXCEPT ![k].phase = phase]
                /\ IF Active(turn[k].topic)
                     THEN run' = [run EXCEPT ![k] = "refused"] /\ Say(<<"exit1">>)
                     ELSE run' = [run EXCEPT ![k] = "running"] /\ UNCHANGED wire
                /\ UNCHANGED topics
           ELSE /\ Unused # {}
                /\ topics' = topics \cup {Fresh}
                /\ turn'   = [turn EXCEPT ![k].phase = phase, ![k].topic = Fresh]
                /\ run'    = [run EXCEPT ![k] = "running"]
                /\ Say(<<"info">>)
      /\ UNCHANGED <<log, requests, view>>

\* The fetch was aborted, or failed, before the request went out.
Dropped(k) ==
  /\ turn[k].phase = "sent" /\ turn[k].unheard
  /\ turn' = [turn EXCEPT ![k].phase = "dropped"]
  /\ UNCHANGED <<server, wire, requests, view>>

\* Mutant: one token too many.
TokenOver(k) ==
  /\ run[k] = "running" /\ turn[k].said <= Tokens
  /\ turn' = [turn EXCEPT ![k].said = @ + 1]
  /\ Emit(k, <<"text">>)
  /\ UNCHANGED <<server, requests, view>>

\* A token of the answer.
Token(k) ==
  /\ run[k] = "running" /\ turn[k].said < Tokens
  /\ turn' = [turn EXCEPT ![k].said = @ + 1]
  /\ Emit(k, <<"text">>)
  /\ UNCHANGED <<server, requests, view>>

\* The loop marks the run done and says so; the messages are not saved yet.
Finish(k) ==
  /\ run[k] = "running" /\ turn[k].said = Tokens
  /\ run' = [run EXCEPT ![k] = "answered"]
  /\ Emit(k, <<"done">>)
  /\ UNCHANGED <<topics, log, turn, requests, view>>

Save(k) ==
  /\ run[k] = "answered"
  /\ run' = [run EXCEPT ![k] = "saved"]
  /\ log' = log \o [i \in 1..2 |-> [topic |-> turn[k].topic, turn |-> k, role |-> Role[i]]]
  /\ Emit(k, <<"exit0">>)
  /\ UNCHANGED <<topics, turn, requests, view>>

\* The LLM call fails, or saving does, after the answer was given.
Fail(k) ==
  /\ run[k] \in {"running", "answered"}
  /\ run' = [run EXCEPT ![k] = "failed"]
  /\ Emit(k, <<"exit1">>)
  /\ UNCHANGED <<topics, log, turn, requests, view>>

\* The next turn, whoever starts it.
IsNext(k) == turn[k].phase = "new" /\ k = CHOOSE j \in Turn : turn[j].phase = "new"

\* A run that someone else starts, in a topic that exists or in one of his own:
\* the page hears nothing of it.  He may have looked for an active run before
\* the row of another was there, so the topic may have one.
Elsewhere(k, t) ==
  /\ IsNext(k)
  /\ t \in topics \/ (Unused # {} /\ t = Fresh)
  /\ topics' = topics \cup {t}
  /\ run'  = [run EXCEPT ![k] = "running"]
  /\ turn' = [turn EXCEPT ![k].phase = "over", ![k].target = t, ![k].topic = t, ![k].unheard = TRUE]
  /\ UNCHANGED <<log, wire, requests, view>>

\* The server answers a request: a page of a topic, or its deletion.  An active
\* run has a placeholder behind the messages.
Answer(r) ==
  /\ r.reply = None
  /\ LET reply == IF r.kind = "delete" THEN EmptyPage
                  ELSE IF r.topic \notin topics THEN Error
                  ELSE [Page(r.topic, r.before) EXCEPT !.messages =
                          @ \o IF Active(r.topic) /\ r.kind = "select"
                                 THEN <<Placeholder>> ELSE <<>>]
     IN  requests' = (requests \ {r}) \cup {[r EXCEPT !.reply = reply]}
  /\ topics' = IF r.kind = "delete" THEN topics \ {r.topic} ELSE topics
  /\ UNCHANGED <<log, run, turn, wire, view>>

-----------------------------------------------------------------------------
(* The page.                                                               *)

Ask(kind, t, before) ==
  LET r == [kind |-> kind, topic |-> t, before |-> before, was |-> current, reply |-> None]
  IN  /\ Cardinality(requests) < MaxRequests
      /\ r \notin requests
      /\ requests' = requests \cup {r}

\* What a user waits for who waits: answers, uploads and streams.
Outstanding ==
  requests # {} \/ \E k \in Turn : turn[k].phase \in {"create", "upload", "sent", "open"}

MayAct == Switching \/ ~Outstanding

\* selectTopic up to its await.  The messages of the topic that is left go to
\* the cache; those of a topic that streams come from there.
SelectTopic(t) ==
  LET saved  == IF current = None THEN cache ELSE [cache EXCEPT ![current] = screen]
      stay   == t # None /\ stream # None /\ stream.topic = t /\ saved[t] # None
  IN  /\ MayAct /\ t # current
      /\ cache'   = saved
      /\ current' = t
      /\ hasMore' = FALSE
      /\ CASE t = None -> /\ screen' = <<>> /\ isStreaming' = FALSE /\ cursor' = None
                          /\ UNCHANGED requests
           [] stay     -> /\ screen' = saved[t] /\ isStreaming' = TRUE
                          /\ UNCHANGED <<cursor, requests>>
           [] OTHER    -> Ask("select", t, None) /\ UNCHANGED <<screen, isStreaming, cursor>>
      /\ UNCHANGED <<server, turn, wire, isLoadingMore, stream>>

\* selectTopic after its await: whatever topic is current by now.
Selected(r) ==
  /\ r.kind = "select" /\ r.reply # None
  /\ requests' = requests \ {r}
  /\ IF r.reply = Error
       THEN screen' = <<>> /\ UNCHANGED <<cursor, hasMore, cache>>
       ELSE /\ cursor'  = r.reply.cursor
            /\ hasMore' = r.reply.has_more
            /\ screen'  = r.reply.messages
            /\ cache'   = [cache EXCEPT ![r.topic] = r.reply.messages]
  /\ UNCHANGED <<server, turn, wire, current, isStreaming, isLoadingMore, stream>>

LoadMore ==
  /\ current # None /\ cursor # None /\ ~isLoadingMore /\ hasMore
  /\ Ask("more", current, cursor)
  /\ isLoadingMore' = TRUE
  /\ UNCHANGED <<server, turn, wire, current, screen, isStreaming, hasMore, cursor, cache, stream>>

\* loadMore after its await: the older messages go before what is shown.
LoadedMore(r) ==
  /\ r.kind = "more" /\ r.reply # None
  /\ requests' = requests \ {r}
  /\ isLoadingMore' = FALSE
  /\ CASE r.reply = Error        -> UNCHANGED <<cursor, hasMore, screen>>
       [] r.reply # Error /\ r.reply.messages = <<>> -> hasMore' = FALSE /\ UNCHANGED <<cursor, screen>>
       [] OTHER -> /\ cursor'  = r.reply.cursor
                   /\ hasMore' = r.reply.has_more
                   /\ screen'  = r.reply.messages \o screen
  /\ UNCHANGED <<server, turn, wire, current, isStreaming, cache, stream>>

\* send.  The composer is closed while isStreaming.  With files the topic, if
\* there is none, and the uploads come first; the stream starts after them.
Send(k, files) ==
  /\ MayAct /\ ~isStreaming
  /\ IsNext(k)
  /\ turn' = [turn EXCEPT ![k].phase = IF ~files THEN "sent" ELSE IF current = None THEN "create" ELSE "upload",
                          ![k].target = current, ![k].topic = current]
  /\ screen' = screen \o <<Entry(k, "user", "done", Tokens, TRUE),
                           Entry(k, "assistant", "streaming", 0, TRUE)>>
  /\ isStreaming' = TRUE
  /\ stream' = [topic |-> current, aborts |-> IF files THEN None ELSE k]
  /\ UNCHANGED <<server, wire, requests, current, hasMore, isLoadingMore, cursor, cache>>

\* updateAssistant: the messages on the screen, with the answer changed, are
\* also kept as those of the topic the message was sent to.
Updated(k, status, text) ==
  [i \in DOMAIN screen |->
     IF screen[i].turn = k /\ screen[i].role = "assistant" /\ screen[i].live
       THEN [screen[i] EXCEPT !.status = IF status = None THEN @ ELSE status, !.text = text]
       ELSE screen[i]]

Kept(k, messages) ==
  IF turn[k].target = None THEN cache ELSE [cache EXCEPT ![turn[k].target] = messages]

UpdateAssistant(k, status, text) ==
  /\ screen' = Updated(k, status, text)
  /\ cache'  = Kept(k, Updated(k, status, text))

\* uploadAndSend: createTopic has answered.
Created(k) ==
  /\ turn[k].phase = "create"
  /\ Unused # {}
  /\ topics'  = topics \cup {Fresh}
  /\ turn'    = [turn EXCEPT ![k].phase = "upload", ![k].topic = Fresh]
  /\ current' = Fresh
  /\ stream'  = IF stream = None THEN None ELSE [stream EXCEPT !.topic = Fresh]
  /\ UNCHANGED <<log, run, wire, requests, screen, isStreaming, hasMore, isLoadingMore,
                 cursor, cache>>

\* uploadAndSend: all files are stored; the message goes where they went.
Uploaded(k) ==
  /\ turn[k].phase = "upload"
  /\ turn'   = [turn EXCEPT ![k].phase = "sent"]
  /\ stream' = IF stream = None THEN None ELSE [stream EXCEPT !.aborts = k]
  /\ UNCHANGED <<server, wire, requests, current, screen, isStreaming, hasMore,
                 isLoadingMore, cursor, cache>>

\* uploadAndSend: createTopic or an upload fails.
UploadFails(k) ==
  /\ turn[k].phase \in {"create", "upload"}
  /\ turn' = [turn EXCEPT ![k].phase = "failed"]
  /\ UpdateAssistant(k, "error", 0)
  /\ isStreaming' = FALSE
  /\ UNCHANGED <<server, wire, requests, current, hasMore, isLoadingMore, cursor, stream>>

\* onInfo with the name of the new topic.
OnInfo(k) ==
  /\ current' = IF turn[k].target = None THEN turn[k].topic ELSE current
  /\ stream'  = IF stream = None THEN None ELSE [stream EXCEPT !.topic = turn[k].topic]
  /\ UNCHANGED <<turn, screen, isStreaming, cache>>

OnText(k) ==
  /\ turn' = [turn EXCEPT ![k].got = @ + 1]
  /\ UpdateAssistant(k, None, turn[k].got + 1)
  /\ UNCHANGED <<current, isStreaming, stream>>

\* Mutant: the blocks are forgotten when the answer is done.
OnDoneEmpty(k) ==
  /\ screen' = Updated(k, "done", 0)
  /\ cache' = Kept(k, None)
  /\ isStreaming' = FALSE
  /\ stream' = None
  /\ UNCHANGED <<turn, current>>

\* onDone.  The cache entry is deleted; updateAssistant's write, which React
\* may put off to the next render, comes before or after that.
OnDone(k) ==
  /\ screen' = Updated(k, "done", turn[k].got)
  /\ \E last \in {None, screen'} : cache' = Kept(k, last)
  /\ isStreaming' = FALSE
  /\ stream' = None
  /\ UNCHANGED <<turn, current>>

\* Mutant: the composer stays closed.
OnErrorStreaming(k) ==
  /\ UpdateAssistant(k, "error", turn[k].got)
  /\ stream' = None
  /\ UNCHANGED <<current, isStreaming>>

\* onError, because the stream has ended with an exit code other than 0.
OnError(k) ==
  /\ UpdateAssistant(k, "error", turn[k].got)
  /\ isStreaming' = FALSE
  /\ stream' = None
  /\ UNCHANGED current

\* The connection breaks before the first event, or later: the events that are
\* under way are lost, the exit code is -1.  The run goes on, and is saved; if
\* the request is on its way, it begins.
Break(k) ==
  /\ turn[k].phase \in {"sent", "open"} /\ ~turn[k].unheard
  /\ OnError(k)
  /\ turn' = [turn EXCEPT ![k].unheard = TRUE, ![k].phase = IF @ = "open" THEN "over" ELSE @]
  /\ wire' = [wire EXCEPT ![k] = <<>>]
  /\ UNCHANGED <<server, requests, hasMore, isLoadingMore, cursor>>

\* dispatchEvent: the next event of a stream reaches its callback.
Deliver(k) ==
  /\ turn[k].phase = "open" /\ wire[k] # <<>>
  /\ wire' = [wire EXCEPT ![k] = Tail(@)]
  /\ LET event == Head(wire[k]) IN
       \/ event = "info" /\ OnInfo(k)
       \/ event = "text" /\ OnText(k)
       \/ event = "done" /\ OnDone(k)
       \/ event = "exit1" /\ OnError(k) /\ turn' = [turn EXCEPT ![k].phase = "over"]
       \/ /\ event = "exit0"
          /\ turn' = [turn EXCEPT ![k].phase = "over"]
          /\ UNCHANGED <<current, screen, isStreaming, cache, stream>>
  /\ UNCHANGED <<server, requests, hasMore, isLoadingMore, cursor>>

\* cancel: the fetch is aborted, if it has begun; the run on the server goes on,
\* and if the request is on its way, it begins.
Cancel ==
  /\ isStreaming
  /\ stream' = None
  /\ isStreaming' = FALSE
  /\ screen' = [i \in DOMAIN screen |->
                  IF screen[i].status = "streaming"
                    THEN [screen[i] EXCEPT !.status = "done"] ELSE screen[i]]
  /\ IF stream = None \/ stream.aborts = None
       THEN UNCHANGED <<turn, wire>>
       ELSE LET k == stream.aborts IN
            /\ turn' = [turn EXCEPT ![k].unheard = TRUE,
                          ![k].phase = IF @ = "open" THEN "over" ELSE @]
            /\ wire' = [wire EXCEPT ![k] = <<>>]
  /\ UNCHANGED <<server, requests, current, hasMore, isLoadingMore, cursor, cache>>

RemoveTopic(t) ==
  /\ MayAct /\ t \in topics
  /\ Ask("delete", t, None)
  /\ UNCHANGED <<server, turn, wire, view>>

\* Mutant: the messages of the topic stay on the screen.
RemovedFromCache(r) ==
  /\ r.kind = "delete" /\ r.reply # None
  /\ requests' = requests \ {r}
  /\ cache'   = [cache EXCEPT ![r.topic] = None]
  /\ current' = IF r.was = r.topic THEN None ELSE current
  /\ UNCHANGED <<server, turn, wire, screen, isStreaming, hasMore, isLoadingMore, cursor, stream>>

\* removeTopic after its await; current is the topic of the time it was called.
Removed(r) ==
  /\ r.kind = "delete" /\ r.reply # None
  /\ requests' = requests \ {r}
  /\ cache'   = [cache EXCEPT ![r.topic] = None]
  /\ current' = IF r.was = r.topic THEN None ELSE current
  /\ screen'  = IF r.was = r.topic THEN <<>> ELSE screen
  /\ UNCHANGED <<server, turn, wire, isStreaming, hasMore, isLoadingMore, cursor, stream>>

-----------------------------------------------------------------------------
Init ==
  /\ topics = Old
  /\ \E place \in [Past -> Old] :
       LET past == SetToSeq(Past) IN
       log = [i \in 1..2 * Len(past) |->
                LET k == past[(i + 1) \div 2]
                IN  [topic |-> place[k], turn |-> k, role |-> Role[2 - (i % 2)]]]
  /\ run  = [k \in Turn |-> None]
  /\ turn = [k \in Turn |-> [phase |-> "new", target |-> None, topic |-> None,
                             said |-> 0, got |-> 0, unheard |-> FALSE]]
  /\ wire = [k \in Turn |-> <<>>]
  /\ requests = {}
  /\ current = None /\ screen = <<>> /\ cursor = None /\ stream = None
  /\ isStreaming = FALSE /\ hasMore = FALSE /\ isLoadingMore = FALSE
  /\ cache = [t \in Topic |-> None]

Server == \E k \in Turn : Begin(k) \/ Dropped(k) \/ Token(k) \/ Finish(k) \/ Save(k) \/ Fail(k)

Replies == \E r \in requests : Answer(r) \/ Selected(r) \/ LoadedMore(r) \/ Removed(r)

Uploads == \E k \in Turn : Created(k) \/ Uploaded(k) \/ UploadFails(k)

User ==
  \/ \E t \in topics \cup {None} : SelectTopic(t)
  \/ LoadMore
  \/ \E k \in Turn, files \in BOOLEAN : Send(k, files)
  \/ Cancel
  \/ \E t \in topics : RemoveTopic(t)

\* What nobody waits for: other writers, and connections that break.
Outside ==
  \/ \E k \in Turn, t \in Topic : Elsewhere(k, t)
  \/ \E k \in Turn : Break(k)

Next == Server \/ Replies \/ Uploads \/ User \/ Outside \/ \E k \in Turn : Deliver(k)

Spec == Init /\ [][Next]_vars

\* Runs and uploads take their course, with success or without, and events
\* reach the page; the user has to do nothing, nor has anyone else.
FairSpec == Spec /\ WF_vars(Server \/ Uploads \/ \E k \in Turn : Deliver(k))

-----------------------------------------------------------------------------
TurnOrNone == Turn \cup Past \cup {None}

Message == [turn : TurnOrNone, role : {"user", "assistant"},
            status : {"streaming", "done", "error"}, text : 0..Tokens, live : BOOLEAN]

\* Types.
TypeOK ==
  /\ topics \subseteq Topic
  /\ \A i \in DOMAIN log :
       log[i] \in [topic : Topic, turn : Turn \cup Past, role : {"user", "assistant"}]
  /\ run \in [Turn -> {None, "refused", "running", "answered", "saved", "failed"}]
  /\ turn \in [Turn -> [phase : {"new", "create", "upload", "sent", "open", "over", "failed",
                                 "dropped"},
                        target : Topic \cup {None}, topic : Topic \cup {None},
                        said : 0..Tokens, got : 0..Tokens, unheard : BOOLEAN]]
  /\ \A r \in requests : r.kind \in {"select", "more", "delete"} /\ r.topic \in Topic
  /\ current \in Topic \cup {None}
  /\ \A i \in DOMAIN screen : screen[i] \in Message
  /\ {isStreaming, hasMore, isLoadingMore} \subseteq BOOLEAN
  /\ cursor \in DOMAIN log \cup {None}
  /\ \A t \in Topic : cache[t] = None \/ \A i \in DOMAIN cache[t] : cache[t][i] \in Message
  /\ stream = None \/ stream \in [topic : Topic \cup {None}, aborts : Turn \cup {None}]

\* The topic a message belongs to; None while the server has made none.
Home(k) ==
  IF k \in Turn THEN turn[k].topic
  ELSE (CHOOSE row \in {log[i] : i \in DOMAIN log} : row.turn = k).topic

\* Turns sent to no topic that the page gave up: their stream was cancelled, the
\* connection broke, or an upload failed.
Nameless(k) ==
  k \in Turn /\ turn[k].target = None /\ (turn[k].unheard \/ turn[k].phase = "failed")

AtRest == ~Outstanding

\* When everything has been answered, the screen shows messages of the topic
\* that is current and of no other, however streams, loads and deletions
\* followed each other.  Excepted are messages that were sent to no topic and
\* whose stream was cancelled or broke, or whose upload failed (Nameless): the
\* page may never learn their topic, they stay on the screen, and the next
\* message starts a topic below them.
ScreenIsCurrent ==
  AtRest => \A i \in DOMAIN screen :
              LET k == screen[i].turn IN k = None \/ Nameless(k) \/ Home(k) = current

\* Pages, placeholders and streamed messages never overlap and leave out
\* nothing between them: no message is shown twice, they are in the order of
\* their rows, and what lies between two rows that are shown is shown.  Excepted
\* are the rows of runs that the page does not hear to their end (unheard): its
\* own, after a cancelled stream or a broken connection, and those of others;
\* they are saved behind the page's back, and are missing until the topic is
\* loaded again.
NoGaps ==
  AtRest =>
    LET here  == {i \in DOMAIN log : /\ log[i].topic = current
                                     /\ log[i].turn \in Turn => ~turn[log[i].turn].unheard}
        row(s) == {i \in here : log[i].turn = s.turn /\ log[i].role = s.role}
        shown  == UNION {row(screen[n]) : n \in DOMAIN screen}
    IN  /\ \A m, n \in DOMAIN screen : m < n =>
             /\ \A i \in row(screen[m]), j \in row(screen[n]) : i < j
             /\ <<screen[m].turn, screen[m].role>> # <<screen[n].turn, screen[n].role>>
                  \/ screen[m].turn = None
        /\ \A i, j \in shown : i..j \cap here \subseteq shown

\* The answer that was saved last is on the screen of its topic in full, unless
\* the page does not hear its run to the end: its stream was cancelled, the
\* connection broke (the page shows an error, and the answer is saved), or the
\* run is someone else's.
AnswerShown ==
  AtRest =>
    \A k \in Turn :
      /\ run[k] = "saved" /\ turn[k].topic = current /\ ~turn[k].unheard
      /\ \A i, j \in DOMAIN log : i < j /\ log[i].turn = k => log[j].topic # current \/ log[j].turn = k
      => \E n \in DOMAIN screen :
           /\ screen[n].turn = k /\ screen[n].role = "assistant"
           /\ screen[n].status = "done" /\ screen[n].text = Tokens

\* The composer is never closed for good, but for the user who comes back to
\* a topic where an upload failed.
StreamEnds == isStreaming ~> (~isStreaming \/ \E k \in Turn : turn[k].phase = "failed")

\* Who comes back to the topic of the stream finds its message as it was left
\* (useChat.ts:7).
StreamSurvivesSwitch ==
  [][/\ current' # current /\ requests' = requests
     /\ stream # None /\ current' # None /\ stream.topic = current' /\ stream.aborts # None
     => \E n \in DOMAIN screen' : screen'[n].live /\ screen'[n].turn = stream.aborts]_vars

=============================================================================
