# A TLA+ model of agent-clip

agent-clip is an agent with a memory: users send messages to *topics*, each
message starts a *run*, in which a loop calls an LLM and the tools it asks for
until it answers.  Everything is kept in one SQLite file that several processes
share: a server (IPC or HTTP), command line clients, and the `event-check` that
cron starts.  This directory specifies the parts of it whose correctness depends
on the order of steps or on an algorithm that is hard to get right, checks them
with TLC and proves theorems about them with TLAPS.

`PROJECT.json` maps every definition to the lines it models and lists runs,
mutants, findings, hazards and theorems.  Paths below are relative to `src/src/`,
those of the user interface to `src/ui/src/`.

## 1. Inventory

| Component | State | Operations | What is hard | What makes it correct | Module |
|---|---|---|---|---|---|
| Runs (`db.ts`, `loop.ts`, `commands.ts`, `run-control.ts`) | tables `runs`, `run_inbox`, `messages`, `summaries`; in each process the loops and a map of `AbortController`s | `send`, `send -r` (inject), `get-topic`, `cancel-run`, `delete-topic`; the steps of the loop | the SQL statements of several processes fall between one another; a crash between two statements; SIGTERM; `SQLITE_BUSY` (no `busy_timeout`) | one active run per topic; no injected message lost; terminal states are final; a cancelled run saves nothing; a run is cancelled by a user or a signal; every run ends | `Runs`, `Mailbox` |
| Scheduled events (`events.ts`, `runEventCheck`) | table `events`; the claimed events and the active topics of a check | create, update, cancel; claim, advance; `event-check` | checks overlap, users act between claim and advance, a check dies half way, a loop cannot begin | an occurrence starts at most one loop; a due event starts in the end; no running row is forgotten | `Events` |
| Time of the day (`events.ts`) | `next_run_at` | compute, advance | the instant of a wall-clock time is found by guessing the offset | once a day, at the hour the clock shows | `Calendar` |
| Chat page (`lib/useChat.ts`, `lib/agent.ts`) | messages on the screen, cache per topic, one stream, requests under way | select, send with and without files, load more, cancel, delete; callbacks | answers and events come in any order; connections break; others write the same topics | the screen shows the current topic, without gap or repetition; the composer opens again | `Chat` |
| Context and conversation (`context.ts`, `loop.ts`, `memory.ts`, requests of `llm.ts`) | the loop's two lists of messages; `summaries` | build context, drain, call, tools, save, summarise | a window that grows and falls back; summaries that are missing; parallel tool calls | nothing of the conversation is dropped between window and summaries; requests are well formed | `Conversation` |
| LLM stream (`llm.ts`) | buffer, data lines, blocks | read a chunk, parse, assemble | chunks split anywhere | the same answer for every split | `Stream` |
| Command lines (`chain.ts`, `tools.ts`, `handlers/clip.ts`) | chain state of `exec` | parse, tokenize, exec | two readers of one text; operators; stdin | what was written is called, as a shell would | `Shell` |
| Files and uploads (`fs.ts`, `upload.ts`, `args.ts`, `sanitize.ts`, `media.ts`, `paths.ts`) | files, a topic id of the process and one of the call | upload, send, load | uploads race; runs of several topics in one process | what was sent is what the run reads and the page shows, in its own topic | `Files` |
| Lists (`handlers/topic.ts`, `run.ts`, `event.ts`, `response.ts`) | none; a client's cursor | list, get | rows change between pages | no row twice, none left out | `Pages` |
| Configuration (`config.ts`, `handlers/config.ts`, settings, setup) | a YAML file; the pinned list of a run; the panel | set, delete, pin; handlers with several writes | paths through maps and sequences; failures half way; handlers of the panel overlap | a write changes its key; panel and file agree; setup completes | `Config` |
| Agents (`db.ts`, `handlers/agent.ts`, agent manager, form, picker) | table `agents`, column `agent_id`; form, list, pick | create, update, delete, pick, new chat | what was loaded is stale; looking and writing are two statements; empty fields | topics have agents; a save writes what was edited | `Agents` |
| Memory search, facts (`memory.ts`) | full text index, vectors | search, store | - | - | - |
| Entry point, output (`index.ts`, `output.ts`) | kind of process | start, emit | `event-check` is outside the try block | - | in `Runs` |
| Logging, views, translations, bridge, mock, built assets | files, screens | - | - | - | - |

How they interact.  `commands.ts` and `handlers/` call `db.ts` and `events.ts`
synchronously (bun:sqlite blocks); the loop is asynchronous and runs beside
other commands of its process.  Processes share nothing but the database file,
the configuration file, the files of topics and signals: `cancel-run` sends
SIGTERM to the process that the row of a run names; `isProcessAlive` asks the
operating system.  The user interface talks to the server through a stream per
`send` and single requests for everything else.

## 2. Modules

| Module | What it is |
|---|---|
| `Runs` | the core: tables, processes, loops, commands that act on runs |
| `Mailbox` | abstract specification of message injection (docs/runs.md), which `Runs` implements |
| `Events` | scheduled events and `event-check`, with the loops seen from outside |
| `Chat` | the chat page, its requests and streams, and the server as the page sees it |
| `Conversation` | what the LLM is told over several runs, and in which form |
| `Stream`, `Shell`, `Files`, `Calendar` | what the program reads and hands on |
| `Pages`, `Config`, `Agents` | what the service is asked for between runs |
| `MCRuns`, `MCEvents`, `MCChat`, `MCConversation` | definitions of instances for TLC: symmetry sets |
| `MCText`, `MCService` | several modules without common state in one instance; a behaviour chooses one of them and runs it |
| `RunsProofs` | type correctness, delivery of injected messages, refinement of `Mailbox`; the lifecycle of runs where processes follow one another |
| `EventsProofs` | the safety properties of `Events` |
| `TextProofs` | the two properties of `Calendar`; `ReadAsSent` of `Stream`; `ChainAsShell` of `Shell` |
| `ConversationProofs` | types, the two invariants of `Conversation`, and what a run that begins is told |
| `PagesProofs` | the two properties of `Pages` |
| `AgentsProofs` | the safety properties of `Agents` |
| `ConfigProofs` | the file stays a tree; the four properties of `Config` |
| `ChatProofs` | types of `Chat`; what a user who waits sees |

A definition called "Mutant of ..." is a plausible bug in the definition after
it; it is used by nothing in the module (see "Mutants" below).

### Runs

*Atomicity.*  JavaScript code between two awaits is not interrupted by callbacks
of its own process, but other processes' statements fall between its SQL
statements.  So an action holds at most one statement or transaction.  A command
that needs two leaves its process in a `section` (`send` after the SELECT of
`getActiveRun`, `create` before the INSERT, `cancel` before the UPDATE), and a
loop between two statements of one synchronous stretch is at a place in
`Synchronous`; until that is over the process does nothing else (`Free`).

*State and code.*  `status`, `topicOf`, `owner` are the columns of `runs`
(`owner` is `pid`), `inbox` is `run_inbox`, `saved` the runs whose `newMessages`
are in `messages`, `summaries` the runs with a row in `summaries`.  `pc`,
`iterations`, `heard`, `seen`, `aborted` are what the loop of a run has in
memory: where it is, how many calls of the LLM it began, which injected messages
are in `newMessages`, how many of these the last call was given, whether its
controller has been aborted.  `sigterm` are the processes with a signal that they
have not handled.  `accepted`, `requested` and `signalled` are history: what `inject`
accepted, which runs a user asked to cancel, and which were at work when their
process handled a signal.

*Actions.*

| Code | Actions |
|---|---|
| `AgentClip.start`; end of a process; a signal of somebody else (Ctrl-C, a supervisor); the handlers of both signals | `Start`; `Stop`; `Interrupt`; `Signal` |
| `createTopic`, `deleteTopic` | `CreateTopic`, `DeleteTopic` |
| `handleSend` | `LookupActiveRun`, then `FoundActiveRun` (refused), or `ReapStaleRun` (dead process) or nothing, then `CreateRun` |
| `send -r` | `Inject` |
| `get-topic` | `LookupActiveRun`, then `FoundActiveRun` or `ReapStaleRun` |
| `cancel-run` | `RequestCancel` (read, abort or signal), then `MarkCancelled` |
| a write of one of these that throws `SQLITE_BUSY` | `WriteThrows` |
| `executeRunLoop` before the loop | `CreateRun` up to the first await, `ContextBuilt`, `CallFails` |
| `runLoop` | `BeginIteration` or `StopAtTop`; `CallTools`, `ToolReturns`, `Answer`, `CallFails` |
| `saveMessages`, `processMemory`, the catch block | `SaveMessages`, `StoreSummary`, `FinishFailed` |

*Two parameters choose the deployment.*  `Overlap` says whether processes may be
alive at the same time; `ConfigReadable` whether the configuration can always be
read.  With `Overlap = FALSE` the model is a server, or a client, at a time, with
any number of crashes and restarts.

### Mailbox

A run is a box: open while it accepts messages, read as a whole, complete only
when it was closed with nothing unread.  `Runs!Box` maps a box to a run: open is
`status = "running"`, sent is `accepted`, read is `heard`, complete is `saved`
(for rows that exist).

### Events

`at[p]` is the place of a process in `runEventCheck`; `due`, `fired`, `active`,
`job` are its local variables.  A process that a send started (`Send`) shares the
actions `Take`/`Look`, `Reap` and `Create` without an event.  `DailyAfter` is the
calendar reduced to instants of a day.  A statement that finds the database
locked throws out of `runEventCheck`, which is not in the try block of `start`,
and ends the process: it is a case of `Die`.  Two failures leave the process alive
and a row without a loop, `lost`: the configuration or the agent cannot be read before
the try block of `executeRunLoop` (a case of `Create` for a send, of `StartLoop` for an
event), and `finishRun` in its catch block throws (a case of `EndLoop`).  `updateEvent` with a time zone is
two actions, `ReadForUpdate` and `WriteUpdate`, because it computes the new
`next_run_at` from what it read.  The history variables `last` and `again`
record the occurrence for which a loop was started last and the events that
started a loop for an occurrence not later than that one.

### Chat

The page is one thread of callbacks: an action of the page is one callback up to
its next await.  What is between two of them is on its way: `requests` holds
calls that the server has not answered (`reply = None`) and answers that the page
has not seen; `wire[k]` the events of the stream of turn `k`.  `screen`,
`current`, `cache`, `cursor`, `hasMore`, `isLoadingMore`, `isStreaming` and
`stream` are the states and refs of `useChat`; `turn[k]` is the closure of one
call of `send`.  A *turn* is a message of the user and its answer, of which the
number of tokens is kept: that tells lost, repeated and misplaced pieces apart.
`unheard` marks the turns whose run goes on without the page hearing of it: cancelled
or broken streams, and the turns of somebody else.

| Code | Actions |
|---|---|
| `selectTopic` up to and after its await | `SelectTopic`, `Selected` |
| `loadMore` | `LoadMore`, `LoadedMore` |
| `send`, `uploadAndSend` | `Send`, `Created`, `Uploaded`, `UploadFails` |
| `onInfo`, `onText`, `onDone`, `onError`; `dispatchEvent` | `OnInfo`, `OnText`, `OnDone`, `OnError`; `Deliver` |
| `cancel`, `removeTopic` | `Cancel`; `RemoveTopic`, `Removed` |
| `handleSend` and the loop, for the page | `Begin`, `Token`, `Finish`, `Save`, `Fail` |
| `invokeStream` with its signal (of @pinixai/core/web, outside the repository: modelled from its use in `agent.ts`) | `Dropped`; `Begin` of a cancelled turn, whose events nobody hears |
| the exit code of a broken connection (`agent.ts`): an error on the page, while the run goes on | `Break` |
| event checks, the command line, other pages in the same topics | `Elsewhere`, and the steps of the server |
| `handleTopicGet`, deletion | `Answer` (with `Page`) |

`OnDone` has a choice: the write to the cache is inside a state updater that
React may run at once or at the next render, so it comes before or after the
deletion of the cache entry.  `Switching` says whether the user acts on topics
while something is under way.

### Conversation

Runs are numbered by `started_at`.  `context[r]` and `new[r]` are `messages` and
`newMessages` of `runLoop`, `rows[r]` the messages table, `summaries` the runs
with a row in that table.  `buildContext` returns the set of contexts that are
possible: `SummariesFor` leaves open which of two summaries that are equally near
is taken.  `messagesToAPI` and `convertMessagesForAnthropic` are the two request
forms, as operators on sequences.  `Save` drops images, as the table does.

### Stream

The provider sends events of the chosen protocol as tokens (a field's name, the
two halves of an event's JSON, CR, LF); `Read(n)` gives any first part of what is
on its way to `readSSE` (`scan` is its loop over lines), `Flush` is its end,
`Cut` a connection that breaks.  The reference, `Meaning`, is read off the
events themselves.

### Shell

A line is given as it was meant: segments with a name, items and an operator.
`Written` writes it the way the tool's description tells the model to; then
`parseChain` and `tokenize` are the code's character loops over it,
`Registry.exec` runs one segment per action, and `buildClipInvokeInput` makes
the input of a clip.  `Meant` and the clauses of `ChainAsShell` are the
references.  `WellMeant` says what a line as it was meant is: segments that are not
blank, close their quotes and have operators only inside them, with operators
between them; any other line has no segments that could have been meant.  In JSON a
quote may be escaped, as the tool's description asks (tools.ts:242): such lines are
among those written, although both readers take the escaped quote for a closing one.
`EscapesQuote` names their segments: `CalledAsWritten` excepts the calls from the
first of them on, `ChainAsShell` the whole line.  `Misread` names what else the code reads otherwise than
written.

### Files

A file is its path and its bytes.  `Compose`, `uploadFile`, `UploadFails`, `Send`
take a message from the composer to a run; `ContextReady` reads its pictures for
the LLM after an await; `Saved` keeps it; `Shown` is what `sanitize.ts` and the
page make of it when the topic is loaded.  A run asks for its topic by
`getCurrentTopic`, also after its awaits, while `fallbackTopicID`, the global of the
process, is overwritten by every run that begins: a mutant that reads the global makes
`SentAsComposed` fail.

### Calendar

A zone is an offset before, one after, and the instant of the change; a change
is by a day at most (the largest there has been).
`zonedDateFromParts` is the guess with its four corrections,
`computeInitialNextRun` and `advanceEventSchedule` the two users of it.  `Events`
has the same columns with the calendar reduced to instants of a day.

### Pages

The four tables as functions from ids to the columns the lists look at; one
operation of the program per table write; a client (`reader`) that opens a list
and reads page after page.  `KeyedPage` is the SQL paging of topics, messages
and runs, `IndexedPage` the paging in memory of the runs of a topic and of events.
History: `quiet` are the rows that were in the list at the first page and were not
written since, `lost` says that a cursor stood at a row that was.

### Config

The YAML document is a function from paths to `"map"`, `"seq"` or a text: a tree
(`IsTree`: the root is a map, the items of a sequence are numbered from 0 without
a gap; `Rooted`: whatever is not the root is in a map or a sequence).
`setPath` (`Into`, `Fill`) and `deletePath` are the walks of the code, `RemoveItem`
is the removal of an item, after which the later ones move up with all that is
below them.  `Numerals` are the names of the items and bound their number.  The
panel's handlers and the setup page are lists of writes (`todo`) that are sent
one after the other; each may be refused, or its answer lost after it was
applied.  Nothing in the panel keeps its handlers apart (SettingsPanel.tsx:27-83): a blur and a
click start two, the sheet may be closed and opened again while they work, and the
answers of their loads come in any order.  `handlers[h]` is what handler `h` has still
to ask for, and its answer; `panel.newest` (history) is the one that read the file
last, and `panel.late` says that the answer shown last was not its.  `run` is the pinned list in memory of a run without an agent.  `alone`
is history: who wrote the file last without anybody else in between.

### Agents

The table, the commands, and the user interface: the list it has `listed`, its
`form` and its one `request`, which the server answers after any command of
another client.  `deleteAgent` and `createTopic` are two statements each without a
transaction, and foreign keys are off: the request is `checked` between them (`Look`,
then `Deleted` or `TopicForAgent`), the command of another process is `other`
(`BeginCommand`, then `RemoveAgent`, `CreateTopic` or `CommandFails`).  `parseAgentInput` and `updateAgent` decide what a missing, an
empty and a null field mean.  History: `saved` is what the last save of the form
should have left, `raced` the agents that a deletion and a new topic dealt with at one
time.

## 3. Runs of TLC

Passing:

| Run | Instance | Shows |
|---|---|---|
| `single` | 2 processes one after the other, 2 runs, 1 topic, 2 messages, 2 iterations, signals at any time; 1 327 960 states | `OneActiveRun`, `CancelledNeverSaved`, `CancelledWhenStopped`, `TerminalIsFinal`, `NoCallAfterCancel`, `TypeOK` |
| `inject` | 2 processes at once, 1 run, 3 messages, 3 iterations, an unreadable configuration among the cases; 115 766 states | `InjectedInOrder`, `SavedRunHeardAll`, and that `Runs` implements `Mailbox` |
| `live` | 1 process, 2 runs, with fairness; 255 944 states | `EveryRunEnds` |
| `checks` | 2 processes at once, 2 events, 1 topic, 1 failure (a death, a loop that cannot begin or cannot write its end); 1 123 385 states | `OncePerOccurrence`, `RowsAreWorkedOn`, `NoStartAfterEnd`, `TypeOK` |
| `days` | 2 processes, 1 event that users move between 2 topics, days of 2 instants, 3 ticks; 1 787 865 states | `OnSchedule` |
| `events_live` | 2 processes, 1 event, 1 failure, with fairness; 67 980 states | `DueEventStarts` |
| `page` | 3 topics (1 exists), 2 turns, of the page or of others, 1 saved turn, pages of 3 messages, answers of 1 token, connections that break, 1 request at a time, with fairness; 1 518 415 states | `ScreenIsCurrent`, `NoGaps`, `AnswerShown`, `StreamEnds`, `TypeOK` |
| `told` | 4 runs, 2 topics, 2 parallel calls, 1 injection, 1 batch of calls, a window that grows to 2 runs and falls back to 1; 825 342 states | `ConversationRemembered`, `WellFormedRequests`, `TranscriptsAgree`, `TypeOK` |
| `reading` | see below; 289 294 states | `ReadAsSent`, `CalledAsWritten`, `ChainAsShell`, `SentAsComposed`, `RunsByTheWallClock`, `ADayApart` |
| `service` | see below; 2 088 194 states, those that differ in the names of the panel's handlers taken together | `NoRepeats`, `QuietRowsListed`, `WritesOnlyItsKey`, `PinsAgree`, `PanelShowsFile`, `SetupLeadsToChat`, `TopicsHaveAgents`, `SavesTheEdits` |

Failing, each a disagreement of the code with a sentence of the repository:

| Run | Property | What happens |
|---|---|---|
| `one_active` | `OneActiveRun` | two processes send to one topic; both look before either inserts (docs/runs.md:106) |
| `cache` | `StreamSurvivesSwitch` | the user leaves a topic before its messages have arrived and comes back while its answer streams: the page it is given lacks the streamed message (useChat.ts:7) |

*Bounds.*  Two processes give every race that the code has between two parties;
the third party of the race (a user who injects or cancels) may be in either.
Two runs of one topic are needed for what one run can do to the next.  Two or
three iterations and three messages let messages arrive before the first call,
between calls, and between the last call and the finish.  A topic, a run id and a
message are used once.  One failure in `Events` can come at any point of any check
and in any loop; a second adds nothing but another stale row.  `MaxTime` bounds the clock:
a daily event fires up to three times in `days`.  In `checks` a day has one
instant, so that a daily event is due at every tick.

`page`: a page of three messages holds one turn and a half, so a second turn
leaves the first one cut at the page's end, and a third page is empty; two turns
of one topic, or of two, one of which the server or the upload makes, either of them
the page's or somebody else's.  One
request at a time follows from `Switching = FALSE` but for a `loadMore` beside a
deletion (section 5).  `told`: after two completed runs of a topic the window is full,
the fourth run has one run in full and two summarised; `runWindowMin` and
`runWindowMax` of the code (context.ts) are larger, the slices are the same.  The
constraint `OneKindInAll` leaves out what follows when all four runs have started
and there were both an injection and tool calls; with three runs both occur.

`reading` is four instances side by side (`MCText`).  *Stream*: three events with
two indices, each protocol, each kind of line end, up to four tokens at a time:
a JSON text, a line end and a CRLF are each cut in every place, with data of one
line and of two.  *Shell*: every pair
of items, one from each of two families that hold each kind of word (bare, in
quotes with operators, brackets, blanks, escapes, JSON with and without an escaped
quote), and all chains of three commands, of which one fails and one prints nothing.  *Files*: two topics, two
of four files in one message (two with one name, one with a number in brackets,
one text), runs of both topics at one time.  *Calendar*: days of six units, every instant of a
change by one unit or two either way within a day, so that a gap and a repeated
hour fall on every time of the day and on midnight, zones east and west of
Greenwich, lateness up to two days.

`service` is three instances side by side (`MCService`).  *Pages*: up to four rows
of all tables in two seconds, pages of one row, so that the cursor stands at every
row.  *Config*: three writes or openings of the panel, two handlers of it at one time, keys that name a text, a map, an item of a
sequence and a text under a text; sequences of at most three items, the number
that three pins make.  *Agents*: two agents, one topic, one clip, two
edits beside the form's steps, each deletion and new topic in two statements.

*Fairness.*  A process goes on with a section it has entered, and takes up every
callback in its turn.  A loop waits while its process is busy with something
else, so its steps need strong fairness, as does the delivery of a signal.
Nothing is assumed of users, of the start of processes, or of the clock.  That
the LLM and the tools eventually answer, one way or another, is an assumption
about the environment; the code has no timeout for LLM calls.  In `Events`, cron
starts a check again and again (strong fairness of `Claim`, because a process is
not always free to do it), and loops end, which is what `EveryRunEnds` says.  In
`Chat` the server goes on with a turn it has begun, to an answer or a failure
(`EveryRunEnds` again), uploads are answered, with success or not, and the events of
streams that have arrived are handed to their callbacks: weak fairness of all of these
together, which is all that `StreamEnds` needs.  Answers to other requests, other
writers and broken connections need not happen, nor does the user have to do anything.

*Deadlock* is not checked: all ids used up, all processes gone, is a state where
the instance legitimately stops.

*Mutants.*  Each property of a passing run has a mutant in its module
(`PROJECT.json`, "mutants"), a plausible bug in a definition, that makes the
property fail in the same run.

## 4. Theorems

No theorem has an assumption beyond those of its module, with five exceptions:
those on the lifecycle of runs but for `CancelledWhenStoppedHolds`, which have
`~Overlap`; `QuietRowsListedHolds`, which leaves out lists of topics with a filter by status; those on what the
chat page shows, which are about a user who waits; `SetupLeadsToChatHolds`, which
has `NoSequenceOfProviders` (no key makes a sequence of the providers); and
`WritesOnlyItsKeyHolds`, which has `NumbersNameItems` (a key goes through a sequence
by a number, and through no text that is an item of one).  Without them the
properties fail (section 5).  The last two are about the values of the constants;
`MCService` assumes them of its instance, so that TLC evaluates them.

`RunsProofs`, for every number of processes, topics, runs, messages and
iterations, whether processes overlap or not and the configuration is readable
or not:

- `TypeCorrect`: `Spec => []TypeOK`.
- `DeliveryInOrder`, `DeliveryComplete`: `InjectedInOrder` and
  `SavedRunHeardAll` are invariants.  They are not inductive.  `Delivery` adds
  what the loop knows at each place: a run id without a row has accepted nothing;
  from the atomic finish until the messages have been saved, the row is closed,
  the inbox is empty and the last call was given all there is (`Closed`).  The
  proof has one step per action; only `Inject`, `TakeInbox`, `Answer`,
  `SaveMessages`, `CreateRun` and `DeleteTopic` disturb a conjunct.  The step for
  `TakeInbox` rests on `AppendConcat` and on properties of concatenation.
- `Refinement`: `Spec => ImplementsMailbox`.  Steps that touch neither the
  status, the history, `heard` nor `saved` stutter (`BoxKept`); the others are
  `Open`, `Accept`, `Read`, `Close` or `Complete`.  `Delivery` gives the guards of
  `Read` and `Complete`.

- `CancelledWhenStoppedHolds`: a row says cancelled only if a user asked for it or a
  signal reached its process while the loop was at work.  The invariant `Stopped` adds
  that a controller is aborted, and a `cancel` section entered, for the same two reasons
  only.

Also in `RunsProofs`, under `~Overlap`: `OneActiveRunHolds`, `CancelledNeverSavedHolds`,
`TerminalIsFinalHolds`, `NoCallAfterCancelHolds`.
Their common inductive invariant `Single` says that one process is alive and
only that one is in a section (`OneProcess`); that a topic has one running row,
and none while a process is about to insert one (`OneRow`); that no loop is
between two statements while its process is in a section, and that a section's
row still says running (`Exclusive`); and which status goes with which place of the loop (`StatusOf`).  The last is the
heart of it: a loop that can still act has a running row, or has been aborted, by a command or a signal.

`EventsProofs`, for any processes that overlap in any way, any events, topics,
runs and failures, any `--limit` and days of any length: `EventTypesHold`,
`OnceHolds`, `RowsAreWorkedOnHolds`, `OnScheduleHolds`, `NoStartAfterEndHolds`.
The inductive invariant has two halves that need each other's types only.
`Schedules` is about the events table and the clock: an id stands for one event
(`Ids`); what `updateEvent` is about to write is as good as what it read
(`Edits`); a check goes by a time that has been (`Clock`); and the next
occurrence of a scheduled event is later than the last that was started
(`Later`), from which `OncePerOccurrence` follows at each `Advance`, because the
row is looked at again in the transaction.  `Work` is about processes and rows:
`Jobs` says what a process has in hand at each place; with it a row that names a
living process is worked on, in hand, or `lost` by one of the two failures that
`RowsAreWorkedOn` names.  `DailyAfterIs` shows that the next
occurrence exists and lies within a day, for days of any length; the set of
events must be finite, since a claim is a finite list (`ClaimsAreEvents`).

`AgentsProofs`, for any agents, topics, clips and edits: `TopicsHaveAgentsHolds`,
`SavesTheEditsHolds`.  The invariant `Inv` says that the form, and a save under
way, show the row they were opened with but for what has been edited (`Forms`,
`Requests`); `CreatedAsIntended` and `UpdatedAsIntended` then follow field by
field, through all of "given", "empty" and "null".  For topics it says what the first
statement of a deletion or a new topic is worth at the second (`Finds`): the agent is
still there, or still has no topic, unless a command of the other kind was between its
own two statements, which is what `raced` records (`FindsKept`, `FindsErased`,
`FindsInserted`).

`TextProofs`, of `Calendar`, for days of any length, any zones whose clocks are changed by a
day at most and any lateness: `RunsByTheWallClockHolds`, `ADayApartHolds`.
`FourCorrections` says what the guess comes to: an instant at which the clock
shows the time, or, where the clock leaves it out, the time less one of the two
offsets.  From there it is arithmetic of two targets that are days apart:
`RunsApart`, `NonePassedOver`, `TomorrowAhead`.  The invariant adds that the next
run is the run of some day.

Also in `TextProofs`, of `Stream`: `ReadAsSentHolds`, for any number of
events, indices and tokens on their way, any chunks and both protocols.  `Said(ev, P,
n)` is what the first `n` events say in the terms of the assembled response;
`OpenAISays` and `AnthropicSays` show that an event takes the response from `n - 1` to
`n`, `MeansWhatIsSaid` that this is the reference `Meaning`.  A place in the stream is
an event, a line of it and a token of that line; `Leads` says that a text goes from
one place to another (`LeadsOn`, `LeadsBy`: put together and cut anywhere), and
`AtRest` what a reader at a place has in its buffer, its data lines and the response.
`StepSays` takes one token from a place to the next, `ScanSays` a chunk.  The invariant
`StreamInv`: until the call returns, what is on its way leads from the reader's place
to the end of what has been sent, or the connection broke and nothing is on its way;
`FlushSays` covers what is left over then.  A reader that took the LF of a split CR LF
for an empty line has ended the event one line early, which is the same answer only if
the data are one line: the second alternative of `Before`, and why the exception of
the property is needed.

The third part, of `Shell`: `ChainAsShellHolds`, for lines of any length, any texts
that are `WellMeant`, and any answers; of a line with an escaped quote nothing is said
(`ClearLines` are the others).  `LineReads` is about `parseChain` alone: a
written line comes back as as many segments as it was meant to have, with the same
operators.  It goes by the characters: a text that follows another is read from where
that one has led (`CharsJoin`), a piece adds nothing but text (`PieceReads`, which
keeps the open quote of the reader equal to that of the text), an operator ends the
segment (`OpReads`).  The rest is an invariant of `Registry.exec`, `ShellInv`: the
calls are those of segments before the next one, in their order (`InTurn`); for each
segment that has been passed there is a last call before it, whose outcome and the
operator say whether it ran (`Decided`); each call after a `|` had the output of the
call before it (`Fed`), which need not be that of the segment before it, hence
`PipelinesWhole`; and what has been collected are the results so far (`ResultsOf`).

`ConversationProofs`, for any number of runs, topics, parallel calls, injections
and batches, any iteration limit and any windows: `TypeOKHolds`,
`TranscriptsAgreeHolds`, `WellFormedRequestsHolds`.  `ConversationInv` says of each
of the loop's lists that it is `WellFormed`: a message with calls is followed by
their results in their order, no call is made twice, and only the last message
may be owed results.  At each place of the loop it is `Open` (the user, or a tool,
spoke last and all is answered) or `Owes` the rest of one batch; the saved rows
owe nothing; and the new messages are the end of the context (`Agree`).  A context
made of saved rows of any number of runs is well formed because each is; that the
first two forms of request keep the pairing, and that merging makes roles
alternate, is shown for all well-formed lists.

`ConversationRememberedHolds` is an action property: every step that begins a run
leaves it with a context that says what `Remembers` says.  It needs a second
invariant, `PastOK`: runs are started in the order of their numbers, so that the
new run comes after all that are done; the rows of a run are that run's messages;
and a run that has a summary has rows, so that it is told by them when it is in the
window.  `buildContext` is taken apart by lemmas.  `InOrderIs`: the list of
done runs goes up and has each of them.  `Windows`: one number cuts that list into the
summarised and the full runs, and if there are any of the former, the latter are
`runWindowMin`.  `MessagesTidy` and `ContextTidy`: a list made of what several runs said
one after another is `Tidy`, that is, sorted by run, each run's messages in one piece
that `Holds` exactly its rows.  `SummariesForIs` and `HistoryTells`: the lines of the
history are as many as the older runs with a summary to stand for them, and each is of
a summary of the same topic, the run's own if it has one.  The
proof covers every member of `buildContext`, so either of two summaries as near.

`PagesProofs`, for any rows, clocks and page sizes: `NoRepeatsHolds`,
`QuietRowsListedHolds`.  `PagesInv` says where the rows are while a client reads:
what it was shown lies behind the place of its cursor, rows that nobody wrote
lie ahead or were shown (`ShownIsBehind`, `QuietIsAhead`).  That ids and
timestamps grow with the clock (`TimesOK`) makes rows that are written meanwhile
come before the cursor.

`ConfigProofs`, for any trees at first, keys, providers, clips and numbers of
writes:

- `PanelShowsFileHolds`, for any number of handlers at one time.  `NewestIsFile`: as
  long as nobody else writes, once every handler has read the file, the newest answer
  is what the file says, and it is on its way or shown, or an older one came after it
  (`late`).  `HandlersForm` says that a handler sends first and loads then.
- `FileIsTree`: `ConfigSpec => []IsTree(doc)`.  `TreeInv` adds that what the panel
  and the setup page have still to write are requests.  Every operation on the
  document has its lemma: `Put`, `Fill` and `Into` keep a tree, so the walk of
  `setPath` does at each of its places (`Places`), and `RemoveItem` does, because
  moving up is injective and leaves the items numbered without a gap.  The
  functions that `setPath` and `NonEmpty` define recursively are shown to exist
  (`Recursion`).
- `PinsAgreeHolds`.  The texts of the pinned sequence without the empty ones are
  what the run has (`Gathers`): an item at the end appends, and the first item
  with a text (`FirstIn`) is removed at the place that corresponds, although
  places of the file and of the list differ when there are empty items.
- `SetupLeadsToChatHolds`.  `ChatInv` says how far a submit has come (`Stage`): as
  long as nobody else writes, the provider has its key after the second write and
  is the current one after the fourth, and later writes do not undo it (`Keyed`,
  `Current`).  That `setPath` gets there needs that no place on its way is a
  sequence (`WayFine`), which is what `NoSequence` keeps true of the file.
- `WritesOnlyItsKeyHolds`, an action property.  `WriteInv` says which sequences and
  texts the file may have at all (`Allowed`), so that a walk never stands where it
  cannot go on and stays on the way to its key (`WayGood`); each step of it, the
  write at its end and the removal of an item keep every text that the key is not
  related to (`Keeps`).

Two definitions of the model were wrong or could not be reasoned about until these
proofs: `RemoveItem` lost what was below an item that moved up, and two guards of
the `CASE` in `Into` could be true at once.

`ChatProofs`, for any topics, turns, pages and tokens, whether or not the user
waits: `TypeOKHolds`.  What a stream adds to the screen is counted by tokens, so
that no text is longer than `Tokens` is a fact about the wire: what is said is
what was heard and what is on its way (`TurnsFit`), and of a stream that is open
the rest comes in order, tokens before the end (`StreamFits`).  That a page of a
topic is made of rows of the table is `PageIsPageOf`, for pages as sorted sets
(`InOrder`).

Also in `ChatProofs`, for a user who waits: `ScreenIsCurrentHolds`, `NoGapsHolds`,
`AnswerShownHolds`.  Their hypotheses are `~Switching` (the user selects, sends and
deletes while nothing is under way of his own), `MaxRequests = 1` (and does not scroll up
while a topic is being deleted; `~Switching`, `isLoadingMore` and `hasMore` rule
out any other second request), and `ErrorIsNoPage` (an answer that
failed is not a page; `agent.ts` rejects).  The user still cancels and scrolls up
at any time, connections break, others run turns in the same topics (lemmas
`Break...`, `Elsewhere...`), and such runs go on and are saved behind the page's back.  The three properties speak of states at rest and are far from
inductive.  `Waits` says what holds on the way there:

- `LogFits`: the two rows of a turn stand side by side, in its topic, when its run
  is saved and not before.
- `OneAtATime`: one request, one turn that is under way, and no topic is selected
  or deleted beside it.
- `Good` says of a list of messages that it may stand on the screen of a topic:
  all belong there, no message is twice, those that have rows are in the order of
  the rows, once a row is shown all later ones are (`Suffix`), the last is shown
  (`Latest`), and no row before the cursor is shown and every row from it on is
  (`Since`).
  The rows of runs that the page does not hear to their end (`unheard`) do not count.
- `RequestFits`, `CacheFits`: an answer on its way, and what the cache has of
  another topic, are `Good` for their topic, with every answer that was saved
  there in full (`Calm`); a page of older messages goes with the cursor that the
  page still has.
- `ScreenFits`: at rest the screen is `Good` for the current topic; during a turn
  it is `Good` for the topic of the turn, with the turn's two messages at the end
  (`TurnShown`), which is the current one unless the event with its name is still
  on its way (`Naming`); once "done" has been heard the answer is there in full.
- `UsedFits`: a topic that is current, cached or in the table has had a turn or was
  there before, so that the id of a new topic is on no screen and in no cache.

Every step that touches rows or turns is first shown to go `Onward`: rows are only
added at the end, and only for turns that were under way or unheard; a turn
that is over stays so.  `GoodOn` and `CalmOn` carry `Good` and `Calm` over any such
step, so that the proof of an action is left with what it changes itself:
`GoodAppends` for a message at the end (`Send`, a placeholder), `GoodSaves` for
the rows of the turn that is shown (`Save`), `PageGood` for a first page and
`GoodGrows` for older messages before those shown (`LoadedMore`).

What these proofs do instead of induction over data: a claim for all positions of
a sequence is proved from its least counterexample (`FirstOf` in
`ConversationProofs`, `PagesProofs` and `ConfigProofs`, from `WFMin` and
`NatLessThanWellFounded`), and a function
that is defined recursively is shown to exist from the finite functions that
approximate it (`Recursion`).

Only model-checked:

- the liveness properties (`EveryRunEnds`, `DueEventStarts`, `StreamEnds`), which the
  prover cannot do;
- `CalledAsWritten` and `SentAsComposed`, which say what loops over texts compute
  (`tokenize`, `unescapeString`, the extraction of attachments), by `FoldLeft`,
  `FlattenSeq`, `SelectSeq` and other recursive operators.

## 5. Known divergences

What the code does and a reader might not expect.  The first two are findings,
with a run of their own; the rest was met while modelling.  Models follow the
code; a property that would fail is stated with the exception named here.

Runs and events:

- Two processes can start two runs of a topic (`one_active`).
- `cancel-run` marks the row while the loop may still be in a tool
  (commands.ts:515); the next send starts a second loop beside it.
- A run is marked done before its messages are saved (commands.ts:402): a crash
  or `SQLITE_BUSY` between the two loses them.
- Each run adds its own handler of SIGTERM and SIGINT (commands.ts:376): one signal
  cancels all runs of the process, whoever sent it, and `event-check` marks the row
  that it takes back cancelled (commands.ts:198), although docs/runs.md:40 says of
  cancelled "user called cancel-run".  `CancelledWhenStopped` says what holds.  With two live processes `finishRun` (db.ts:611), which has
  no condition on the status, can overwrite a terminal status.
- A topic that is deleted under a working run gets messages and a summary after
  it is gone (db.ts:691).  The rows of its full text index stay (db.ts:693).
- The row of an asynchronous run is inserted before the configuration is read
  outside the try block (commands.ts:370), and `finishRun` in the catch block can
  throw (commands.ts:407): the row says running as long as the process lives.
  `RowsAreWorkedOn` excepts both (`lost`).
- `event-check` starts a claimed event with the topic and the prompt that it read
  when it claimed it (commands.ts:205), not those of the row that it advances; and
  takes the first `--limit` due events even if these are all of busy topics.
- `updateEvent` with a time zone may write back an occurrence that has fired
  meanwhile (events.ts:196).
- `handleEventUpdate` passes keys that `updateEvent` rejects
  (handlers/event.ts:79-97, events.ts:174).
- A message that is injected with attachments loses these (commands.ts:307).
- An event that is created for a time the clock leaves out, or on a day that
  begins twice because the clock is put back over midnight, may be due at once:
  `computeInitialNextRun` takes tomorrow's run without a look at the clock
  (events.ts:391-401; `advanceEventSchedule` has a loop there).

Conversation, stream and command lines:

- The window of full runs grows to `runWindowMax` once, then it has
  `runWindowMin` runs for good (context.ts:111); docs/context.md:18-23 says that it
  grows again after it was compressed.
- The usage round of context clips is counted per process, not per topic
  (context.ts:20).
- An answer whose connection ends early is taken for complete (llm.ts:591).
- A CR at the end of a chunk ends a line, and the LF at the start of the next chunk
  another, an empty one, because `buffer[i + 1]` was not there yet (llm.ts:599).  It
  matters when the data of an event has two lines: the event is dispatched after the
  first, neither half is JSON, and it is lost, although llm.ts:551 names both CR LF
  and data of several lines.  `ReadAsSent` leaves out this pair; without the exception
  TLC finds the loss after six steps.
- When `&&` or `||` skips the head of a pipeline the rest of it runs by itself,
  with the output of an earlier command (tools.ts:97): `PipelinesWhole` is the
  hypothesis of `ChainAsShell`.
- A quote that is escaped inside a quoted text ends it for both readers
  (chain.ts:22-33, tools.ts:165-180), although the tool's description asks for JSON
  (tools.ts:242): `--properties {"a": "say \"x ; y\""}` is split at the semicolon.
  `CalledAsWritten` and `ChainAsShell` except such segments (`EscapesQuote`).
- A clip's option whose value is empty or begins with a dash counts as a flag; a
  number in quotes is a number; JSON on stdin replaces the plain words
  (tools.ts:873): `Misread`.

Service and user interface:

- Late answers show another topic's messages, or a deleted one's, to a user who
  goes on meanwhile (useChat.ts:196, 271): `page` has `Switching = FALSE`, `cache`
  `TRUE`.  So does scrolling up while the topic is being deleted (useChat.ts:222):
  older messages of it arrive on the empty screen; `page` has one request at a
  time.
- The page of a topic that streams is replaced by the cached one (`cache`).
- When a connection breaks the page shows an error for a run that goes on and is
  saved (`lib/agent.ts:224, 241`); `AnswerShown` excepts it.
  If that was the first message of a chat and the name of its topic had not arrived,
  the message stays on the screen and the next one starts another topic below it;
  so do cancelled first messages and failed uploads (`Nameless` in `ScreenIsCurrent`).
- What event checks, the command line and other pages save in the topic that is open is
  missing from the screen until the topic is loaded again (`unheard` in `NoGaps`).
- The name of a file is cut at `" ("` when the topic is loaded (sanitize.ts:18);
  two pictures of one name that are uploaded in one millisecond are one file
  (upload.ts:46).
- The filter by status is applied after `LIMIT` (handlers/topic.ts:124): a list of
  active topics can end early.  `service` reads topics without it.
- The runs of a topic and the events are paged by looking the cursor up in the
  whole list: a cursor that is gone starts again from the top (`lost`).
- `agent update` without `--name` empties the name (handlers/agent.ts:86); a field
  of the form that is emptied keeps its value, although the form promises the default
  for it (AgentFormView.tsx:131, 199, 244): `Intended` of `SavesTheEdits` leaves it out.
- `deleteAgent` counts the topics and deletes the agent in two statements
  (db.ts:260-266), `createTopic` looks for the agent and inserts in two (db.ts:302-310),
  and the foreign key (db.ts:75) is never enforced: two processes can leave a topic whose
  agent does not exist.  `TopicsHaveAgents` excepts agents that were `raced`.
- Handlers of the settings panel overlap (SettingsPanel.tsx:27-83): a load that was
  answered late leaves the panel with what the file said before.  `PanelShowsFile`
  excepts an answer that was overtaken (`late`).
- `handlers/topic.ts:18` imports `forkTopic`, which `db.ts` does not define.
- A key with a numeral can make a sequence of the providers; the writes of the
  setup page then do nothing, and say so to nobody (config.ts:339-373).
- `config set` refuses an empty value and `config delete` an empty key
  (handlers/config.ts:34, 42), which the panel sends for a provider without a key
  and for a reset (SettingsPanel.tsx:57, 70, 266); `setPath` passes over parts
  that a sequence cannot take (config.ts:321) and then writes elsewhere or nothing.
- A run of an agent pins clips in the global list (tools.ts:618).  Two processes
  that write the configuration at once lose a change (config.ts:183).

## 6. What is not modelled

- *Memory search* (`memory.ts`): embeddings, ranking on floats and SQLite's full
  text search; there is no state besides what `Conversation` and `Runs` have.
- *Clip discovery and context clips*: calls over the network to a hub; the text of
  recall and environment in the context.
- *Migrations* (`openDB`): they run once, before anything else.
- *The `fs` commands*: `registerFSCommands` (fs.ts:72) is never called; the registry of a
  run is made of other commands (tools.ts:279-288).
- *The bridge* (`bridge.ts`): the page uses `invokeStream` of @pinixai/core/web.
- *Views, translations, mock, built assets, logging*: layout, texts,
  transport, generated code.
- In `Runs`: reuse of process ids (a process is an incarnation); the output file of
  an asynchronous run; a process with several database connections (there is one).
- In `Chat`: the blocks within a message; agents, which `Agents` has; topics that
  somebody else deletes; the output of an asynchronous run, which a page that is
  loaded shows in place of the empty placeholder.  Several pages open at once have no
  state in common but the server's.
- In `Config`: comments and formatting of the file; a second process that writes.
- In `Pages`: dead processes, which `Runs` and `Events` have.
- Left for another time: a limit of `event-check` that is filled by events of busy
  topics.
