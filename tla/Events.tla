------------------------------- MODULE Events -------------------------------
(***************************************************************************)
(* Scheduled events (src/events.ts) and the event-check command that cron  *)
(* starts (runEventCheck in src/commands.ts).  A check claims what is due, *)
(* and for each claimed event looks for an active run of its topic,        *)
(* inserts a run, advances the event and starts the loop.  These are       *)
(* separate statements: users, sends and other checks come between them,   *)
(* and the process may die after any of them.  A statement that finds the  *)
(* database locked throws out of runEventCheck, which ends the process:    *)
(* that, too, is the action Die.                                           *)
(*                                                                         *)
(* The loops are those of Runs, seen from outside: a loop works until it   *)
(* ends.  Of the runs table only the rows that say running are kept, a run *)
(* id is free again when its row says something else.                      *)
(***************************************************************************)
EXTENDS Naturals, Sequences, FiniteSets

CONSTANTS
  Process,   \* processes started by cron or by a send; an entry stands for one at a time
  Event,     \* event ids
  Topic,     \* topic ids
  Run,       \* ids for runs that are running at the same time
  Limit,     \* events that one check claims, --limit
  DayLength, \* instants of a day
  MaxTime,   \* bound of the model: the last instant
  MaxFailures, \* bound of the model: processes that die, loops that cannot begin or
               \* cannot write how they end
  None       \* no event, no topic, no run or no living process

ASSUME EventsAssumption ==
  /\ Limit \in Nat \ {0} /\ DayLength \in Nat \ {0}
  /\ MaxTime \in Nat /\ MaxFailures \in Nat
  /\ IsFiniteSet(Event)
  /\ None \notin Process \cup Event \cup Topic \cup Run

VARIABLES
  now,
  \* the events table
  status,   \* status[e]: the status column; no row when unused or deleted
  topicOf,  \* topicOf[e]: the topic_id column
  kind,     \* kind[e]: the schedule_kind column, kept when the row is deleted
  offset,   \* offset[e]: time of the day of a daily event, in its time zone
  next,     \* next[e]: the next_run_at column
  \* the runs table, rows that say running
  rows,     \* rows[r]: the topic and the process of a row, and whether its loop could
            \* not begin or not write how it ended (history); or None
  \* the processes
  at,       \* at[p]: where p is
  due,      \* due[p]: the events it has claimed and not dealt with, as it read them
  fired,    \* fired[p]: when it claimed them
  active,   \* active[p]: topics it takes for busy
  job,      \* job[p]: the topic and the run it is dealing with
  worker,   \* worker[r]: the process in which the loop of r works, or None
  edit,     \* an updateEvent between its SELECT and its UPDATE
  failures,
  \* history
  last,     \* last[e]: the latest occurrence that was advanced for a loop to start, or 0
  again,    \* events advanced once more for an occurrence not later than that
  rezoned   \* events whose time zone has been updated

table     == <<status, topicOf, kind, offset, next>>
processes == <<at, due, fired, active, job>>
history   == <<last, again, rezoned>>
vars      == <<now, table, rows, processes, worker, edit, failures, history>>

-----------------------------------------------------------------------------

Time == 0 .. MaxTime + DayLength

NoJob == [topic |-> None, run |-> None]

NoEdit == [event |-> None, offset |-> 0, next |-> 0]

\* The claim's WHERE clause.
Due(e) == status[e] = "scheduled" /\ next[e] <= now

\* Mutant of DailyAfter: tomorrow, whatever the hour is.
Tomorrow(o, t) == CHOOSE n \in t + DayLength + 1 .. t + 2 * DayLength : n % DayLength = o

\* The first instant after t at the time of the day o, in the loops and date
\* arithmetic of computeInitialNextRun and advanceEventSchedule.
DailyAfter(o, t) == CHOOSE n \in t + 1 .. t + DayLength : n % DayLength = o

RunningIn(t) == {r \in Run : rows[r] # None /\ rows[r].topic = t}

Living(r) == rows[r].process # None

Delete(r) == rows' = [rows EXCEPT ![r] = None]

\* The process p ends: its rows keep saying running.
Orphan(p) ==
  rows' = [r \in Run |->
    IF rows[r] # None /\ rows[r].process = p
    THEN [rows[r] EXCEPT !.process = None, !.lost = FALSE]
    ELSE rows[r]]

\* p has dealt with the first event of its list.
Drop(p) == due' = [due EXCEPT ![p] = Tail(@)]

Go(p, place) == at' = [at EXCEPT ![p] = place]

-----------------------------------------------------------------------------
(* The clock, and the users.                                               *)

Tick ==
  /\ now < MaxTime
  /\ now' = now + 1
  /\ UNCHANGED <<table, rows, processes, worker, edit, failures, history>>

\* A once event needs a time in the future, a daily one gets its next occurrence.
CreateEvent(e) ==
  /\ status[e] = "unused"
  /\ status' = [status EXCEPT ![e] = "scheduled"]
  /\ \E t \in Topic : topicOf' = [topicOf EXCEPT ![e] = t]
  /\ \/ /\ kind' = [kind EXCEPT ![e] = "daily"]
        /\ \E o \in 0 .. DayLength - 1 :
             /\ offset' = [offset EXCEPT ![e] = o]
             /\ next' = [next EXCEPT ![e] = DailyAfter(o, now)]
     \/ /\ kind' = [kind EXCEPT ![e] = "once"]
        /\ \E n \in now + 1 .. MaxTime : next' = [next EXCEPT ![e] = n]
        /\ UNCHANGED offset
  /\ UNCHANGED <<now, rows, processes, worker, edit, failures, history>>

CancelEvent(e) ==
  /\ status[e] = "scheduled"
  /\ status' = [status EXCEPT ![e] = "canceled"]
  /\ UNCHANGED <<now, topicOf, kind, offset, next, rows, processes, worker, edit, failures, history>>

\* updateEvent with a topic: the UPDATE looks at the status once more, what was
\* read before does not enter into it.
MoveEvent(e, t) ==
  /\ status[e] = "scheduled"
  /\ topicOf' = [topicOf EXCEPT ![e] = t]
  /\ UNCHANGED <<now, status, kind, offset, next, rows, processes, worker, edit, failures, history>>

\* updateEvent with a time zone: the SELECT, and the next occurrence computed
\* from it; a once event keeps its instant, and throws when that has passed.
ReadForUpdate(e) ==
  /\ edit = NoEdit
  /\ status[e] = "scheduled"
  /\ \/ /\ kind[e] = "daily"
        /\ \E o \in 0 .. DayLength - 1 :
             edit' = [event |-> e, offset |-> o, next |-> DailyAfter(o, now)]
     \/ /\ kind[e] = "once"
        /\ next[e] > now
        /\ edit' = [event |-> e, offset |-> offset[e], next |-> next[e]]
  /\ UNCHANGED <<now, table, rows, processes, worker, failures, history>>

\* Mutant of WriteUpdate: next_run_at keeps its value.
WriteZoneOnly ==
  LET e == edit.event
  IN  /\ edit # NoEdit
      /\ IF status[e] = "scheduled"
         THEN offset' = [offset EXCEPT ![e] = edit.offset] /\ rezoned' = rezoned \cup {e}
         ELSE UNCHANGED <<offset, rezoned>>
      /\ edit' = NoEdit
      /\ UNCHANGED <<now, status, topicOf, kind, next, rows, processes, worker, failures, last, again>>

\* ... and the UPDATE, of a row that is still scheduled.
WriteUpdate ==
  LET e == edit.event
  IN  /\ edit # NoEdit
      /\ IF status[e] = "scheduled"
         THEN /\ offset' = [offset EXCEPT ![e] = edit.offset]
              /\ next' = [next EXCEPT ![e] = edit.next]
              /\ rezoned' = rezoned \cup {e}
         ELSE UNCHANGED <<offset, next, rezoned>>
      /\ edit' = NoEdit
      /\ UNCHANGED <<now, status, topicOf, kind, rows, processes, worker, failures, last, again>>

\* deleteTopic takes the events and the rows of the topic's runs with it.
DeleteTopic(t) ==
  LET gone == {e \in Event : status[e] # "unused" /\ topicOf[e] = t}
  IN  /\ status' = [e \in Event |-> IF e \in gone THEN "deleted" ELSE status[e]]
      /\ topicOf' = [e \in Event |-> IF e \in gone THEN None ELSE topicOf[e]]
      /\ offset' = [e \in Event |-> IF e \in gone THEN 0 ELSE offset[e]]
      /\ next' = [e \in Event |-> IF e \in gone THEN 0 ELSE next[e]]
      /\ rows' = [r \in Run |-> IF r \in RunningIn(t) THEN None ELSE rows[r]]
      /\ UNCHANGED <<now, kind, processes, worker, edit, failures, history>>

-----------------------------------------------------------------------------
(* A check.                                                                *)

\* The order of the claim: by next_run_at, and by creation where that is equal.
Claims ==
  LET ready == {e \in Event : Due(e)}
      count == IF Cardinality(ready) < Limit THEN Cardinality(ready) ELSE Limit
  IN  {q \in UNION {[1 .. count -> S] : S \in SUBSET ready} :
         /\ \A i, j \in 1 .. count : i < j => q[i] # q[j] /\ next[q[i]] <= next[q[j]]
         /\ \A e \in ready : (\A i \in 1 .. count : q[i] # e) =>
              \A i \in 1 .. count : next[q[i]] <= next[e]}

\* claimDueEvents; a check that finds nothing ends at once.
Claim(p) ==
  /\ at[p] = "off"
  /\ \E e \in Event : Due(e)
  /\ \E q \in Claims :
       due' = [due EXCEPT ![p] =
                 [i \in DOMAIN q |-> [event |-> q[i], topic |-> topicOf[q[i]]]]]
  /\ fired' = [fired EXCEPT ![p] = now]
  /\ Go(p, "claimed")
  /\ UNCHANGED <<now, table, rows, active, job, worker, edit, failures, history>>

\* getActiveRunTopics, read once for all the events of the check.
ReadActive(p) ==
  /\ at[p] = "claimed"
  /\ active' = [active EXCEPT ![p] =
       {t \in Topic : \E r \in RunningIn(t) : Living(r)}]
  /\ Go(p, "check")
  /\ UNCHANGED <<now, table, rows, due, fired, job, worker, edit, failures, history>>

\* The topic is in the list, or getActiveRun finds a living run: the event is
\* skipped and stays due.
Skip(p) ==
  /\ at[p] = "check"
  /\ due[p] # <<>>
  /\ LET t == Head(due[p]).topic
     IN  t \in active[p] \/ \E r \in RunningIn(t) : Living(r)
  /\ Drop(p)
  /\ UNCHANGED <<now, table, rows, at, fired, active, job, worker, edit, failures, history>>

\* Mutant of Look: getActiveRun does not reap.
LookOnly(p, t) ==
  /\ RunningIn(t) = {}
  /\ job' = [job EXCEPT ![p] = [topic |-> t, run |-> None]]
  /\ Go(p, "create")

\* getActiveRun of the topic t finds no running row, or one of a dead process.
Look(p, t) ==
  \/ /\ RunningIn(t) = {}
     /\ job' = [job EXCEPT ![p] = [topic |-> t, run |-> None]]
     /\ Go(p, "create")
  \/ \E r \in RunningIn(t) :
       /\ ~Living(r)
       /\ job' = [job EXCEPT ![p] = [topic |-> t, run |-> r]]
       /\ Go(p, "reap")

Take(p) ==
  /\ at[p] = "check"
  /\ due[p] # <<>>
  /\ Head(due[p]).topic \notin active[p]
  /\ Look(p, Head(due[p]).topic)
  /\ UNCHANGED <<now, table, rows, due, fired, active, worker, edit, failures, history>>

\* A process that was started by a send: one run, and no event.
Send(p, t) ==
  /\ at[p] = "off"
  /\ Look(p, t)
  /\ UNCHANGED <<now, table, rows, due, fired, active, worker, edit, failures, history>>

\* The stale row that getActiveRun has found is marked.
Reap(p) ==
  /\ at[p] = "reap"
  /\ Delete(job[p].run)
  /\ job' = [job EXCEPT ![p].run = None]
  /\ Go(p, "create")
  /\ UNCHANGED <<now, table, due, fired, active, worker, edit, failures, history>>

NewRow(p, lost) == [topic |-> job[p].topic, process |-> p, lost |-> lost]

\* createRun; the loop of a send starts at once, or cannot begin: the configuration
\* or the agent is read outside the try block of executeRunLoop.
Create(p) ==
  /\ at[p] = "create"
  /\ \E r \in Run :
       /\ rows[r] = None
       /\ worker[r] = None
       /\ \A q \in Process : job[q].run # r
       /\ \/ /\ due[p] # <<>>
             /\ rows' = [rows EXCEPT ![r] = NewRow(p, FALSE)]
             /\ job' = [job EXCEPT ![p].run = r]
             /\ Go(p, "advance")
             /\ UNCHANGED <<worker, failures>>
          \/ /\ due[p] = <<>>
             /\ rows' = [rows EXCEPT ![r] = NewRow(p, FALSE)]
             /\ worker' = [worker EXCEPT ![r] = p]
             /\ job' = [job EXCEPT ![p] = NoJob]
             /\ Go(p, "work")
             /\ UNCHANGED failures
          \/ /\ due[p] = <<>>
             /\ failures < MaxFailures
             /\ failures' = failures + 1
             /\ rows' = [rows EXCEPT ![r] = NewRow(p, TRUE)]
             /\ job' = [job EXCEPT ![p] = NoJob]
             /\ Go(p, "work")
             /\ UNCHANGED worker
  /\ UNCHANGED <<now, table, due, fired, active, edit, history>>

\* advanceEventSchedule, in the UPDATE of advanceDueEvent.
Reschedule(e, t) ==
  \/ /\ kind[e] = "daily"
     /\ next' = [next EXCEPT ![e] = DailyAfter(offset[e], t)]
     /\ UNCHANGED status
  \/ /\ kind[e] = "once"
     /\ status' = [status EXCEPT ![e] = "done"]
     /\ UNCHANGED next

\* startBackgroundRun of the row r, which may have been deleted meanwhile: the loop
\* works, or cannot begin, and the exception is dropped.
StartLoop(p, r) ==
  \/ /\ worker' = [worker EXCEPT ![r] = p]
     /\ UNCHANGED <<rows, failures>>
  \/ /\ failures < MaxFailures
     /\ failures' = failures + 1
     /\ rows' = [rows EXCEPT ![r] = IF @ = None THEN None ELSE [@ EXCEPT !.lost = TRUE]]
     /\ UNCHANGED worker

\* Mutant of Advance: the row is not read again, the claim is relied on.
AdvanceClaimed(p) ==
  LET e == Head(due[p]).event
  IN  /\ at[p] = "advance"
      /\ Reschedule(e, fired[p])
      /\ last' = [last EXCEPT ![e] = next[e]]
      /\ again' = IF next[e] <= last[e] THEN again \cup {e} ELSE again
      /\ StartLoop(p, job[p].run)
      /\ active' = [active EXCEPT ![p] = @ \cup {job[p].topic}]
      /\ job' = [job EXCEPT ![p] = NoJob]
      /\ Drop(p)
      /\ Go(p, "check")
      /\ UNCHANGED <<now, topicOf, kind, offset, fired, edit, rezoned>>

\* advanceDueEvent returns true, and the loop is started or cannot begin.
Advance(p) ==
  LET e == Head(due[p]).event
  IN  /\ at[p] = "advance"
      /\ status[e] = "scheduled"
      /\ next[e] <= fired[p]
      /\ Reschedule(e, fired[p])
      /\ last' = [last EXCEPT ![e] = next[e]]
      /\ again' = IF next[e] <= last[e] THEN again \cup {e} ELSE again
      /\ StartLoop(p, job[p].run)
      /\ active' = [active EXCEPT ![p] = @ \cup {job[p].topic}]
      /\ job' = [job EXCEPT ![p] = NoJob]
      /\ Drop(p)
      /\ Go(p, "check")
      /\ UNCHANGED <<now, topicOf, kind, offset, fired, edit, rezoned>>

\* It returns false: another check was faster, or a user cancelled, moved or
\* deleted the event.
Refuse(p) ==
  LET e == Head(due[p]).event
  IN  /\ at[p] = "advance"
      /\ status[e] # "scheduled" \/ next[e] > fired[p]
      /\ Go(p, "undo")
      /\ UNCHANGED <<now, table, rows, due, fired, active, job, worker, edit, failures, history>>

\* Mutant of Undo: the run that was inserted is forgotten.
UndoNothing(p) ==
  /\ at[p] = "undo"
  /\ job' = [job EXCEPT ![p] = NoJob]
  /\ Drop(p)
  /\ Go(p, "check")
  /\ UNCHANGED <<now, table, rows, fired, active, worker, edit, failures, history>>

\* finishRun of the run that was inserted for nothing.
Undo(p) ==
  /\ at[p] = "undo"
  /\ Delete(job[p].run)
  /\ job' = [job EXCEPT ![p] = NoJob]
  /\ Drop(p)
  /\ Go(p, "check")
  /\ UNCHANGED <<now, table, fired, active, worker, edit, failures, history>>

\* All claimed events are dealt with: the process waits for its loops.
Settle(p) ==
  /\ at[p] = "check"
  /\ due[p] = <<>>
  /\ Go(p, "work")
  /\ active' = [active EXCEPT ![p] = {}]
  /\ fired' = [fired EXCEPT ![p] = 0]
  /\ UNCHANGED <<now, table, rows, due, job, worker, edit, failures, history>>

CheckStep(p) ==
  \/ ReadActive(p) \/ Skip(p) \/ Take(p) \/ Reap(p) \/ Create(p)
  \/ Advance(p) \/ Refuse(p) \/ Undo(p) \/ Settle(p)

-----------------------------------------------------------------------------
(* Loops and the end of processes.                                         *)

\* The loop of r ends, in one way or another, and the row says so; or finishRun in
\* the catch block throws (another process holds the write lock).
EndLoop(r) ==
  /\ worker[r] # None
  /\ at[worker[r]] = "work"
  /\ \/ Delete(r) /\ UNCHANGED failures
     \/ /\ rows[r] # None
        /\ failures < MaxFailures
        /\ failures' = failures + 1
        /\ rows' = [rows EXCEPT ![r].lost = TRUE]
  /\ worker' = [worker EXCEPT ![r] = None]
  /\ UNCHANGED <<now, table, processes, edit, history>>

\* Nothing keeps the event loop of p alive any more.
Exit(p) ==
  /\ at[p] = "work"
  /\ \A r \in Run : worker[r] # p
  /\ Go(p, "off")
  /\ Orphan(p)
  /\ UNCHANGED <<now, table, due, fired, active, job, worker, edit, failures, history>>

\* p crashes, is killed, or a locked database makes runEventCheck throw: its
\* loops are gone, its rows keep saying running.
Die(p) ==
  /\ at[p] # "off"
  /\ failures < MaxFailures
  /\ failures' = failures + 1
  /\ Go(p, "off")
  /\ due' = [due EXCEPT ![p] = <<>>]
  /\ fired' = [fired EXCEPT ![p] = 0]
  /\ active' = [active EXCEPT ![p] = {}]
  /\ job' = [job EXCEPT ![p] = NoJob]
  /\ worker' = [r \in Run |-> IF worker[r] = p THEN None ELSE worker[r]]
  /\ Orphan(p)
  /\ UNCHANGED <<now, table, edit, history>>

-----------------------------------------------------------------------------

Init ==
  /\ now = 0
  /\ status = [e \in Event |-> "unused"]
  /\ topicOf = [e \in Event |-> None]
  /\ kind = [e \in Event |-> None]
  /\ offset = [e \in Event |-> 0]
  /\ next = [e \in Event |-> 0]
  /\ rows = [r \in Run |-> None]
  /\ at = [p \in Process |-> "off"]
  /\ due = [p \in Process |-> <<>>]
  /\ fired = [p \in Process |-> 0]
  /\ active = [p \in Process |-> {}]
  /\ job = [p \in Process |-> NoJob]
  /\ worker = [r \in Run |-> None]
  /\ edit = NoEdit
  /\ failures = 0
  /\ last = [e \in Event |-> 0]
  /\ again = {}
  /\ rezoned = {}

User ==
  \/ \E e \in Event : CreateEvent(e) \/ CancelEvent(e) \/ ReadForUpdate(e)
  \/ \E e \in Event, t \in Topic : MoveEvent(e, t)
  \/ \E t \in Topic : DeleteTopic(t)
  \/ WriteUpdate

Next ==
  \/ Tick
  \/ User
  \/ \E p \in Process : Claim(p) \/ CheckStep(p) \/ Exit(p) \/ Die(p)
  \/ \E p \in Process, t \in Topic : Send(p, t)
  \/ \E r \in Run : EndLoop(r)

Spec == Init /\ [][Next]_vars

\* A check that runs goes on, loops end (Runs, EveryRunEnds), and cron starts a
\* check again and again; users and the clock need not do anything.
Fairness ==
  /\ \A p \in Process :
       WF_vars(CheckStep(p)) /\ WF_vars(Exit(p)) /\ SF_vars(Claim(p))
  /\ \A r \in Run : WF_vars(EndLoop(r))

FairSpec == Spec /\ Fairness

-----------------------------------------------------------------------------
(* Properties.                                                             *)

\* Columns and variables hold values of their types.
TypeOK ==
  /\ now \in 0 .. MaxTime
  /\ status \in [Event -> {"unused", "scheduled", "done", "canceled", "deleted"}]
  /\ topicOf \in [Event -> Topic \cup {None}]
  /\ kind \in [Event -> {"once", "daily", None}]
  /\ offset \in [Event -> 0 .. DayLength - 1]
  /\ next \in [Event -> Time]
  /\ rows \in [Run -> [topic: Topic, process: Process \cup {None}, lost: BOOLEAN] \cup {None}]
  /\ at \in [Process -> {"off", "claimed", "check", "reap", "create", "advance", "undo", "work"}]
  /\ due \in [Process -> Seq([event: Event, topic: Topic])]
  /\ fired \in [Process -> 0 .. MaxTime]
  /\ active \in [Process -> SUBSET Topic]
  /\ job \in [Process -> [topic: Topic \cup {None}, run: Run \cup {None}]]
  /\ worker \in [Run -> Process \cup {None}]
  /\ edit \in [event: Event \cup {None}, offset: 0 .. DayLength - 1, next: Time]
  /\ failures \in 0 .. MaxFailures
  /\ last \in [Event -> Time]
  /\ again \subseteq Event
  /\ rezoned \subseteq Event

\* However many checks overlap, and wherever one dies, an occurrence of an event
\* starts at most one loop: a once event starts one in its life, the starts of a
\* daily event are for later and later occurrences.  A daily event whose time zone
\* is being changed while it fires is excepted: updateEvent may write back an
\* occurrence that it computed before the event was advanced.
OncePerOccurrence == \A e \in again : e \in rezoned /\ kind[e] = "daily"

\* A row that says running and names a living process is worked on: its loop was
\* started, or the process is about to start it or to take the row back, however
\* claims, deletions, lost races and crashes fall.  A row that nobody works on keeps
\* its topic busy as long as that process lives.  Two failures are excepted, after
\* which the code does leave such a row: a loop that cannot begin because the
\* configuration or the agent cannot be read (outside the try block of
\* executeRunLoop), and a loop whose finishRun throws.
RowsAreWorkedOn ==
  \A r \in Run : rows[r] # None /\ Living(r) /\ ~rows[r].lost =>
    worker[r] = rows[r].process \/ job[rows[r].process].run = r

\* A daily event that is scheduled is due at its time of the day, and within a day:
\* no update of its zone, advance or check that comes late sets it to another hour
\* or makes it pass over an occurrence to come.
OnSchedule ==
  \A e \in Event : status[e] = "scheduled" /\ kind[e] = "daily" =>
    next[e] % DayLength = offset[e] /\ next[e] <= now + DayLength

\* Once an event is canceled, done or deleted, no claim of a check that read it
\* before starts a loop for it.
NoStartAfterEnd ==
  [][\A e \in Event : status[e] # "scheduled" =>
       last'[e] = last[e] /\ (e \in again' => e \in again)]_vars

\* With a limit that lets every due event be claimed, no event stays due for ever
\* in a topic that nothing keeps busy, although a check skips what its stale list of
\* active topics names, and although dead processes leave rows that say running.
DueEventStarts ==
  \A e \in Event, t \in Topic :
    ~<>[](Due(e) /\ topicOf[e] = t /\ \A r \in RunningIn(t) : ~Living(r))

=============================================================================
