---------------------------- MODULE EventsProofs ----------------------------
(***************************************************************************)
(* Theorems about Events, for any number of processes, events, topics and  *)
(* runs, any limit of a check and days of any length.                      *)
(***************************************************************************)
EXTENDS Events, TLAPS, FiniteSetTheorems

-----------------------------------------------------------------------------
(* The inductive invariant.                                                *)

\* An id stands for at most one event; a scheduled event has a kind and a topic.
Ids ==
  \A e \in Event :
    /\ status[e] = "unused" => last[e] = 0 /\ e \notin again
    /\ status[e] # "unused" => kind[e] \in {"once", "daily"}
    /\ status[e] = "scheduled" => topicOf[e] \in Topic

\* What updateEvent is about to write is as good as what it has read.
Edits ==
  edit # NoEdit =>
    /\ edit.event \in Event /\ status[edit.event] # "unused"
    /\ kind[edit.event] = "daily" =>
         edit.next % DayLength = edit.offset /\ edit.next <= now + DayLength
    /\ kind[edit.event] = "once" /\ status[edit.event] = "scheduled" =>
         edit.next = next[edit.event]

\* A check goes by a time that has been.
Clock == \A p \in Process : fired[p] <= now

\* The occurrence that is next has not been started.
Later ==
  \A e \in Event :
    status[e] = "scheduled" /\ ~(e \in rezoned /\ kind[e] = "daily") => last[e] < next[e]

\* A process has a run in hand only while it deals with an event, or sends; the
\* row that it has inserted is its own, or gone.
JobOf(p) ==
  /\ at[p] \in {"off", "claimed", "check", "work"} => job[p] = NoJob
  /\ at[p] \in {"off", "work"} => due[p] = <<>>
  /\ at[p] \in {"reap", "create", "advance", "undo"} => job[p].topic \in Topic
  /\ at[p] = "reap" => job[p].run \in Run
  /\ at[p] = "create" => job[p].run = None
  /\ at[p] \in {"advance", "undo"} =>
       /\ due[p] # <<>> /\ job[p].run \in Run
       /\ rows[job[p].run] = None \/ rows[job[p].run].process = p

Jobs == \A p \in Process : JobOf(p)

\* The two halves of the invariant: the events table and the clock, and the
\* processes and the rows they have inserted.
Schedules == Ids /\ Edits /\ Clock /\ Later /\ OncePerOccurrence /\ OnSchedule

Work == Jobs /\ RowsAreWorkedOn

-----------------------------------------------------------------------------
(* The calendar.                                                           *)

\* Every day has every hour: DailyAfter chooses an instant that exists.
LEMMA DailyAfterIs ==
  ASSUME NEW o \in 0 .. DayLength - 1, NEW t \in Nat
  PROVE  DailyAfter(o, t) \in t + 1 .. t + DayLength /\ DailyAfter(o, t) % DayLength = o
<1> DEFINE D == DayLength
           k == (t + 1) \div D
           m == (t + 1) % D
<1>1. D \in Nat \ {0} /\ o \in Nat /\ o < D
  BY EventsAssumption
<1>2. k \in Int /\ m \in 0 .. D - 1 /\ t + 1 = D * k + m
  BY <1>1
<1> HIDE DEF D, k, m
<1>3. ASSUME NEW j \in Int PROVE (D * j + o) % D = o
  <2> DEFINE n == D * j + o
  <2>1. D * j \in Int
    BY <1>1, <1>3
  <2>2. n \in Int
    BY <1>1, <2>1
  <2> DEFINE q == n \div D
             s == n % D
  <2>3. q \in Int /\ s \in 0 .. D - 1 /\ n = D * q + s
    BY <1>1, <2>2
  <2> HIDE DEF q, s
  <2>4. D * (j - q) = s - o
    BY <1>1, <1>3, <2>1, <2>3
  <2>5. ~(j - q >= 1)
    <3>1. SUFFICES ASSUME j - q >= 1 PROVE FALSE
      OBVIOUS
    <3>2. D * (j - q) >= D
      BY <1>1, <1>3, <2>3, <3>1
    <3>3. QED
      BY <1>1, <2>3, <2>4, <3>2
  <2>6. ~(j - q <= -1)
    <3>1. SUFFICES ASSUME j - q <= -1 PROVE FALSE
      OBVIOUS
    <3>2. D * (j - q) <= -D
      BY <1>1, <1>3, <2>3, <3>1
    <3>3. QED
      BY <1>1, <2>3, <2>4, <3>2
  <2>7. j = q
    BY <1>3, <2>3, <2>5, <2>6
  <2>8. s = o
    BY <1>1, <2>3, <2>4, <2>7
  <2>9. QED
    BY <2>8 DEF s
<1>4. \E n \in t + 1 .. t + D : n % D = o
  <2>1. CASE m <= o
    <3>1. D * k + o \in t + 1 .. t + D
      BY <1>1, <1>2, <2>1
    <3>2. QED
      BY <1>2, <1>3, <3>1
  <2>2. CASE m > o
    <3>1. D * (k + 1) + o = D * k + D + o
      BY <1>1, <1>2
    <3>2. D * (k + 1) + o \in t + 1 .. t + D
      BY <1>1, <1>2, <2>2, <3>1
    <3>3. QED
      BY <1>2, <1>3, <3>2
  <2>3. QED
    BY <1>1, <1>2, <2>1, <2>2
<1>5. QED
  BY <1>4 DEF DailyAfter, D

-----------------------------------------------------------------------------
(* Type correctness.                                                       *)

USE DEF table, processes, history

\* What a check claims is a list of scheduled events with their topics.
LEMMA ClaimsAreEvents ==
  ASSUME TypeOK, Ids, NEW q \in Claims
  PROVE  [i \in DOMAIN q |-> [event |-> q[i], topic |-> topicOf[q[i]]]]
           \in Seq([event: Event, topic: Topic])
<1> DEFINE ready == {e \in Event : Due(e)}
           count == IF Cardinality(ready) < Limit THEN Cardinality(ready) ELSE Limit
<1>1. count \in Nat
  <2>1. IsFiniteSet(ready)
    BY EventsAssumption, FS_Subset
  <2>2. QED
    BY <2>1, FS_CardinalityType, EventsAssumption
<1> HIDE DEF count
<1>2. PICK S \in SUBSET ready : q \in [1 .. count -> S]
  BY DEF Claims, count
<1>3. \A e \in ready : e \in Event /\ topicOf[e] \in Topic
  BY DEF Ids, Due
<1>4. QED
  BY <1>1, <1>2, <1>3

LEMMA TypeInit == Init => TypeOK
  BY EventsAssumption DEF Init, TypeOK, NoJob, NoEdit, Time

Columns == {"unused", "scheduled", "done", "canceled", "deleted"}
Places  == {"off", "claimed", "check", "reap", "create", "advance", "undo", "work"}
Job     == [topic: Topic \cup {None}, run: Run \cup {None}]
Claimed == [event: Event, topic: Topic]
Row     == [topic: Topic, process: Process \cup {None}, lost: BOOLEAN]

LEMMA DailyAfterTime ==
  ASSUME NEW o \in 0 .. DayLength - 1, NEW t \in 0 .. MaxTime
  PROVE  DailyAfter(o, t) \in Time
  BY DailyAfterIs, EventsAssumption DEF Time

LEMMA RescheduleType ==
  ASSUME TypeOK, NEW e \in Event, NEW p \in Process, Reschedule(e, fired[p])
  PROVE  status' \in [Event -> Columns] /\ next' \in [Event -> Time]
<1>1. offset[e] \in 0 .. DayLength - 1 /\ fired[p] \in 0 .. MaxTime
  BY DEF TypeOK
<1>2. DailyAfter(offset[e], fired[p]) \in Time
  BY <1>1, DailyAfterTime
<1>3. status \in [Event -> Columns] /\ next \in [Event -> Time]
  BY DEF TypeOK, Columns
<1>4. QED
  BY <1>2, <1>3 DEF Reschedule, Columns

LEMMA LookType ==
  ASSUME TypeOK, NEW p \in Process, NEW t \in Topic, Look(p, t)
  PROVE  job' \in [Process -> Job] /\ at' \in [Process -> Places]
<1>1. \A r \in RunningIn(t) : r \in Run
  BY DEF RunningIn
<1>2. job \in [Process -> Job] /\ at \in [Process -> Places]
  BY DEF TypeOK, Job, Places
<1>3. job' \in [Process -> Job]
  BY <1>1, <1>2 DEF Look, Job
<1>4. at' \in [Process -> Places]
  BY <1>2 DEF Look, Go, Places
<1>5. QED
  BY <1>3, <1>4

LEMMA TypeStep == TypeOK /\ Ids /\ Edits /\ Jobs /\ [Next]_vars => TypeOK'
<1> SUFFICES ASSUME TypeOK, Ids, Edits, Jobs, [Next]_vars PROVE TypeOK'
  OBVIOUS
<1> USE DEF Go
<1>t. /\ now \in 0 .. MaxTime
      /\ offset \in [Event -> 0 .. DayLength - 1] /\ next \in [Event -> Time]
      /\ last \in [Event -> Time]
  BY DEF TypeOK
<1>u. /\ at \in [Process -> Places] /\ job \in [Process -> Job]
      /\ due \in [Process -> Seq(Claimed)]
      /\ rows \in [Run -> Row \cup {None}] /\ worker \in [Run -> Process \cup {None}]
  BY DEF TypeOK, Places, Job, Claimed, Row
<1>a. 0 \in 0 .. DayLength - 1 /\ 0 \in Time /\ 0 \in 0 .. MaxTime
  BY EventsAssumption DEF Time
<1>b. \A o \in 0 .. DayLength - 1 : DailyAfter(o, now) \in Time
  BY <1>t, DailyAfterTime
<1>c. ASSUME NEW p \in Process, due[p] # <<>>
      PROVE  Head(due[p]) \in Claimed /\ Tail(due[p]) \in Seq(Claimed)
  BY <1>u, <1>c
<1>d. NoJob \in Job
  BY DEF NoJob, Job
<1>f. failures \in 0 .. MaxFailures /\ MaxFailures \in Nat
  BY EventsAssumption DEF TypeOK
<1>o. ASSUME NEW p \in Process, Orphan(p) PROVE rows' \in [Run -> Row \cup {None}]
  BY <1>o, <1>u DEF Orphan, Row
<1>1. CASE Tick
  <2>1. now' \in 0 .. MaxTime
    BY <1>1, <1>t, EventsAssumption DEF Tick
  <2>2. QED
    BY <1>1, <2>1 DEF Tick, TypeOK
<1>2. ASSUME NEW e \in Event, CreateEvent(e) PROVE TypeOK'
  <2>1. \A n \in now + 1 .. MaxTime : n \in Time
    BY <1>t, EventsAssumption DEF Time
  <2>2. next' \in [Event -> Time] /\ offset' \in [Event -> 0 .. DayLength - 1]
    BY <1>2, <1>b, <1>t, <2>1 DEF CreateEvent
  <2>3. kind' \in [Event -> {"once", "daily", None}]
    BY <1>2 DEF CreateEvent, TypeOK
  <2>4. /\ status' \in [Event -> {"unused", "scheduled", "done", "canceled", "deleted"}]
        /\ topicOf' \in [Event -> Topic \cup {None}]
    BY <1>2 DEF CreateEvent, TypeOK
  <2>5. QED
    BY <1>2, <2>2, <2>3, <2>4 DEF CreateEvent, TypeOK
<1>3. ASSUME NEW e \in Event, CancelEvent(e) PROVE TypeOK'
  BY <1>3 DEF CancelEvent, TypeOK
<1>4. ASSUME NEW e \in Event, NEW t \in Topic, MoveEvent(e, t) PROVE TypeOK'
  BY <1>4 DEF MoveEvent, TypeOK
<1>5. ASSUME NEW e \in Event, ReadForUpdate(e) PROVE TypeOK'
  <2>1. edit' \in [event: Event \cup {None}, offset: 0 .. DayLength - 1, next: Time]
    BY <1>5, <1>b, <1>t DEF ReadForUpdate
  <2>2. QED
    BY <1>5, <2>1 DEF ReadForUpdate, TypeOK
<1>6. CASE WriteUpdate
  <2>1. edit.offset \in 0 .. DayLength - 1 /\ edit.next \in Time
    BY DEF TypeOK
  <2>2. /\ offset' \in [Event -> 0 .. DayLength - 1] /\ next' \in [Event -> Time]
    BY <1>6, <1>t, <2>1 DEF WriteUpdate
  <2>3. rezoned' \subseteq Event
    BY <1>6 DEF WriteUpdate, TypeOK, Edits
  <2>4. edit' \in [event: Event \cup {None}, offset: 0 .. DayLength - 1, next: Time]
    BY <1>6, <1>a DEF WriteUpdate, NoEdit
  <2>5. QED
    BY <1>6, <2>2, <2>3, <2>4 DEF WriteUpdate, TypeOK
<1>7. ASSUME NEW t \in Topic, DeleteTopic(t) PROVE TypeOK'
  <2>1. offset' \in [Event -> 0 .. DayLength - 1] /\ next' \in [Event -> Time]
    BY <1>7, <1>a, <1>t DEF DeleteTopic
  <2>2. rows' \in [Run -> Row \cup {None}]
    BY <1>7, <1>u DEF DeleteTopic
  <2>3. /\ status' \in [Event -> {"unused", "scheduled", "done", "canceled", "deleted"}]
        /\ topicOf' \in [Event -> Topic \cup {None}]
    BY <1>7 DEF DeleteTopic, TypeOK
  <2>4. QED
    BY <1>7, <2>1, <2>2, <2>3 DEF DeleteTopic, TypeOK, Row
<1>8. ASSUME NEW p \in Process, Claim(p) PROVE TypeOK'
  <2>1. due' \in [Process -> Seq(Claimed)]
    BY <1>8, <1>u, ClaimsAreEvents DEF Claim, Claimed
  <2>2. fired' \in [Process -> 0 .. MaxTime] /\ at' \in [Process -> Places]
    <3>1. fired \in [Process -> 0 .. MaxTime]
      BY DEF TypeOK
    <3>2. QED
      BY <1>8, <1>t, <1>u, <3>1 DEF Claim, Places
  <2>3. QED
    BY <1>8, <2>1, <2>2 DEF Claim, TypeOK, Claimed, Places
<1>9. ASSUME NEW p \in Process, ReadActive(p) PROVE TypeOK'
  BY <1>9 DEF ReadActive, TypeOK
<1>10. ASSUME NEW p \in Process, Skip(p) PROVE TypeOK'
  <2>1. due' \in [Process -> Seq(Claimed)]
    BY <1>10, <1>c, <1>u DEF Skip, Drop
  <2>2. QED
    BY <1>10, <2>1 DEF Skip, TypeOK, Claimed
<1>11. ASSUME NEW p \in Process, Take(p) PROVE TypeOK'
  <2>1. Head(due[p]).topic \in Topic
    BY <1>11, <1>c DEF Take, Claimed
  <2>2. job' \in [Process -> Job] /\ at' \in [Process -> Places]
    BY <1>11, <2>1, LookType DEF Take
  <2>3. QED
    BY <1>11, <2>2 DEF Take, TypeOK, Job, Places
<1>12. ASSUME NEW p \in Process, NEW t \in Topic, Send(p, t) PROVE TypeOK'
  <2>1. job' \in [Process -> Job] /\ at' \in [Process -> Places]
    BY <1>12, LookType DEF Send
  <2>2. QED
    BY <1>12, <2>1 DEF Send, TypeOK, Job, Places
<1>13. ASSUME NEW p \in Process, Reap(p) PROVE TypeOK'
  <2>1. rows' \in [Run -> Row \cup {None}]
    BY <1>13, <1>u DEF Reap, Delete
  <2>2. job' \in [Process -> Job] /\ at' \in [Process -> Places]
    BY <1>13, <1>u DEF Reap, Job, Places
  <2>3. QED
    BY <1>13, <2>1, <2>2 DEF Reap, TypeOK, Row, Job, Places
<1>14. ASSUME NEW p \in Process, Create(p) PROVE TypeOK'
  <2>1. job[p].topic \in Topic
    BY <1>14 DEF Create, Jobs, JobOf
  <2>2. PICK r \in Run :
          /\ \E lost \in BOOLEAN : rows' = [rows EXCEPT ![r] = NewRow(p, lost)]
          /\ worker' = [worker EXCEPT ![r] = p] \/ worker' = worker
          /\ job' = [job EXCEPT ![p] = NoJob] \/ job' = [job EXCEPT ![p].run = r]
          /\ at' = [at EXCEPT ![p] = "work"] \/ at' = [at EXCEPT ![p] = "advance"]
          /\ failures' = failures \/ (failures < MaxFailures /\ failures' = failures + 1)
    BY <1>14 DEF Create
  <2>3. rows' \in [Run -> Row \cup {None}]
    <3>1. \A lost \in BOOLEAN : NewRow(p, lost) \in Row
      BY <2>1 DEF NewRow, Row
    <3>2. QED
      BY <1>u, <2>2, <3>1
  <2>8. failures' \in 0 .. MaxFailures
    BY <1>f, <2>2
  <2>4. worker' \in [Run -> Process \cup {None}]
    BY <1>u, <2>2
  <2>5. job' \in [Process -> Job]
    <3>1. CASE job' = [job EXCEPT ![p] = NoJob]
      BY <1>u, <1>d, <3>1
    <3>2. CASE job' = [job EXCEPT ![p].run = r]
      BY <1>u, <3>2 DEF Job
    <3>3. QED
      BY <2>2, <3>1, <3>2
  <2>6. at' \in [Process -> Places]
    BY <1>u, <2>2 DEF Places
  <2>7. QED
    BY <1>14, <2>3, <2>4, <2>5, <2>6, <2>8 DEF Create, TypeOK, Row, Job, Places
<1>15. ASSUME NEW p \in Process, Advance(p) PROVE TypeOK'
  <2>1. due[p] # <<>> /\ job[p].topic \in Topic /\ job[p].run \in Run
    BY <1>15 DEF Advance, Jobs, JobOf
  <2>2. Head(due[p]).event \in Event
    BY <2>1, <1>c DEF Claimed
  <2>3. status' \in [Event -> Columns] /\ next' \in [Event -> Time]
    BY <1>15, <2>2, RescheduleType DEF Advance
  <2>4. due' \in [Process -> Seq(Claimed)]
    BY <1>15, <2>1, <1>c, <1>u DEF Advance, Drop
  <2>5. last' \in [Event -> Time]
    BY <1>15, <2>2, <1>t DEF Advance
  <2>6. again' \subseteq Event
    BY <1>15, <2>2 DEF Advance, TypeOK
  <2>7. active' \in [Process -> SUBSET Topic]
    BY <1>15, <2>1 DEF Advance, TypeOK
  <2>8. /\ worker' \in [Run -> Process \cup {None}] /\ job' \in [Process -> Job]
        /\ rows' \in [Run -> Row \cup {None}] /\ failures' \in 0 .. MaxFailures
    <3>1. job' \in [Process -> Job] /\ StartLoop(p, job[p].run)
      BY <1>15, <1>d, <1>u DEF Advance
    <3>2. worker' \in [Run -> Process \cup {None}] /\ rows' \in [Run -> Row \cup {None}]
      BY <1>u, <2>1, <3>1 DEF StartLoop, Row
    <3>3. failures' \in 0 .. MaxFailures
      BY <1>f, <3>1 DEF StartLoop
    <3>4. QED
      BY <3>1, <3>2, <3>3
  <2>9. at' \in [Process -> Places]
    BY <1>15, <1>u DEF Advance, Places
  <2>10. QED
    BY <1>15, <2>3, <2>4, <2>5, <2>6, <2>7, <2>8, <2>9
    DEF Advance, TypeOK, Columns, Claimed, Job, Row, Places
<1>16. ASSUME NEW p \in Process, Refuse(p) PROVE TypeOK'
  BY <1>16 DEF Refuse, TypeOK
<1>17. ASSUME NEW p \in Process, Undo(p) PROVE TypeOK'
  <2>1. due[p] # <<>>
    BY <1>17 DEF Undo, Jobs, JobOf
  <2>2. due' \in [Process -> Seq(Claimed)]
    BY <1>17, <2>1, <1>c, <1>u DEF Undo, Drop
  <2>3. job' \in [Process -> Job] /\ rows' \in [Run -> Row \cup {None}]
    BY <1>17, <1>d, <1>u DEF Undo, Delete
  <2>4. at' \in [Process -> Places]
    BY <1>17, <1>u DEF Undo, Places
  <2>5. QED
    BY <1>17, <2>2, <2>3, <2>4 DEF Undo, TypeOK, Claimed, Job, Row, Places
<1>18. ASSUME NEW p \in Process, Settle(p) PROVE TypeOK'
  <2>1. fired' \in [Process -> 0 .. MaxTime] /\ active' \in [Process -> SUBSET Topic]
    BY <1>18, <1>a DEF Settle, TypeOK
  <2>2. at' \in [Process -> Places]
    BY <1>18, <1>u DEF Settle, Places
  <2>3. QED
    BY <1>18, <2>1, <2>2 DEF Settle, TypeOK, Places
<1>19. ASSUME NEW p \in Process, Exit(p) PROVE TypeOK'
  <2>1. rows' \in [Run -> Row \cup {None}] /\ at' \in [Process -> Places]
    BY <1>19, <1>o, <1>u DEF Exit, Go, Places
  <2>2. QED
    BY <1>19, <2>1 DEF Exit, TypeOK, Row, Places
<1>20. ASSUME NEW p \in Process, Die(p) PROVE TypeOK'
  <2>1. rows' \in [Run -> Row \cup {None}] /\ worker' \in [Run -> Process \cup {None}]
    BY <1>20, <1>o, <1>u DEF Die
  <2>2. failures' \in 0 .. MaxFailures
    <3>1. failures \in 0 .. MaxFailures
      BY DEF TypeOK
    <3>2. QED
      BY <1>20, <3>1, EventsAssumption DEF Die
  <2>3. due' \in [Process -> Seq(Claimed)] /\ job' \in [Process -> Job]
    BY <1>20, <1>d, <1>u DEF Die
  <2>4. fired' \in [Process -> 0 .. MaxTime] /\ active' \in [Process -> SUBSET Topic]
    BY <1>20, <1>a DEF Die, TypeOK
  <2>5. at' \in [Process -> Places]
    BY <1>20, <1>u DEF Die, Places
  <2>6. QED
    BY <1>20, <2>1, <2>2, <2>3, <2>4, <2>5 DEF Die, TypeOK, Claimed, Job, Row, Places
<1>21. ASSUME NEW r \in Run, EndLoop(r) PROVE TypeOK'
  <2>1. rows' \in [Run -> Row \cup {None}] /\ worker' \in [Run -> Process \cup {None}]
    BY <1>21, <1>u DEF EndLoop, Delete, Row
  <2>2. failures' \in 0 .. MaxFailures
    BY <1>21, <1>f DEF EndLoop
  <2>3. QED
    BY <1>21, <2>1, <2>2 DEF EndLoop, TypeOK, Row
<1>22. CASE UNCHANGED vars
  BY <1>22 DEF vars, TypeOK
<1>23. ASSUME NEW p \in Process, CheckStep(p) PROVE TypeOK'
  BY ONLY <1>23, <1>9, <1>10, <1>11, <1>13, <1>14, <1>15, <1>16, <1>17, <1>18 DEF CheckStep
<1>24. CASE User
  BY ONLY <1>24, <1>2, <1>3, <1>4, <1>5, <1>6, <1>7 DEF User
<1>25. QED
  BY ONLY [Next]_vars, <1>1, <1>8, <1>12, <1>19, <1>20, <1>21, <1>22, <1>23, <1>24 DEF Next

-----------------------------------------------------------------------------
(* The events table.                                                       *)

LEMMA SchedulesInit == Init => Schedules
  BY DEF Init, Schedules, Ids, Edits, Clock, Later, OncePerOccurrence, OnSchedule, NoEdit

\* Most steps of a check leave the events alone.
LEMMA SchedulesKept ==
  ASSUME Schedules, UNCHANGED <<now, table, fired, edit, history>>
  PROVE  Schedules'
  BY DEF Schedules, Ids, Edits, Clock, Later, OncePerOccurrence, OnSchedule

LEMMA SchedulesTimed ==
  ASSUME TypeOK, Schedules, NEW p \in Process,
         fired' = [fired EXCEPT ![p] = 0] \/ fired' = [fired EXCEPT ![p] = now],
         UNCHANGED <<now, table, edit, history>>
  PROVE  Schedules'
<1>1. now \in Nat /\ \A q \in Process : fired'[q] = fired[q] \/ fired'[q] = 0 \/ fired'[q] = now
  <2>1. fired \in [Process -> 0 .. MaxTime] /\ now \in 0 .. MaxTime
    BY DEF TypeOK
  <2>2. QED
    BY <2>1, EventsAssumption
<1>2. Clock'
  BY <1>1 DEF Schedules, Clock
<1>3. QED
  BY <1>2 DEF Schedules, Ids, Edits, Later, OncePerOccurrence, OnSchedule

LEMMA TickSchedules == ASSUME TypeOK, Schedules, Tick PROVE Schedules'
<1>1. now \in Int /\ now' = now + 1 /\ DayLength \in Int
  BY EventsAssumption DEF TypeOK, Tick
<1>2. \A e \in Event : next[e] \in Int
  BY EventsAssumption DEF TypeOK, Time
<1>3. \A p \in Process : fired[p] \in Int
  BY EventsAssumption DEF TypeOK
<1>4. edit.next \in Int
  BY EventsAssumption DEF TypeOK, Time
<1>5. Ids' /\ Later' /\ OncePerOccurrence'
  BY DEF Tick, Schedules, Ids, Later, OncePerOccurrence
<1>6. Clock'
  BY <1>1, <1>3 DEF Tick, Schedules, Clock
<1>7. Edits'
  BY <1>1, <1>4 DEF Tick, Schedules, Edits
<1>8. OnSchedule'
  BY <1>1, <1>2 DEF Tick, Schedules, OnSchedule
<1>9. QED
  BY <1>5, <1>6, <1>7, <1>8 DEF Schedules

\* What is computed for a daily event is at its hour and within a day.
LEMMA DailyAfterNow ==
  ASSUME TypeOK, NEW o \in 0 .. DayLength - 1
  PROVE  /\ DailyAfter(o, now) % DayLength = o
         /\ DailyAfter(o, now) <= now + DayLength
         /\ DailyAfter(o, now) > 0
<1>1. now \in Nat
  BY EventsAssumption DEF TypeOK
<1>2. QED
  BY <1>1, DailyAfterIs, EventsAssumption

LEMMA CreateEventSchedules ==
  ASSUME TypeOK, Schedules, NEW e \in Event, CreateEvent(e)
  PROVE  Schedules'
<1>1. /\ status[e] = "unused" /\ status' = [status EXCEPT ![e] = "scheduled"]
      /\ UNCHANGED <<now, fired, edit, last, again, rezoned>>
  BY DEF CreateEvent, processes, history
<1>2. last[e] = 0 /\ e \notin again /\ (edit # NoEdit => edit.event # e)
  BY <1>1 DEF Schedules, Ids, Edits
<1>3. /\ status \in [Event -> {"unused", "scheduled", "done", "canceled", "deleted"}]
      /\ topicOf \in [Event -> Topic \cup {None}] /\ kind \in [Event -> {"once", "daily", None}]
      /\ offset \in [Event -> 0 .. DayLength - 1] /\ next \in [Event -> Time]
  BY DEF TypeOK
<1>4. \A f \in Event \ {e} :
        /\ status'[f] = status[f] /\ topicOf'[f] = topicOf[f] /\ kind'[f] = kind[f]
        /\ offset'[f] = offset[f] /\ next'[f] = next[f]
  BY <1>3 DEF CreateEvent
<1>5. /\ status'[e] = "scheduled" /\ topicOf'[e] \in Topic /\ kind'[e] \in {"once", "daily"}
      /\ next'[e] > 0
      /\ kind'[e] = "daily" => next'[e] % DayLength = offset'[e] /\ next'[e] <= now + DayLength
  <2>1. status'[e] = "scheduled" /\ topicOf'[e] \in Topic
    BY <1>3 DEF CreateEvent
  <2>2. CASE kind' = [kind EXCEPT ![e] = "daily"]
    <3>1. PICK o \in 0 .. DayLength - 1 :
            offset' = [offset EXCEPT ![e] = o] /\ next' = [next EXCEPT ![e] = DailyAfter(o, now)]
      <4>1. "daily" # "once"
        OBVIOUS
      <4>2. kind'[e] = "daily"
        BY <1>3, <2>2
      <4>3. ~(kind' = [kind EXCEPT ![e] = "once"])
        BY <1>3, <4>1, <4>2
      <4>4. QED
        BY <4>3 DEF CreateEvent
    <3>2. QED
      BY <1>3, <2>1, <2>2, <3>1, DailyAfterNow
  <2>3. CASE kind' = [kind EXCEPT ![e] = "once"] /\ \E n \in now + 1 .. MaxTime : next' = [next EXCEPT ![e] = n]
    <3>1. now \in Nat
      BY EventsAssumption DEF TypeOK
    <3>2. QED
      BY <1>3, <2>1, <2>3, <3>1
  <2>4. QED
    BY <2>2, <2>3 DEF CreateEvent
<1>6. Ids'
  BY <1>1, <1>4, <1>5 DEF Schedules, Ids
<1>7. Edits'
  BY <1>1, <1>2, <1>4 DEF Schedules, Edits
<1>8. Clock' /\ OncePerOccurrence'
  BY <1>1, <1>2, <1>4, <1>5 DEF Schedules, Clock, OncePerOccurrence, TypeOK
<1>9. Later'
  BY <1>1, <1>2, <1>4, <1>5 DEF Schedules, Later
<1>10. OnSchedule'
  BY <1>1, <1>4, <1>5 DEF Schedules, OnSchedule
<1>11. QED
  BY <1>6, <1>7, <1>8, <1>9, <1>10 DEF Schedules

LEMMA UpdateSchedules ==
  ASSUME TypeOK, Schedules, NEW e \in Event, ReadForUpdate(e)
  PROVE  Schedules'
<1>1. UNCHANGED <<now, table, fired, history>>
  BY DEF ReadForUpdate, processes
<1>2. Ids' /\ Clock' /\ Later' /\ OncePerOccurrence' /\ OnSchedule'
  BY <1>1 DEF Schedules, Ids, Clock, Later, OncePerOccurrence, OnSchedule, table, history
<1>3. status[e] = "scheduled"
  BY DEF ReadForUpdate
<1>4. Edits'
  <2>1. ASSUME NEW o \in 0 .. DayLength - 1, kind[e] = "daily",
               edit' = [event |-> e, offset |-> o, next |-> DailyAfter(o, now)]
        PROVE  Edits'
    BY <1>1, <1>3, <2>1, DailyAfterNow DEF Edits
  <2>2. CASE kind[e] = "once" /\ edit' = [event |-> e, offset |-> offset[e], next |-> next[e]]
    BY <1>1, <1>3, <2>2 DEF Edits
  <2>3. QED
    BY <2>1, <2>2 DEF ReadForUpdate
<1>5. QED
  BY <1>2, <1>4 DEF Schedules

LEMMA WriteSchedules == ASSUME TypeOK, Schedules, WriteUpdate PROVE Schedules'
<1> DEFINE e == edit.event
<1>1. /\ edit # NoEdit /\ e \in Event /\ edit' = NoEdit
      /\ UNCHANGED <<now, status, topicOf, kind, fired, last, again>>
  BY DEF WriteUpdate, Schedules, Edits, processes
<1>2. Ids' /\ Edits' /\ Clock'
  BY <1>1 DEF Schedules, Ids, Edits, Clock
<1>3. CASE status[e] = "scheduled"
  <2>1. /\ offset \in [Event -> 0 .. DayLength - 1] /\ next \in [Event -> Time]
    BY DEF TypeOK
  <2>2. /\ offset' = [offset EXCEPT ![e] = edit.offset] /\ next' = [next EXCEPT ![e] = edit.next]
        /\ rezoned' = rezoned \cup {e}
    BY <1>3 DEF WriteUpdate
  <2>3. kind[e] = "daily" \/ (kind[e] = "once" /\ edit.next = next[e])
    BY <1>1, <1>3 DEF Schedules, Ids, Edits
  <2>4. Later'
    BY <1>1, <2>1, <2>2, <2>3 DEF Schedules, Later
  <2>5. OncePerOccurrence'
    BY <1>1, <2>2 DEF Schedules, OncePerOccurrence
  <2>6. OnSchedule'
    BY <1>1, <2>1, <2>2, <2>3 DEF Schedules, OnSchedule, Edits
  <2>7. QED
    BY <1>2, <2>4, <2>5, <2>6 DEF Schedules
<1>4. CASE status[e] # "scheduled"
  <2>1. UNCHANGED <<offset, next, rezoned>>
    BY <1>4 DEF WriteUpdate
  <2>2. QED
    BY <1>1, <1>2, <2>1 DEF Schedules, Later, OncePerOccurrence, OnSchedule
<1>5. QED
  BY <1>3, <1>4

LEMMA EndSchedules ==
  ASSUME TypeOK, Schedules,
         \/ \E e \in Event : CancelEvent(e)
         \/ \E e \in Event, t \in Topic : MoveEvent(e, t)
         \/ \E t \in Topic : DeleteTopic(t)
  PROVE  Schedules'
<1>1. /\ UNCHANGED <<now, kind, fired, edit, last, again, rezoned>>
      /\ \A e \in Event :
           /\ status'[e] = "unused" <=> status[e] = "unused"
           /\ status'[e] = "scheduled" =>
                /\ status[e] = "scheduled" /\ offset'[e] = offset[e] /\ next'[e] = next[e]
                /\ topicOf[e] \in Topic => topicOf'[e] \in Topic
  <2>1. ASSUME NEW e \in Event, CancelEvent(e) PROVE <1>1!1 /\ <1>1!2
    BY <2>1 DEF CancelEvent, TypeOK, processes, history
  <2>2. ASSUME NEW e \in Event, NEW t \in Topic, MoveEvent(e, t) PROVE <1>1!1 /\ <1>1!2
    BY <2>2 DEF MoveEvent, TypeOK, processes, history
  <2>3. ASSUME NEW t \in Topic, DeleteTopic(t) PROVE <1>1!1 /\ <1>1!2
    BY <2>3 DEF DeleteTopic, TypeOK, processes, history
  <2>4. QED
    BY <2>1, <2>2, <2>3
<1>2. Ids' /\ Clock' /\ OncePerOccurrence'
  BY <1>1 DEF Schedules, Ids, Clock, OncePerOccurrence
<1>3. Edits'
  BY <1>1 DEF Schedules, Edits
<1>4. Later' /\ OnSchedule'
  BY <1>1 DEF Schedules, Later, OnSchedule
<1>5. QED
  BY <1>2, <1>3, <1>4 DEF Schedules

LEMMA AdvanceSchedules ==
  ASSUME TypeOK, Schedules, Jobs, NEW p \in Process, Advance(p)
  PROVE  Schedules'
<1> DEFINE e == Head(due[p]).event
<1>1. e \in Event
  <2>1. due[p] # <<>> /\ due[p] \in Seq(Claimed)
    BY DEF Advance, Jobs, JobOf, TypeOK, Claimed
  <2>2. Head(due[p]) \in Claimed
    BY <2>1
  <2>3. QED
    BY <2>2 DEF Claimed
<1>2. /\ status[e] = "scheduled" /\ next[e] <= fired[p] /\ Reschedule(e, fired[p])
      /\ last' = [last EXCEPT ![e] = next[e]]
      /\ again' = IF next[e] <= last[e] THEN again \cup {e} ELSE again
      /\ UNCHANGED <<now, topicOf, kind, offset, fired, edit, rezoned>>
  BY DEF Advance
<1> HIDE DEF e
<1>3. /\ status \in [Event -> {"unused", "scheduled", "done", "canceled", "deleted"}]
      /\ next \in [Event -> Time] /\ last \in [Event -> Time] /\ offset[e] \in 0 .. DayLength - 1
  BY <1>1 DEF TypeOK
<1>4. fired[p] \in Nat /\ now \in Nat /\ next[e] \in Nat /\ last[e] \in Nat /\ fired[p] <= now
  <2>1. fired[p] \in 0 .. MaxTime /\ now \in 0 .. MaxTime
    BY DEF TypeOK
  <2>2. QED
    BY <1>1, <1>3, <2>1, EventsAssumption DEF Schedules, Clock, Time
<1>5. \A f \in Event \ {e} : status'[f] = status[f] /\ next'[f] = next[f] /\ last'[f] = last[f]
  BY <1>1, <1>2, <1>3 DEF Reschedule
<1>6. /\ last'[e] = next[e]
      /\ kind[e] = "once" => status'[e] = "done" /\ next'[e] = next[e]
      /\ kind[e] = "daily" => status'[e] = "scheduled" /\ next'[e] = DailyAfter(offset[e], fired[p])
  BY <1>1, <1>2, <1>3 DEF Reschedule
<1>7. LET n == DailyAfter(offset[e], fired[p])
      IN  n > next[e] /\ n <= now + DayLength /\ n % DayLength = offset[e]
  <2>1. /\ DailyAfter(offset[e], fired[p]) \in fired[p] + 1 .. fired[p] + DayLength
        /\ DailyAfter(offset[e], fired[p]) % DayLength = offset[e]
    BY <1>3, <1>4, DailyAfterIs
  <2>2. QED
    BY <1>2, <1>4, <2>1, EventsAssumption
<1>8. kind[e] \in {"once", "daily"}
  BY <1>1, <1>2 DEF Schedules, Ids
<1>9. Ids'
  BY <1>1, <1>2, <1>5, <1>6, <1>8 DEF Schedules, Ids
<1>10. Edits'
  BY <1>1, <1>2, <1>5, <1>6, <1>8 DEF Schedules, Edits
<1>11. Clock'
  BY <1>2 DEF Schedules, Clock
<1>12. Later'
  BY <1>1, <1>2, <1>5, <1>6, <1>7, <1>8 DEF Schedules, Later
<1>13. OncePerOccurrence'
  <2>1. next[e] <= last[e] => e \in rezoned /\ kind[e] = "daily"
    BY <1>1, <1>2, <1>4 DEF Schedules, Later
  <2>2. QED
    BY <1>2, <2>1 DEF Schedules, OncePerOccurrence
<1>14. OnSchedule'
  BY <1>1, <1>2, <1>5, <1>6, <1>7, <1>8 DEF Schedules, OnSchedule
<1>15. QED
  BY <1>9, <1>10, <1>11, <1>12, <1>13, <1>14 DEF Schedules

LEMMA SchedulesStep == TypeOK /\ Schedules /\ Jobs /\ [Next]_vars => Schedules'
<1> SUFFICES ASSUME TypeOK, Schedules, Jobs, [Next]_vars PROVE Schedules'
  OBVIOUS
<1>2. ASSUME NEW p \in Process, Claim(p) \/ Settle(p) \/ Die(p) PROVE Schedules'
  BY <1>2, SchedulesTimed DEF Claim, Settle, Die
<1>3. CASE User
  BY <1>3, CreateEventSchedules, UpdateSchedules, WriteSchedules, EndSchedules DEF User
<1>4. ASSUME NEW p \in Process, Advance(p) PROVE Schedules'
  BY <1>4, AdvanceSchedules
<1>5. ASSUME NEW p \in Process,
             ReadActive(p) \/ Skip(p) \/ Take(p) \/ Reap(p) \/ Create(p) \/ Refuse(p) \/ Undo(p) \/ Exit(p)
      PROVE  Schedules'
  <2>1. UNCHANGED <<now, table, fired, edit, history>>
    BY <1>5 DEF ReadActive, Skip, Take, Reap, Create, Refuse, Undo, Exit
  <2>2. QED
    BY <2>1, SchedulesKept
<1>6. ASSUME NEW p \in Process, NEW t \in Topic, Send(p, t) PROVE Schedules'
  BY <1>6, SchedulesKept DEF Send
<1>7. ASSUME NEW r \in Run, EndLoop(r) PROVE Schedules'
  BY <1>7, SchedulesKept DEF EndLoop
<1>8. CASE UNCHANGED vars
  BY <1>8, SchedulesKept DEF vars
<1>9. QED
  BY ONLY [Next]_vars, TypeOK, Schedules, TickSchedules, <1>2, <1>3, <1>4, <1>5, <1>6, <1>7, <1>8
  DEF Next, CheckStep

-----------------------------------------------------------------------------
(* The processes and the rows they have inserted.                          *)

LEMMA WorkInit == Init => Work
  BY DEF Init, Work, Jobs, JobOf, RowsAreWorkedOn

LEMMA WorkKept ==
  ASSUME Work, UNCHANGED <<at, due, job, rows, worker>>
  PROVE  Work'
  BY DEF Work, Jobs, JobOf, RowsAreWorkedOn, Living

LEMMA NoneIsNothing == None \notin Process /\ None \notin Run
  BY EventsAssumption

\* Rows may go, or lose the loop that cannot write how it ended, at any time.
LEMMA RowsGo ==
  ASSUME Work, UNCHANGED <<at, due, job>>,
         \A r \in Run :
           \/ rows'[r] = None
           \/ rows'[r] = rows[r] /\ worker'[r] = worker[r]
           \/ rows[r] # None /\ rows'[r].process = rows[r].process /\ rows'[r].lost
  PROVE  Work'
<1>1. Jobs'
  <2>1. SUFFICES ASSUME NEW p \in Process PROVE JobOf(p)'
    BY DEF Jobs, JobOf
  <2>2. JobOf(p)
    BY DEF Work, Jobs
  <2>3. QED
    BY <2>2 DEF JobOf
<1>2. RowsAreWorkedOn'
  BY DEF Work, RowsAreWorkedOn, Living
<1>3. QED
  BY <1>1, <1>2 DEF Work

\* A step of p leaves the other processes as they are, and the rows that they
\* have in hand, or takes these away.
LEMMA StepOf ==
  ASSUME TypeOK, Jobs, NEW p \in Process,
         \A q \in Process \ {p} : at'[q] = at[q] /\ due'[q] = due[q] /\ job'[q] = job[q],
         \A q \in Process \ {p} : LET r == job[q].run IN
           r \in Run => \/ rows'[r] = rows[r] \/ rows'[r] = None
                        \/ rows[r] # None /\ rows[r].process # q,
         JobOf(p)'
  PROVE  Jobs'
<1>1. \A q \in Process \ {p} : JobOf(q)
  BY DEF Jobs, JobOf
<1>2. ASSUME NEW q \in Process \ {p} PROVE JobOf(q)'
  <2>1. ASSUME at[q] \in {"advance", "undo"}
        PROVE  rows'[job[q].run] = None \/ rows'[job[q].run].process = q
    BY <1>1, <2>1 DEF JobOf
  <2>2. QED
    BY <1>1, <2>1 DEF JobOf
<1>3. QED
  BY <1>2 DEF Jobs, JobOf

\* The same for RowsAreWorkedOn: a row that was worked on by a process other than
\* p still is, and p sees to its own.
LEMMA RowsOf ==
  ASSUME RowsAreWorkedOn, rows \in [Run -> Row \cup {None}], NEW p \in Process,
         \A q \in Process \ {p} : job'[q] = job[q],
         \A r \in Run : rows'[r] # None /\ rows'[r].process # None =>
           \/ worker'[r] = rows'[r].process
           \/ rows'[r].process = p /\ job'[p].run = r
           \/ rows'[r].lost
           \/ /\ rows'[r] = rows[r]
              /\ worker[r] = rows[r].process => worker'[r] = worker[r]
              /\ rows[r].process = p => job[p].run # r
  PROVE  RowsAreWorkedOn'
<1> SUFFICES ASSUME NEW r \in Run, rows'[r] # None, rows'[r].process # None, ~rows'[r].lost
             PROVE  worker'[r] = rows'[r].process \/ job'[rows'[r].process].run = r
  BY DEF RowsAreWorkedOn, Living
<1> DEFINE q == rows[r].process
<1>1. CASE rows'[r] = rows[r] /\ (worker[r] = q => worker'[r] = q) /\ (q = p => job[p].run # r)
  <2>1. rows[r] \in Row
    BY <1>1
  <2>2. q \in Process
    BY <1>1, <2>1 DEF Row
  <2>3. worker[r] = q \/ job[q].run = r
    BY <1>1 DEF RowsAreWorkedOn, Living
  <2>4. CASE job[q].run = r
    BY <1>1, <2>2, <2>4
  <2>5. QED
    BY <1>1, <2>3, <2>4
<1>2. QED
  BY <1>1

LEMMA WorkStep == TypeOK /\ Ids /\ Edits /\ Work /\ [Next]_vars => Work'
<1> SUFFICES ASSUME TypeOK, Ids, Edits, Work, [Next]_vars PROVE Work'
  OBVIOUS
<1> USE NoneIsNothing
<1>t. /\ at \in [Process -> Places] /\ job \in [Process -> Job]
      /\ due \in [Process -> Seq(Claimed)]
      /\ rows \in [Run -> Row \cup {None}] /\ worker \in [Run -> Process \cup {None}]
  BY DEF TypeOK, Places, Job, Claimed, Row
<1>j. Jobs /\ RowsAreWorkedOn
  BY DEF Work
<1>1. CASE Tick \/ WriteUpdate \/ UNCHANGED vars
  BY <1>1, WorkKept DEF Tick, WriteUpdate, vars
<1>2. ASSUME NEW e \in Event, CreateEvent(e) \/ CancelEvent(e) \/ ReadForUpdate(e) PROVE Work'
  BY <1>2, WorkKept DEF CreateEvent, CancelEvent, ReadForUpdate
<1>3. ASSUME NEW e \in Event, NEW t \in Topic, MoveEvent(e, t) PROVE Work'
  BY <1>3, WorkKept DEF MoveEvent
<1>4. ASSUME NEW t \in Topic, DeleteTopic(t) PROVE Work'
  BY <1>4, RowsGo DEF DeleteTopic
<1>5. ASSUME NEW r \in Run, EndLoop(r) PROVE Work'
  <2>1. \A s \in Run :
          \/ rows'[s] = None
          \/ rows'[s] = rows[s] /\ worker'[s] = worker[s]
          \/ rows[s] # None /\ rows'[s].process = rows[s].process /\ rows'[s].lost
    BY <1>5, <1>t DEF EndLoop, Delete, Row
  <2>2. QED
    BY <1>5, <2>1, RowsGo DEF EndLoop
\* Steps that leave the rows, the workers and what the process has in hand.
<1>6. ASSUME NEW p \in Process, Claim(p) \/ ReadActive(p) \/ Skip(p) \/ Refuse(p) \/ Settle(p)
      PROVE  Work'
  <2>1. UNCHANGED <<job, rows, worker>>
    BY <1>6 DEF Claim, ReadActive, Skip, Refuse, Settle
  <2>2. \A q \in Process \ {p} : at'[q] = at[q] /\ due'[q] = due[q]
    BY <1>6, <1>t DEF Claim, ReadActive, Skip, Refuse, Settle, Drop, Go
  <2>3. JobOf(p)'
    <3>1. CASE Claim(p)
      BY <3>1, <1>t, <1>j, <2>1 DEF Claim, Go, Jobs, JobOf
    <3>2. CASE ReadActive(p)
      BY <3>2, <1>t, <1>j, <2>1 DEF ReadActive, Go, Jobs, JobOf
    <3>3. CASE Skip(p)
      BY <3>3, <1>t, <1>j, <2>1 DEF Skip, Drop, Jobs, JobOf
    <3>4. CASE Refuse(p)
      BY <3>4, <1>t, <1>j, <2>1 DEF Refuse, Go, Jobs, JobOf
    <3>5. CASE Settle(p)
      BY <3>5, <1>t, <1>j, <2>1 DEF Settle, Go, Jobs, JobOf
    <3>6. QED
      BY <1>6, <3>1, <3>2, <3>3, <3>4, <3>5
  <2>4. Jobs'
    BY <1>j, <2>1, <2>2, <2>3, StepOf
  <2>5. RowsAreWorkedOn'
    BY <1>j, <2>1 DEF RowsAreWorkedOn, Living
  <2>6. QED
    BY <2>4, <2>5 DEF Work
<1>7. ASSUME NEW p \in Process, NEW t \in Topic, Look(p, t), at[p] \in {"off", "check"},
             UNCHANGED <<due, rows, worker>>
      PROVE  Work'
  <2>1. /\ \A q \in Process \ {p} : at'[q] = at[q] /\ job'[q] = job[q]
        /\ job[p] = NoJob
        /\ job'[p].topic \in Topic
        /\ (at'[p] = "create" /\ job'[p].run = None) \/ (at'[p] = "reap" /\ job'[p].run \in Run)
    <3>1. job[p] = NoJob
      BY <1>7, <1>j DEF Jobs, JobOf
    <3>2. CASE job' = [job EXCEPT ![p] = [topic |-> t, run |-> None]] /\ Go(p, "create")
      BY <1>t, <3>1, <3>2 DEF Go
    <3>3. ASSUME NEW r \in RunningIn(t), job' = [job EXCEPT ![p] = [topic |-> t, run |-> r]], Go(p, "reap")
          PROVE  <2>1
      BY <1>t, <3>1, <3>3 DEF Go, RunningIn
    <3>4. QED
      BY <1>7, <3>2, <3>3 DEF Look
  <2>2. JobOf(p)'
    BY <2>1 DEF JobOf
  <2>3. Jobs'
    BY <1>7, <1>j, <2>1, <2>2, StepOf
  <2>4. RowsAreWorkedOn'
    <3>1. \A r \in Run : rows'[r] = rows[r] /\ worker'[r] = worker[r] /\ job[p].run # r
      BY <1>7, <2>1 DEF NoJob
    <3>2. QED
      BY <1>j, <1>t, <2>1, <3>1, RowsOf
  <2>5. QED
    BY <2>3, <2>4 DEF Work
<1>8. ASSUME NEW p \in Process, Take(p) PROVE Work'
  <2>1. Head(due[p]).topic \in Topic
    <3>1. due[p] # <<>> /\ due[p] \in Seq(Claimed)
      BY <1>8, <1>t DEF Take
    <3>2. Head(due[p]) \in Claimed
      BY <3>1
    <3>3. QED
      BY <3>2 DEF Claimed
  <2>2. QED
    BY <1>7, <1>8, <2>1 DEF Take
<1>9. ASSUME NEW p \in Process, NEW t \in Topic, Send(p, t) PROVE Work'
  BY <1>7, <1>9 DEF Send
<1>10. ASSUME NEW p \in Process, Reap(p) PROVE Work'
  <2>1. /\ \A q \in Process \ {p} : at'[q] = at[q] /\ due'[q] = due[q] /\ job'[q] = job[q]
        /\ \A s \in Run : rows'[s] = IF s = job[p].run THEN None ELSE rows[s]
        /\ job'[p].topic = job[p].topic /\ job'[p].run = None /\ at'[p] = "create"
    BY <1>10, <1>t DEF Reap, Delete, Go, Job
  <2>2. JobOf(p)'
    BY <1>10, <1>j, <2>1 DEF Reap, Jobs, JobOf
  <2>3. Jobs'
    BY <1>j, <2>1, <2>2, StepOf
  <2>4. RowsAreWorkedOn'
    BY <1>10, <1>j, <2>1 DEF Reap, RowsAreWorkedOn, Living
  <2>5. QED
    BY <2>3, <2>4 DEF Work
<1>11. ASSUME NEW p \in Process, Create(p) PROVE Work'
  <2>1. PICK r \in Run :
          /\ rows[r] = None /\ worker[r] = None /\ \A q \in Process : job[q].run # r
          /\ \/ /\ due[p] = <<>> /\ worker' = [worker EXCEPT ![r] = p]
                /\ rows' = [rows EXCEPT ![r] = NewRow(p, FALSE)]
                /\ job' = [job EXCEPT ![p] = NoJob] /\ Go(p, "work")
             \/ /\ due[p] = <<>> /\ worker' = worker
                /\ rows' = [rows EXCEPT ![r] = NewRow(p, TRUE)]
                /\ job' = [job EXCEPT ![p] = NoJob] /\ Go(p, "work")
             \/ /\ due[p] # <<>> /\ worker' = worker
                /\ rows' = [rows EXCEPT ![r] = NewRow(p, FALSE)]
                /\ job' = [job EXCEPT ![p].run = r] /\ Go(p, "advance")
          /\ due' = due
    BY <1>11 DEF Create
  <2>2. /\ \A q \in Process \ {p} : at'[q] = at[q] /\ job'[q] = job[q]
        /\ rows'[r] # None => rows'[r].process = p
        /\ \A s \in Run \ {r} : rows'[s] = rows[s] /\ worker'[s] = worker[s]
        /\ \/ /\ due[p] = <<>> /\ at'[p] = "work" /\ job'[p] = NoJob
              /\ worker'[r] = p \/ rows'[r].lost
           \/ due[p] # <<>> /\ at'[p] = "advance" /\ job'[p].topic = job[p].topic /\ job'[p].run = r
    BY <1>t, <2>1 DEF Go, Job, NewRow
  <2>3. at[p] = "create" /\ job[p].topic \in Topic /\ job[p].run = None
    BY <1>11, <1>j DEF Create, Jobs, JobOf
  <2>4. JobOf(p)'
    BY <2>1, <2>2, <2>3 DEF JobOf
  <2>5. Jobs'
    BY <1>j, <2>1, <2>2, <2>4, StepOf
  <2>6. RowsAreWorkedOn'
    <3>1. ASSUME NEW s \in Run \ {r} PROVE rows'[s] = rows[s] /\ worker'[s] = worker[s] /\ job[p].run # s
      BY <2>2, <2>3
    <3>2. rows'[r].process = p
      BY <2>1, <1>t DEF NewRow
    <3>3. worker'[r] = p \/ job'[p].run = r \/ rows'[r].lost
      BY <2>2
    <3>4. ASSUME NEW s \in Run
          PROVE  \/ worker'[s] = rows'[s].process
                 \/ rows'[s].process = p /\ job'[p].run = s
                 \/ rows'[s].lost
                 \/ /\ rows'[s] = rows[s]
                    /\ worker[s] = rows[s].process => worker'[s] = worker[s]
                    /\ rows[s].process = p => job[p].run # s
      BY <3>1, <3>2, <3>3
    <3>5. QED
      BY <1>j, <1>t, <2>2, <3>4, RowsOf
  <2>7. QED
    BY <2>5, <2>6 DEF Work
<1>12. ASSUME NEW p \in Process, Advance(p) PROVE Work'
  <2>1. /\ \A q \in Process \ {p} : at'[q] = at[q] /\ due'[q] = due[q] /\ job'[q] = job[q]
        /\ at[p] = "advance" /\ at'[p] = "check" /\ job'[p] = NoJob
        /\ StartLoop(p, job[p].run)
    BY <1>12, <1>t DEF Advance, Drop, Go
  <2>2. \A s \in Run :
          \/ rows'[s] = rows[s] /\ worker'[s] = IF s = job[p].run THEN p ELSE worker[s]
          \/ s # job[p].run /\ rows'[s] = rows[s] /\ worker'[s] = worker[s]
          \/ s = job[p].run /\ rows[s] = None /\ rows'[s] = None
          \/ s = job[p].run /\ rows[s] # None /\ rows'[s].lost /\ rows'[s].process = rows[s].process
    BY <1>t, <2>1 DEF StartLoop, Row
  <2>3. JobOf(p)'
    BY <2>1 DEF JobOf
  <2>5. rows[job[p].run] = None \/ rows[job[p].run].process = p
    BY <1>j, <2>1 DEF Jobs, JobOf
  <2>4. Jobs'
    BY <1>j, <2>1, <2>2, <2>3, <2>5, StepOf
  <2>6. RowsAreWorkedOn'
    <3>1. \A s \in Run : rows'[s] # None /\ rows'[s].process # None =>
            \/ worker'[s] = rows'[s].process
            \/ rows'[s].lost
            \/ /\ rows'[s] = rows[s]
               /\ worker[s] = rows[s].process => worker'[s] = worker[s]
               /\ rows[s].process = p => job[p].run # s
      BY <2>2, <2>5
    <3>2. QED
      BY <1>j, <1>t, <2>1, <3>1, RowsOf
  <2>7. QED
    BY <2>4, <2>6 DEF Work
<1>13. ASSUME NEW p \in Process, Undo(p) PROVE Work'
  <2>1. /\ \A q \in Process \ {p} : at'[q] = at[q] /\ due'[q] = due[q] /\ job'[q] = job[q]
        /\ at'[p] = "check" /\ job'[p] = NoJob /\ worker' = worker
        /\ \A s \in Run : rows'[s] = IF s = job[p].run THEN None ELSE rows[s]
    BY <1>13, <1>t DEF Undo, Drop, Delete, Go
  <2>2. JobOf(p)'
    BY <2>1 DEF JobOf
  <2>3. Jobs'
    BY <1>j, <2>1, <2>2, StepOf
  <2>4. RowsAreWorkedOn'
    <3>1. \A s \in Run : rows'[s] # None => rows'[s] = rows[s] /\ worker'[s] = worker[s] /\ job[p].run # s
      BY <2>1
    <3>2. QED
      BY <1>j, <1>t, <2>1, <3>1, RowsOf
  <2>5. QED
    BY <2>3, <2>4 DEF Work
<1>18. ASSUME NEW p \in Process, Exit(p) PROVE Work'
  <2>1. /\ \A q \in Process \ {p} : at'[q] = at[q] /\ due'[q] = due[q] /\ job'[q] = job[q]
        /\ at'[p] = "off" /\ job'[p] = job[p] /\ due'[p] = due[p]
    BY <1>18, <1>t DEF Exit, Go
  <2>2. \A s \in Run :
          /\ worker'[s] = worker[s]
          /\ rows[s] # None /\ rows[s].process = p => (rows'[s] # None => rows'[s].process = None)
          /\ ~(rows[s] # None /\ rows[s].process = p) => rows'[s] = rows[s]
    BY <1>18, <1>t DEF Exit, Orphan, Row
  <2>3. JobOf(p)'
    BY <1>18, <1>j, <2>1 DEF Exit, Jobs, JobOf
  <2>4. Jobs'
    BY <1>j, <2>1, <2>2, <2>3, StepOf
  <2>5. RowsAreWorkedOn'
    <3>1. \A s \in Run : rows'[s] # None /\ rows'[s].process # None =>
            /\ rows'[s] = rows[s]
            /\ worker[s] = rows[s].process => worker'[s] = worker[s]
            /\ rows[s].process = p => job[p].run # s
      BY <2>2
    <3>2. QED
      BY <1>j, <1>t, <2>1, <3>1, RowsOf
  <2>6. QED
    BY <2>4, <2>5 DEF Work
<1>14. ASSUME NEW p \in Process, Die(p) PROVE Work'
  <2>1. /\ \A q \in Process \ {p} : at'[q] = at[q] /\ due'[q] = due[q] /\ job'[q] = job[q]
        /\ at'[p] = "off" /\ job'[p] = NoJob /\ due'[p] = <<>>
    BY <1>14, <1>t DEF Die, Go
  <2>2. \A s \in Run :
          /\ worker'[s] = IF worker[s] = p THEN None ELSE worker[s]
          /\ rows[s] # None /\ rows[s].process = p => (rows'[s] # None => rows'[s].process = None)
          /\ ~(rows[s] # None /\ rows[s].process = p) => rows'[s] = rows[s]
    BY <1>14, <1>t DEF Die, Orphan, Row
  <2>3. JobOf(p)'
    BY <2>1 DEF JobOf
  <2>4. Jobs'
    BY <1>j, <2>1, <2>2, <2>3, StepOf
  <2>5. RowsAreWorkedOn'
    <3>1. \A s \in Run : rows'[s] # None /\ rows'[s].process # None =>
            rows'[s] = rows[s] /\ rows[s].process # p
      BY <2>2
    <3>2. \A s \in Run : worker[s] # p => worker'[s] = worker[s]
      BY <2>2
    <3>3. QED
      <4>1. \A s \in Run : rows'[s] # None /\ rows'[s].process # None =>
              /\ rows'[s] = rows[s]
              /\ worker[s] = rows[s].process => worker'[s] = worker[s]
              /\ rows[s].process = p => job[p].run # s
        BY <3>1, <3>2
      <4>2. QED
        BY <1>j, <1>t, <2>1, <4>1, RowsOf
  <2>6. QED
    BY <2>4, <2>5 DEF Work
<1>15. ASSUME NEW p \in Process, CheckStep(p) PROVE Work'
  BY ONLY <1>15, <1>6, <1>8, <1>10, <1>11, <1>12, <1>13 DEF CheckStep
<1>16. CASE User
  BY ONLY <1>16, <1>1, <1>2, <1>3, <1>4 DEF User
<1>17. QED
  BY ONLY [Next]_vars, <1>1, <1>5, <1>6, <1>9, <1>14, <1>15, <1>16, <1>18 DEF Next

-----------------------------------------------------------------------------
(* The theorems.                                                           *)

LEMMA Invariance == Spec => [](TypeOK /\ Schedules /\ Work)
<1>1. Init => TypeOK /\ Schedules /\ Work
  BY TypeInit, SchedulesInit, WorkInit
<1>2. TypeOK /\ Schedules /\ Work /\ [Next]_vars => (TypeOK /\ Schedules /\ Work)'
  <2>1. Schedules => Ids /\ Edits
    BY DEF Schedules
  <2>2. Work => Jobs
    BY DEF Work
  <2>3. QED
    BY <2>1, <2>2, TypeStep, SchedulesStep, WorkStep
<1>3. QED
  BY <1>1, <1>2, PTL DEF Spec

\* The columns of the events table and the variables of a check hold values of
\* their types in every reachable state.
THEOREM EventTypesHold == Spec => []TypeOK
  BY Invariance, PTL

\* However many checks overlap, and wherever one dies, no occurrence of an event
\* starts a second loop.
THEOREM OnceHolds == Spec => []OncePerOccurrence
<1>1. Schedules => OncePerOccurrence
  BY DEF Schedules
<1>2. QED
  BY <1>1, Invariance, PTL

\* A row that says running and names a living process is worked on, unless its loop
\* could not begin (the configuration or the agent cannot be read) or could not
\* write how it ended (finishRun throws).
THEOREM RowsAreWorkedOnHolds == Spec => []RowsAreWorkedOn
<1>1. Work => RowsAreWorkedOn
  BY DEF Work
<1>2. QED
  BY <1>1, Invariance, PTL

\* A daily event is due at its hour and within a day, for days of any length.
THEOREM OnScheduleHolds == Spec => []OnSchedule
<1>1. Schedules => OnSchedule
  BY DEF Schedules
<1>2. QED
  BY <1>1, Invariance, PTL

\* No claim of a check starts a loop for an event that has ended since.
THEOREM NoStartAfterEndHolds == Spec => NoStartAfterEnd
<1>1. ASSUME TypeOK, Work, [Next]_vars
      PROVE  [\A e \in Event : status[e] # "scheduled" =>
                last'[e] = last[e] /\ (e \in again' => e \in again)]_vars
  <2>1. ASSUME NEW p \in Process, Advance(p), NEW e \in Event, status[e] # "scheduled"
        PROVE  last'[e] = last[e] /\ (e \in again' => e \in again)
    <3>1. last \in [Event -> Time]
      BY <1>1 DEF TypeOK
    <3>2. QED
      BY <2>1, <3>1 DEF Advance
  <2>2. CASE UNCHANGED <<last, again>>
    BY <2>2
  <2>3. ASSUME NEW e \in Event,
               CreateEvent(e) \/ CancelEvent(e) \/ ReadForUpdate(e) \/ \E t \in Topic : MoveEvent(e, t)
        PROVE  UNCHANGED <<last, again>>
    BY <2>3 DEF CreateEvent, CancelEvent, ReadForUpdate, MoveEvent
  <2>4. ASSUME NEW t \in Topic, DeleteTopic(t) PROVE UNCHANGED <<last, again>>
    BY <2>4 DEF DeleteTopic
  <2>5. ASSUME Tick \/ WriteUpdate \/ UNCHANGED vars PROVE UNCHANGED <<last, again>>
    BY <2>5 DEF Tick, WriteUpdate, vars
  <2>6. ASSUME NEW p \in Process,
               \/ Claim(p) \/ ReadActive(p) \/ Skip(p) \/ Take(p) \/ Reap(p) \/ Create(p)
               \/ Refuse(p) \/ Undo(p) \/ Settle(p) \/ Exit(p) \/ Die(p) \/ \E t \in Topic : Send(p, t)
        PROVE  UNCHANGED <<last, again>>
    BY <2>6 DEF Claim, ReadActive, Skip, Take, Reap, Create, Refuse, Undo, Settle, Exit, Die, Send
  <2>7. ASSUME NEW r \in Run, EndLoop(r) PROVE UNCHANGED <<last, again>>
    BY <2>7 DEF EndLoop
  <2>8. QED
    BY <1>1, <2>1, <2>2, <2>3, <2>4, <2>5, <2>6, <2>7 DEF Next, User, CheckStep
<1>2. QED
  BY <1>1, Invariance, PTL DEF Spec, NoStartAfterEnd

=============================================================================
