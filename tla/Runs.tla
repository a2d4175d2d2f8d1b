-------------------------------- MODULE Runs --------------------------------
(***************************************************************************)
(* The life of runs: the runs, run_inbox, messages and summaries tables    *)
(* shared by every process (src/db.ts), the agentic loop that a process    *)
(* executes for a run (src/loop.ts, executeRunLoop in src/commands.ts) and *)
(* the commands that act on a run from outside: send, inject, cancel-run,  *)
(* get-topic and delete-topic.                                             *)
(*                                                                         *)
(* Atomicity.  A process runs one JavaScript thread: what lies between two *)
(* awaits is not interrupted by the other callbacks of that process, but   *)
(* the other processes' SQL statements fall between its own.  A step of    *)
(* this module therefore holds at most one SQL statement or transaction.   *)
(* A command that needs two of them leaves its process in a "section", and *)
(* a loop between two of them is at a place of Synchronous: until it has   *)
(* gone on, the process does nothing else (Free).                          *)
(***************************************************************************)
EXTENDS Naturals, Sequences, FiniteSets

CONSTANTS
  Process,        \* process incarnations: a pid is not used twice
  Topic,          \* topic ids
  Run,            \* run ids
  Message,        \* messages that users inject, each at most once
  MaxIterations,  \* LLM calls of one run, maxIterations in the code
  Overlap,        \* may two processes be alive at the same time?
  ConfigReadable, \* do loadConfig and getTopicAgent always succeed?
  None            \* no topic, no run or no process

ASSUME RunsAssumption ==
  /\ MaxIterations \in Nat \ {0}
  /\ Overlap \in BOOLEAN
  /\ ConfigReadable \in BOOLEAN
  /\ None \notin Process \cup Topic \cup Run

VARIABLES
  \* the database
  topics,     \* topics[t]: has the row of t been inserted, or deleted since?
  status,     \* status[r]: the status column; no row before "running" or once "deleted"
  topicOf,    \* topicOf[r]: the topic_id column, and the execution's topicId
  owner,      \* owner[r]: the pid column, the process that executes the loop
  inbox,      \* inbox[r]: the rows of run_inbox, in the order of their ids
  saved,      \* runs whose newMessages are in the messages table
  summaries,  \* runs that have a row in the summaries table
  \* the processes
  unborn,     \* processes that have not been started
  alive,      \* processes that run
  sigterm,    \* processes with a SIGTERM or SIGINT that they have not handled
  section,    \* section[p]: the synchronous code p is in the middle of
  \* the loops, in the memory of their processes
  pc,         \* pc[r]: where the loop of r is
  iterations, \* iterations[r]: LLM calls begun
  heard,      \* heard[r]: the injected messages in newMessages, in order
  seen,       \* seen[r]: how many of them the last LLM call was given
  aborted,    \* runs whose AbortController has been aborted
  \* history
  accepted,   \* accepted[r]: the messages that inject accepted for r, in order
  requested,  \* runs that a user asked to cancel
  signalled   \* runs whose loop was at work when their process handled a signal

database  == <<topics, status, topicOf, owner, inbox, saved, summaries>>
processes == <<unborn, alive, sigterm, section>>
loops     == <<pc, iterations, heard, seen, aborted>>
history   == <<accepted, requested, signalled>>
vars      == <<database, processes, loops, history>>

-----------------------------------------------------------------------------

Terminal == {"done", "error", "cancelled"}

Idle == [op |-> "idle", topic |-> None, run |-> None]

Sections ==
  [op: {"idle", "send", "get", "create", "cancel"},
   topic: Topic \cup {None}, run: Run \cup {None}]

Places ==
  {"none", "context", "ready", "calling", "tools", "answered", "memory",
   "failing", "over", "lost"}

\* Places between two database calls of one synchronous stretch of the loop.
Synchronous == {"ready", "answered", "failing"}

\* The AbortController of the run is in the map of its process.
Registered(r) == pc[r] \notin {"none", "over", "lost"}

Exists(r) == status[r] \notin {"unused", "deleted"}

RunningRows(t) == {r \in Run : topicOf[r] = t /\ status[r] = "running"}

\* UPDATE runs SET status = s WHERE id = r.
SetStatus(r, s) ==
  status' = IF Exists(r) THEN [status EXCEPT ![r] = s] ELSE status

\* The event loop of p can start a callback.
Free(p) ==
  /\ p \in alive
  /\ section[p] = Idle
  /\ \A r \in Run : owner[r] = p => pc[r] \notin Synchronous

\* Another process can hold the write lock, and no busy_timeout is set: BEGIN
\* IMMEDIATE and UPDATE may then throw SQLITE_BUSY.
Contended(p) == alive \ {p} # {}

-----------------------------------------------------------------------------
(* Processes.                                                              *)

Start(p) ==
  /\ p \in unborn
  /\ Overlap \/ alive = {}
  /\ unborn' = unborn \ {p}
  /\ alive' = alive \cup {p}
  /\ UNCHANGED <<database, sigterm, section, loops, history>>

\* p is gone: the tables stay, what it had in memory does not.
Die(p) ==
  /\ alive' = alive \ {p}
  /\ sigterm' = sigterm \ {p}
  /\ section' = [section EXCEPT ![p] = Idle]
  /\ pc' = [r \in Run |-> IF owner[r] = p /\ Registered(r) THEN "lost" ELSE pc[r]]
  /\ UNCHANGED <<database, unborn, iterations, heard, seen, aborted, history>>

\* p exits, crashes or is killed.
Stop(p) == p \in alive /\ Die(p)

\* Somebody other than cancel-run sends a SIGTERM or a SIGINT: Ctrl-C, a supervisor.
Interrupt(p) ==
  /\ p \in alive
  /\ p \notin sigterm
  /\ sigterm' = sigterm \cup {p}
  /\ UNCHANGED <<database, unborn, alive, section, loops, history>>

\* Every executeRunLoop has added a handler of both signals that aborts its own
\* controller; the default action of a signal nobody handles ends the process.
Signal(p) ==
  /\ p \in sigterm
  /\ Free(p)
  /\ LET mine == {r \in Run : owner[r] = p /\ Registered(r)}
     IN  \/ /\ mine # {}
            /\ aborted' = aborted \cup mine
            /\ sigterm' = sigterm \ {p}
            /\ signalled' = signalled \cup mine
            /\ UNCHANGED <<database, unborn, alive, section, pc, iterations,
                           heard, seen, accepted, requested>>
         \/ mine = {} /\ Die(p)

-----------------------------------------------------------------------------
(* Topics.                                                                 *)

CreateTopic(p, t) ==
  /\ Free(p)
  /\ topics[t] = "unused"
  /\ topics' = [topics EXCEPT ![t] = "live"]
  /\ UNCHANGED <<status, topicOf, owner, inbox, saved, summaries,
                 processes, loops, history>>

\* One transaction.  A loop that still executes for the topic is not told.
DeleteTopic(p, t) ==
  LET gone == {r \in Run : topicOf[r] = t}
  IN  /\ Free(p)
      /\ topics[t] # "unused"
      /\ topics' = [topics EXCEPT ![t] = "deleted"]
      /\ status' = [r \in Run |-> IF r \in gone THEN "deleted" ELSE status[r]]
      /\ inbox' = [r \in Run |-> IF r \in gone THEN <<>> ELSE inbox[r]]
      /\ saved' = saved \ gone
      /\ summaries' = summaries \ gone
      /\ UNCHANGED <<topicOf, owner, processes, loops, history>>

-----------------------------------------------------------------------------
(* Commands that act on runs.                                              *)

\* A bound of the model: a send is taken up only if a run id is left for it.
RunIdLeft ==
  Cardinality({p \in Process : section[p].op \in {"send", "create"}})
    < Cardinality({r \in Run : status[r] = "unused"})

\* The SELECT of getActiveRun, called by send or by get-topic: some running
\* row of the topic (LIMIT 1 without an order).
LookupActiveRun(p, t, op) ==
  /\ Free(p)
  /\ topics[t] # "unused"
  /\ op = "send" => RunIdLeft
  /\ \/ /\ RunningRows(t) = {}
        /\ op = "send"
        /\ section' = [section EXCEPT ![p] = [op |-> "create", topic |-> t, run |-> None]]
     \/ \E r \in RunningRows(t) :
          section' = [section EXCEPT ![p] = [op |-> op, topic |-> t, run |-> r]]
  /\ UNCHANGED <<database, unborn, alive, sigterm, loops, history>>

\* Mutant of FoundActiveRun: send takes no notice of the active run.
SendAnyway(p) ==
  /\ p \in alive
  /\ section[p].op \in {"send", "get"}
  /\ owner[section[p].run] \in alive
  /\ section' = [section EXCEPT ![p] =
       IF section[p].op = "send" THEN [section[p] EXCEPT !.op = "create"] ELSE Idle]
  /\ UNCHANGED <<database, unborn, alive, sigterm, loops, history>>

\* The row was found and its process lives: send is refused, get-topic answers.
FoundActiveRun(p) ==
  /\ p \in alive
  /\ section[p].op \in {"send", "get"}
  /\ owner[section[p].run] \in alive
  /\ section' = [section EXCEPT ![p] = Idle]
  /\ UNCHANGED <<database, unborn, alive, sigterm, loops, history>>

\* The row was found and its process is dead: the row is marked, and
\* getActiveRun reports that the topic has no active run.
ReapStaleRun(p) ==
  /\ p \in alive
  /\ section[p].op \in {"send", "get"}
  /\ owner[section[p].run] \notin alive
  /\ SetStatus(section[p].run, "error")
  /\ section' = [section EXCEPT ![p] =
       IF section[p].op = "send"
       THEN [op |-> "create", topic |-> section[p].topic, run |-> None]
       ELSE Idle]
  /\ UNCHANGED <<topics, topicOf, owner, inbox, saved, summaries,
                 unborn, alive, sigterm, loops, history>>

\* createRun, and executeRunLoop up to its first await.  When the
\* configuration or the agent cannot be read it throws before its try block:
\* there is a row and no loop, and startBackgroundRun drops the exception.
CreateRun(p) ==
  /\ p \in alive
  /\ section[p].op = "create"
  /\ \E r \in Run :
       /\ status[r] = "unused"
       /\ status' = [status EXCEPT ![r] = "running"]
       /\ topicOf' = [topicOf EXCEPT ![r] = section[p].topic]
       /\ owner' = [owner EXCEPT ![r] = p]
       /\ \/ pc' = [pc EXCEPT ![r] = "context"]
          \/ ~ConfigReadable /\ UNCHANGED pc
  /\ section' = [section EXCEPT ![p] = Idle]
  /\ UNCHANGED <<topics, inbox, saved, summaries, unborn, alive, sigterm,
                 iterations, heard, seen, aborted, history>>

\* Mutant of Inject: the status of the run is not looked at.
InjectUnchecked(p, r, m) ==
  /\ Free(p)
  /\ Exists(r)
  /\ \A s \in Run : \A i \in DOMAIN accepted[s] : accepted[s][i] # m
  /\ inbox' = [inbox EXCEPT ![r] = Append(@, m)]
  /\ accepted' = [accepted EXCEPT ![r] = Append(@, m)]
  /\ UNCHANGED <<topics, status, topicOf, owner, saved, summaries,
                 processes, loops, requested, signalled>>

\* injectMessage is one transaction: refused unless the row is running.
Inject(p, r, m) ==
  /\ Free(p)
  /\ status[r] = "running"
  /\ \A s \in Run : \A i \in DOMAIN accepted[s] : accepted[s][i] # m
  /\ inbox' = [inbox EXCEPT ![r] = Append(@, m)]
  /\ accepted' = [accepted EXCEPT ![r] = Append(@, m)]
  /\ UNCHANGED <<topics, status, topicOf, owner, saved, summaries,
                 processes, loops, requested, signalled>>

\* Mutant of RequestCancel: a run that is done can be cancelled, too.
CancelDone(p, r) ==
  /\ Free(p)
  /\ status[r] \in {"running", "done"}
  /\ requested' = requested \cup {r}
  /\ section' = [section EXCEPT ![p] = [op |-> "cancel", topic |-> None, run |-> r]]
  /\ UNCHANGED <<database, unborn, alive, sigterm, loops, accepted, signalled>>

\* Mutant of RequestCancel: the loop is not aborted.
CancelRowOnly(p, r) ==
  /\ Free(p)
  /\ status[r] = "running"
  /\ requested' = requested \cup {r}
  /\ section' = [section EXCEPT ![p] = [op |-> "cancel", topic |-> None, run |-> r]]
  /\ UNCHANGED <<database, unborn, alive, sigterm, loops, accepted, signalled>>

\* cancel-run reads the row, then stops the loop: through the controller of its
\* own process, or by a SIGTERM to the process that the row names.
RequestCancel(p, r) ==
  /\ Free(p)
  /\ status[r] = "running"
  /\ requested' = requested \cup {r}
  /\ \/ /\ owner[r] = p
        /\ aborted' = IF Registered(r) THEN aborted \cup {r} ELSE aborted
        /\ UNCHANGED sigterm
     \/ /\ owner[r] # p
        /\ sigterm' = sigterm \cup ({owner[r]} \cap alive)
        /\ UNCHANGED aborted
  /\ section' = [section EXCEPT ![p] = [op |-> "cancel", topic |-> None, run |-> r]]
  /\ UNCHANGED <<database, unborn, alive, pc, iterations, heard, seen,
                 accepted, signalled>>

\* ... and then marks the row, whatever it holds by now.
MarkCancelled(p) ==
  /\ p \in alive
  /\ section[p].op = "cancel"
  /\ SetStatus(section[p].run, "cancelled")
  /\ section' = [section EXCEPT ![p] = Idle]
  /\ UNCHANGED <<topics, topicOf, owner, inbox, saved, summaries,
                 unborn, alive, sigterm, loops, history>>

\* The next statement of a section is a write that finds the database locked:
\* the command throws, and the process goes on without it.
WriteThrows(p) ==
  /\ p \in alive
  /\ section[p] # Idle
  /\ section[p].op \in {"send", "get"} => owner[section[p].run] \notin alive
  /\ Contended(p)
  /\ section' = [section EXCEPT ![p] = Idle]
  /\ UNCHANGED <<database, unborn, alive, sigterm, loops, history>>

-----------------------------------------------------------------------------
(* The loop of a run.                                                      *)

\* The loop waits for something, and its process can take up the answer.
Resumes(r, place) == pc[r] = place /\ Free(owner[r])

Goto(r, place) == pc' = [pc EXCEPT ![r] = place]

\* buildContext and buildRegistry have been awaited.
ContextBuilt(r) ==
  /\ Resumes(r, "context")
  /\ Goto(r, "ready")
  /\ UNCHANGED <<database, processes, iterations, heard, seen, aborted, history>>

\* The context, the registry or the LLM call throws: an error, or the abort.
CallFails(r) ==
  /\ Resumes(r, "context") \/ Resumes(r, "calling")
  /\ Goto(r, "failing")
  /\ UNCHANGED <<database, processes, iterations, heard, seen, aborted, history>>

\* The top of an iteration, when it stops the loop: the limit is reached, the
\* run is aborted, or the database is locked.
StopAtTop(r) ==
  /\ pc[r] = "ready"
  /\ iterations[r] = MaxIterations \/ r \in aborted \/ Contended(owner[r])
  /\ Goto(r, "failing")
  /\ UNCHANGED <<database, processes, iterations, heard, seen, aborted, history>>

\* Mutant of TakeInbox: the rows are read and not deleted.
CopyInbox(r) ==
  /\ heard' = [heard EXCEPT ![r] = @ \o inbox[r]]
  /\ UNCHANGED inbox

\* All messages of the inbox move into newMessages.
TakeInbox(r) ==
  /\ heard' = [heard EXCEPT ![r] = @ \o inbox[r]]
  /\ inbox' = [inbox EXCEPT ![r] = <<>>]

\* Mutant of BeginIteration: the limit is not tested.
BeginWithoutLimit(r) ==
  /\ pc[r] = "ready"
  /\ r \notin aborted
  /\ iterations' = [iterations EXCEPT ![r] = @ + 1]
  /\ TakeInbox(r)
  /\ seen' = [seen EXCEPT ![r] = Len(heard'[r])]
  /\ Goto(r, "calling")
  /\ UNCHANGED <<topics, status, topicOf, owner, saved, summaries, processes,
                 aborted, history>>

\* Mutant of BeginIteration: the iterations are not counted.
BeginUncounted(r) ==
  /\ pc[r] = "ready"
  /\ iterations[r] < MaxIterations
  /\ r \notin aborted
  /\ TakeInbox(r)
  /\ seen' = [seen EXCEPT ![r] = Len(heard'[r])]
  /\ Goto(r, "calling")
  /\ UNCHANGED <<topics, status, topicOf, owner, saved, summaries, processes,
                 iterations, aborted, history>>

\* The top of an iteration: drainInbox in a transaction, then the LLM call.
BeginIteration(r) ==
  /\ pc[r] = "ready"
  /\ iterations[r] < MaxIterations
  /\ r \notin aborted
  /\ iterations' = [iterations EXCEPT ![r] = @ + 1]
  /\ TakeInbox(r)
  /\ seen' = [seen EXCEPT ![r] = Len(heard'[r])]
  /\ Goto(r, "calling")
  /\ UNCHANGED <<topics, status, topicOf, owner, saved, summaries, processes,
                 aborted, history>>

\* The LLM asks for tools; an aborted call would have thrown.
CallTools(r) ==
  /\ Resumes(r, "calling")
  /\ r \notin aborted
  /\ Goto(r, "tools")
  /\ UNCHANGED <<database, processes, iterations, heard, seen, aborted, history>>

\* A tool returns.  Tools are not given the signal: the abort is noticed before
\* the next tool call of the response, or at the top of the next iteration.
ToolReturns(r) ==
  /\ Resumes(r, "tools")
  /\ \/ Goto(r, "ready")
     \/ r \in aborted /\ Goto(r, "failing")
     \/ r \notin aborted /\ UNCHANGED pc
  /\ UNCHANGED <<database, processes, iterations, heard, seen, aborted, history>>

\* Mutant of Answer: the run is closed without a last look into the inbox.
AnswerAtOnce(r) ==
  /\ Resumes(r, "calling")
  /\ r \notin aborted
  /\ SetStatus(r, "done")
  /\ Goto(r, "answered")
  /\ UNCHANGED <<topics, topicOf, owner, inbox, saved, summaries, processes,
                 iterations, heard, seen, aborted, history>>

\* The final answer: tryFinishRun, in one transaction, takes what the inbox
\* holds and lets the loop go on, or closes the run.
Answer(r) ==
  /\ Resumes(r, "calling")
  /\ r \notin aborted
  /\ \/ /\ inbox[r] # <<>>
        /\ TakeInbox(r)
        /\ Goto(r, "ready")
        /\ UNCHANGED status
     \/ /\ inbox[r] = <<>>
        /\ SetStatus(r, "done")
        /\ Goto(r, "answered")
        /\ UNCHANGED <<inbox, heard>>
     \/ /\ Contended(owner[r])
        /\ Goto(r, "failing")
        /\ UNCHANGED <<status, inbox, heard>>
  /\ UNCHANGED <<topics, topicOf, owner, saved, summaries, processes,
                 iterations, seen, aborted, history>>

\* saveMessages, one transaction.
SaveMessages(r) ==
  /\ pc[r] = "answered"
  /\ \/ saved' = saved \cup {r} /\ Goto(r, "memory")
     \/ Contended(owner[r]) /\ Goto(r, "failing") /\ UNCHANGED saved
  /\ UNCHANGED <<topics, status, topicOf, owner, inbox, summaries, processes,
                 iterations, heard, seen, aborted, history>>

\* processMemory: the LLM writes a summary, which is stored; its exceptions
\* are dropped, and an empty summary is not stored.
StoreSummary(r) ==
  /\ Resumes(r, "memory")
  /\ Goto(r, "over")
  /\ summaries' \in {summaries, summaries \cup {r}}
  /\ UNCHANGED <<topics, status, topicOf, owner, inbox, saved, processes,
                 iterations, heard, seen, aborted, history>>

\* Mutant of FinishFailed: every exception passes for a cancellation.
FinishAsCancelled(r) ==
  /\ pc[r] = "failing"
  /\ SetStatus(r, "cancelled")
  /\ Goto(r, "over")
  /\ UNCHANGED <<topics, topicOf, owner, inbox, saved, summaries, processes,
                 iterations, heard, seen, aborted, history>>

\* The catch block of executeRunLoop: finishRun, which may throw in its turn.
FinishFailed(r) ==
  /\ pc[r] = "failing"
  /\ \/ SetStatus(r, IF r \in aborted THEN "cancelled" ELSE "error")
     \/ Contended(owner[r]) /\ UNCHANGED status
  /\ Goto(r, "over")
  /\ UNCHANGED <<topics, topicOf, owner, inbox, saved, summaries, processes,
                 iterations, heard, seen, aborted, history>>

LoopStep(r) ==
  \/ ContextBuilt(r) \/ CallFails(r) \/ StopAtTop(r) \/ BeginIteration(r)
  \/ CallTools(r) \/ ToolReturns(r) \/ Answer(r) \/ SaveMessages(r)
  \/ StoreSummary(r) \/ FinishFailed(r)

SectionStep(p) ==
  \/ FoundActiveRun(p) \/ ReapStaleRun(p) \/ CreateRun(p) \/ MarkCancelled(p)
  \/ WriteThrows(p)

-----------------------------------------------------------------------------

Init ==
  /\ topics = [t \in Topic |-> "unused"]
  /\ status = [r \in Run |-> "unused"]
  /\ topicOf = [r \in Run |-> None]
  /\ owner = [r \in Run |-> None]
  /\ inbox = [r \in Run |-> <<>>]
  /\ saved = {}
  /\ summaries = {}
  /\ unborn = Process
  /\ alive = {}
  /\ sigterm = {}
  /\ section = [p \in Process |-> Idle]
  /\ pc = [r \in Run |-> "none"]
  /\ iterations = [r \in Run |-> 0]
  /\ heard = [r \in Run |-> <<>>]
  /\ seen = [r \in Run |-> 0]
  /\ aborted = {}
  /\ accepted = [r \in Run |-> <<>>]
  /\ requested = {}
  /\ signalled = {}

Command(p) ==
  \/ \E t \in Topic : CreateTopic(p, t) \/ DeleteTopic(p, t)
  \/ \E t \in Topic, op \in {"send", "get"} : LookupActiveRun(p, t, op)
  \/ \E r \in Run : RequestCancel(p, r)
  \/ \E r \in Run, m \in Message : Inject(p, r, m)

Next ==
  \/ \E p \in Process : Start(p) \/ Stop(p) \/ Interrupt(p) \/ Signal(p)
  \/ \E p \in Process : Command(p) \/ SectionStep(p)
  \/ \E r \in Run : LoopStep(r)

Spec == Init /\ [][Next]_vars

\* Users need not issue commands and processes need not be started or die.  A
\* process goes on with a section it has entered, an event loop takes up every
\* callback in its turn (strong fairness: a loop waits while the process is
\* busy with something else), and the LLM and the tools eventually answer.
Fairness ==
  /\ \A p \in Process : WF_vars(SectionStep(p)) /\ SF_vars(Signal(p))
  /\ \A r \in Run : SF_vars(LoopStep(r))

FairSpec == Spec /\ Fairness

-----------------------------------------------------------------------------
(* Properties.                                                             *)

\* The columns and the memory of the loops hold values of their types.
TypeOK ==
  /\ topics \in [Topic -> {"unused", "live", "deleted"}]
  /\ status \in [Run -> {"unused", "running", "deleted"} \cup Terminal]
  /\ topicOf \in [Run -> Topic \cup {None}]
  /\ owner \in [Run -> Process \cup {None}]
  /\ inbox \in [Run -> Seq(Message)]
  /\ saved \subseteq Run
  /\ summaries \subseteq Run
  /\ unborn \subseteq Process
  /\ alive \subseteq Process
  /\ sigterm \subseteq Process
  /\ section \in [Process -> Sections]
  /\ pc \in [Run -> Places]
  /\ iterations \in [Run -> 0 .. MaxIterations]
  /\ heard \in [Run -> Seq(Message)]
  /\ seen \in [Run -> Nat]
  /\ aborted \subseteq Run
  /\ accepted \in [Run -> Seq(Message)]
  /\ requested \subseteq Run
  /\ signalled \subseteq Run

\* No injected message is lost, duplicated or reordered on its way from the
\* inbox to the transcript: as long as the run has a row, what inject accepted
\* is what the loop took followed by what the inbox still holds, however the
\* injections fall between the drains and the atomic finish.
InjectedInOrder ==
  \A r \in Run : Exists(r) => accepted[r] = heard[r] \o inbox[r]

\* The atomic finish (docs/runs.md, "no message loss"): when the messages of a
\* run have been saved, every message that inject accepted is among them, and
\* the LLM was given all of them before its last answer.
SavedRunHeardAll ==
  \A r \in saved : Exists(r) =>
    /\ heard[r] = accepted[r]
    /\ seen[r] = Len(accepted[r])

\* A topic has at most one active run (docs/runs.md, "One Run Per Topic").
OneActiveRun ==
  \A r, s \in Run :
    /\ topicOf[r] = topicOf[s]
    /\ status[r] = "running" /\ owner[r] \in alive
    /\ status[s] = "running" /\ owner[s] \in alive
    => r = s

\* A cancelled run leaves nothing behind: once cancel-run has answered, the
\* loop never reaches saveMessages, although it is not stopped at once.
CancelledNeverSaved ==
  \A r \in saved : status[r] # "cancelled"

\* A run is cancelled for two reasons only: a user asked to cancel that run, or its
\* process was sent a signal while its loop was at work.  No failure of a loop, no
\* crash and no row that is reaped passes for a cancellation, whatever commands of
\* other processes come between.  (The row that event-check takes back and marks
\* cancelled never had a loop: Undo of Events.)
CancelledWhenStopped ==
  \A r \in Run : status[r] = "cancelled" => r \in requested \cup signalled

\* A terminal status is final: the lifecycle has no arrow out of done, error or
\* cancelled (docs/runs.md, "Run Lifecycle").
TerminalIsFinal ==
  [][\A r \in Run : status[r] \in Terminal => status'[r] \in {status[r], "deleted"}]_vars

\* Once the row of a run says cancelled, its loop does not call the LLM again: it
\* was aborted first, and the abort is seen at the top of the next iteration.
NoCallAfterCancel ==
  [][\A r \in Run : status[r] = "cancelled" => iterations'[r] = iterations[r]]_vars

\* Every run comes to an end, however many tools the LLM calls and messages the
\* users inject, or its process dies (then it is reaped by the next lookup).
EveryRunEnds ==
  \A r \in Run :
    status[r] = "running" /\ owner[r] \in alive
      ~> status[r] # "running" \/ owner[r] \notin alive

\* Every run implements a box of Mailbox: its box is open while the row says
\* running, and complete once newMessages have been saved for a row that exists.
Box == INSTANCE Mailbox WITH
  open <- {r \in Run : status[r] = "running"},
  sent <- accepted,
  read <- heard,
  complete <- {r \in saved : Exists(r)}

\* The loop, the inbox table and the atomic finish implement the mailbox.
ImplementsMailbox == Box!Spec

=============================================================================
