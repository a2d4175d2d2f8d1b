---------------------------- MODULE Conversation ----------------------------
(***************************************************************************)
(* What the LLM is told: the context that buildContext makes of the runs   *)
(* of a topic (src/context.ts), the messages that the loop adds to it and  *)
(* keeps for the database (src/loop.ts), the summaries of old runs         *)
(* (src/memory.ts), and the form in which the two protocols send it all    *)
(* (src/llm.ts).                                                           *)
(*                                                                         *)
(* Runs are numbered in the order of started_at.  Of a message its role,   *)
(* its run, the tool calls it makes or answers, and whether it has images  *)
(* are kept.  The system prompt, which is the first message of every       *)
(* request and is never stored, is left out.                               *)
(***************************************************************************)
EXTENDS Integers, Sequences, FiniteSets, SequencesExt

CONSTANTS
  Topic,          \* ids of topics
  MaxRuns,        \* bound: runs that are started
  MaxCalls,       \* bound: tool calls in one response of the LLM
  MaxInjections,  \* bound: messages that are injected, into all runs
  MaxBatches,     \* bound: responses of the LLM with tool calls, in all runs
  maxIterations, runWindowMin, runWindowMax,
  None

ASSUME ConversationAssumption ==
  /\ {MaxRuns, MaxCalls, MaxInjections, MaxBatches} \subseteq Nat
  /\ {maxIterations, runWindowMin, runWindowMax} \subseteq Nat \ {0}
  /\ runWindowMin <= runWindowMax /\ None \notin Topic

VARIABLES
  topic,      \* topic of a run, None until it is started
  status,     \* column of the runs table
  place,      \* where the loop of a run is
  iteration,  \* its loop counter
  context,    \* its messages for the LLM
  new,        \* its messages for the database (newMessages)
  inbox,      \* rows of run_inbox: injected messages that wait
  spent,      \* messages injected and responses with calls so far, for the bounds
  rows,       \* rows of the messages table, by run
  summaries   \* runs that have a row in the summaries table

loop == <<topic, status, place, iteration, context, new>>
vars == <<loop, inbox, spent, rows, summaries>>

Run == 1..MaxRuns

Message(role, r, ids, image) == [role |-> role, run |-> r, ids |-> ids, image |-> image]

-----------------------------------------------------------------------------
(* The context of a run.                                                   *)

InOrder(runs) ==
  LET first[n \in 0..MaxRuns] ==
        IF n = 0 THEN <<>> ELSE IF n \in runs THEN Append(first[n - 1], n) ELSE first[n - 1]
  IN  first[MaxRuns]

getCompletedRuns(t) == InOrder({r \in Run : topic[r] = t /\ status[r] = "done"})

\* Mutant: the run before the window is in neither part.
SummaryRunsShort(done) ==
  IF Len(done) <= runWindowMax THEN <<>>
  ELSE SubSeq(done, 1, Len(done) - runWindowMin - 1)

SummaryRuns(done) ==
  IF Len(done) <= runWindowMax THEN <<>> ELSE SubSeq(done, 1, Len(done) - runWindowMin)

FullRuns(done) ==
  IF Len(done) <= runWindowMax THEN done
  ELSE SubSeq(done, Len(done) - runWindowMin + 1, Len(done))

\* The summary of the run, or the one of the topic that is nearest in time
\* (of two that are as near, any).
SummariesFor(r) ==
  LET near == {s \in summaries : topic[s] = topic[r]}
      away(s) == IF s < r THEN r - s ELSE s - r
  IN  IF r \in summaries THEN {r} ELSE {s \in near : \A other \in near : away(s) <= away(other)}

\* A line of the list of summaries, in the place of the id of a tool call.
Line(r) == <<r, 0, 0>>

\* The user message that lists the summaries, and the answer to it.
TopicHistory(old) ==
  LET told == InOrder({r \in ToSet(old) : SummariesFor(r) # {}})
  IN  IF told = <<>> THEN {<<>>}
      ELSE {<<Message("user", 0, lines, FALSE), Message("assistant", 0, <<>>, FALSE)>> :
              lines \in {l \in [DOMAIN told -> {Line(s) : s \in summaries}] :
                           \A n \in DOMAIN told : l[n][1] \in SummariesFor(told[n])}}

Messages(full) == FlattenSeq([n \in DOMAIN full |-> rows[full[n]]])

buildContext(r, t) ==
  LET done == getCompletedRuns(t)
  IN  {history \o Messages(FullRuns(done)) \o <<Message("user", r, <<>>, FALSE)>> :
         history \in TopicHistory(SummaryRuns(done))}

-----------------------------------------------------------------------------
(* The forms of a request.                                                 *)

Block(type, id) == [type |-> type, id |-> id]

\* buildAnthropicContentBlocks and the blocks of convertMessagesForAnthropic.
Blocks(m) ==
  CASE m.role = "assistant" -> <<Block("text", None)>>
                               \o [n \in DOMAIN m.ids |-> Block("tool_use", m.ids[n])]
    [] m.role = "tool"      -> <<Block("tool_result", m.ids[1])>>
    [] OTHER                -> <<Block("text", None)>>

\* Mutant: the results of tools are messages of their own.
AddToAnthropicApart(result, m) ==
  Append(result, [role |-> IF m.role = "assistant" THEN "assistant" ELSE "user",
                  content |-> Blocks(m)])

\* Anthropic knows no role for tools: results are put with what the user says.
AddToAnthropic(result, m) ==
  IF m.role # "assistant" /\ result # <<>> /\ Last(result).role = "user"
    THEN [result EXCEPT ![Len(result)].content = @ \o Blocks(m)]
    ELSE Append(result, [role |-> IF m.role = "assistant" THEN "assistant" ELSE "user",
                         content |-> Blocks(m)])

convertMessagesForAnthropic(messages) ==
  LET result[n \in 0..Len(messages)] ==
        IF n = 0 THEN <<>> ELSE AddToAnthropic(result[n - 1], messages[n])
  IN  result[Len(messages)]

messagesToAPI(messages) ==
  [n \in DOMAIN messages |->
     [role |-> messages[n].role,
      tool_calls   |-> IF messages[n].role = "assistant" THEN messages[n].ids ELSE <<>>,
      tool_call_id |-> IF messages[n].role = "tool" THEN messages[n].ids[1] ELSE None]]

-----------------------------------------------------------------------------
(* The loop.                                                               *)

Active(t) == \E r \in Run : topic[r] = t /\ status[r] = "running"

\* Mutant: the database is not told.
SayToLLM(r, messages) ==
  /\ context' = [context EXCEPT ![r] = @ \o messages]
  /\ new'     = IF messages # <<>> /\ messages[1].role = "user" THEN new
                ELSE [new EXCEPT ![r] = @ \o messages]

\* Every message goes to both lists.
Say(r, messages) ==
  /\ context' = [context EXCEPT ![r] = @ \o messages]
  /\ new'     = [new EXCEPT ![r] = @ \o messages]

Injected(r) == [n \in 1..inbox[r] |-> Message("user", r, <<>>, FALSE)]

\* handleSend and buildContext: the newest message is the first for the database.
Begin(r, t) ==
  /\ topic[r] = None /\ \A earlier \in 1..r - 1 : topic[earlier] # None
  /\ ~Active(t)
  /\ topic'     = [topic EXCEPT ![r] = t]
  /\ status'    = [status EXCEPT ![r] = "running"]
  /\ place'     = [place EXCEPT ![r] = "top"]
  /\ iteration' = [iteration EXCEPT ![r] = 1]
  /\ \E c \in buildContext(r, t) :
       /\ context' = [context EXCEPT ![r] = c]
       /\ new'     = [new EXCEPT ![r] = <<Last(c)>>]
  /\ UNCHANGED <<inbox, spent, rows, summaries>>

Inject(r) ==
  /\ status[r] = "running" /\ spent.injections < MaxInjections
  /\ inbox' = [inbox EXCEPT ![r] = @ + 1]
  /\ spent' = [spent EXCEPT !.injections = @ + 1]
  /\ UNCHANGED <<loop, rows, summaries>>

\* Mutant: one message is taken, whether there is one or not.
CallAfterOne(r) ==
  /\ place[r] = "top" /\ iteration[r] <= maxIterations
  /\ place' = [place EXCEPT ![r] = "calling"]
  /\ inbox' = [inbox EXCEPT ![r] = @ - 1]
  /\ Say(r, Injected(r))
  /\ UNCHANGED <<topic, status, iteration, spent, rows, summaries>>

\* The top of an iteration: drainInjectedMessages, then callLLM.
Call(r) ==
  /\ place[r] = "top" /\ iteration[r] <= maxIterations
  /\ place' = [place EXCEPT ![r] = "calling"]
  /\ inbox' = [inbox EXCEPT ![r] = 0]
  /\ Say(r, Injected(r))
  /\ UNCHANGED <<topic, status, iteration, spent, rows, summaries>>

\* Ids of the calls of an iteration; those that are still to be executed are
\* the ones that no tool message answers.
Ids(r, n) == [i \in 1..n |-> <<r, iteration[r], i>>]

Unanswered(r) ==
  LET asked == UNION {ToSet(m.ids) : m \in {m \in ToSet(new[r]) : m.role = "assistant"}}
      told  == UNION {ToSet(m.ids) : m \in {m \in ToSet(new[r]) : m.role = "tool"}}
  IN  asked \ told

AnswerWithCalls(r, n) ==
  /\ place[r] = "calling" /\ spent.batches < MaxBatches
  /\ place' = [place EXCEPT ![r] = "tools"]
  /\ spent' = [spent EXCEPT !.batches = @ + 1]
  /\ Say(r, <<Message("assistant", r, Ids(r, n), FALSE)>>)
  /\ UNCHANGED <<topic, status, iteration, inbox, rows, summaries>>

\* A tool returns; after the last one the next iteration begins.
Tool(r, image) ==
  /\ place[r] = "tools"
  /\ LET id == CHOOSE i \in Unanswered(r) : \A other \in Unanswered(r) : i[3] <= other[3]
     IN  Say(r, <<Message("tool", r, <<id>>, image)>>)
  /\ IF Cardinality(Unanswered(r)) = 1
       THEN /\ place'     = [place EXCEPT ![r] = "top"]
            /\ iteration' = [iteration EXCEPT ![r] = @ + 1]
       ELSE UNCHANGED <<place, iteration>>
  /\ UNCHANGED <<topic, status, inbox, spent, rows, summaries>>

\* The final answer: the run is done, unless messages were injected meanwhile.
Answer(r) ==
  /\ place[r] = "calling"
  /\ Say(r, <<Message("assistant", r, <<>>, FALSE)>> \o Injected(r))
  /\ inbox' = [inbox EXCEPT ![r] = 0]
  /\ IF inbox[r] = 0
       THEN /\ status' = [status EXCEPT ![r] = "done"]
            /\ place'  = [place EXCEPT ![r] = "answered"]
            /\ UNCHANGED iteration
       ELSE /\ place'     = [place EXCEPT ![r] = "top"]
            /\ iteration' = [iteration EXCEPT ![r] = @ + 1]
            /\ UNCHANGED status
  /\ UNCHANGED <<topic, spent, rows, summaries>>

\* saveMessages has no column for images.
Save(r) ==
  /\ place[r] = "answered"
  /\ place' = [place EXCEPT ![r] = "saved"]
  /\ rows'  = [rows EXCEPT ![r] = [n \in DOMAIN new[r] |-> [new[r][n] EXCEPT !.image = FALSE]]]
  /\ UNCHANGED <<topic, status, iteration, context, new, inbox, spent, summaries>>

\* The loops of these runs are over, and with them what they had in memory.
Forget(ended) ==
  /\ place'     = [r \in Run |-> IF r \in ended THEN "over" ELSE place[r]]
  /\ iteration' = [r \in Run |-> IF r \in ended THEN 0 ELSE iteration[r]]
  /\ context'   = [r \in Run |-> IF r \in ended THEN <<>> ELSE context[r]]
  /\ new'       = [r \in Run |-> IF r \in ended THEN <<>> ELSE new[r]]

\* processMemory, with a summary that is not empty or without one.
Summarise(r, stored) ==
  /\ place[r] = "saved"
  /\ Forget({r})
  /\ summaries' = IF stored THEN summaries \cup {r} ELSE summaries
  /\ UNCHANGED <<topic, status, inbox, spent, rows>>

\* The run is cancelled or fails, or its iterations are used up.
Stop(r) ==
  /\ place[r] \in {"top", "calling", "tools"}
  /\ Forget({r})
  /\ status' = [status EXCEPT ![r] = "stopped"]
  /\ UNCHANGED <<topic, inbox, spent, rows, summaries>>

\* The process ends; getActiveRun will find the rows that say running.
Die ==
  LET ended == {r \in Run : place[r] \notin {"none", "over"}}
  IN  /\ ended # {}
      /\ Forget(ended)
      /\ status' = [r \in Run |-> IF status[r] = "running" THEN "stopped" ELSE status[r]]
      /\ UNCHANGED <<topic, inbox, spent, rows, summaries>>

-----------------------------------------------------------------------------
Init ==
  /\ topic = [r \in Run |-> None] /\ status = [r \in Run |-> "none"]
  /\ place = [r \in Run |-> "none"] /\ iteration = [r \in Run |-> 0]
  /\ context = [r \in Run |-> <<>>] /\ new = [r \in Run |-> <<>>]
  /\ inbox = [r \in Run |-> 0] /\ spent = [injections |-> 0, batches |-> 0]
  /\ rows = [r \in Run |-> <<>>] /\ summaries = {}

Next ==
  \/ \E r \in Run :
       \/ \E t \in Topic : Begin(r, t)
       \/ Inject(r) \/ Call(r) \/ Answer(r) \/ Save(r) \/ Stop(r)
       \/ \E n \in 1..MaxCalls : AnswerWithCalls(r, n)
       \/ \E image \in BOOLEAN : Tool(r, image)
       \/ \E stored \in BOOLEAN : Summarise(r, stored)
  \/ Die

Spec == Init /\ [][Next]_vars

-----------------------------------------------------------------------------
\* Types.
TypeOK ==
  LET IdSet   == Run \X (0..maxIterations) \X (0..MaxCalls)
      IsMessage(m) == /\ m.role \in {"user", "assistant", "tool"} /\ m.run \in {0} \cup Run
                      /\ m.image \in BOOLEAN
                      /\ \A n \in DOMAIN m.ids : m.ids[n] \in IdSet
      AreMessages(s) == \A n \in DOMAIN s : IsMessage(s[n])
  IN  /\ topic \in [Run -> Topic \cup {None}]
      /\ status \in [Run -> {"none", "running", "done", "stopped"}]
      /\ place \in [Run -> {"none", "top", "calling", "tools", "answered", "saved", "over"}]
      /\ iteration \in [Run -> 0..maxIterations + 1]
      /\ \A r \in Run : AreMessages(context[r]) /\ AreMessages(new[r]) /\ AreMessages(rows[r])
      /\ inbox \in [Run -> 0..MaxInjections]
      /\ spent \in [injections : 0..MaxInjections, batches : 0..MaxBatches]
      /\ summaries \subseteq Run

Asking(r) == place[r] = "calling"

\* What both protocols demand of a conversation.  OpenAI: a message with tool
\* calls is followed by their results, in order, and there are no others.
Paired(api) ==
  /\ \A n \in DOMAIN api : \A i \in DOMAIN api[n].tool_calls :
       n + i \in DOMAIN api /\ api[n + i].tool_call_id = api[n].tool_calls[i]
  /\ \A n \in DOMAIN api : api[n].role = "tool" =>
       \E asked \in 1..n - 1 : n - asked \in DOMAIN api[asked].tool_calls

\* Anthropic: user and assistant speak in turn, the user first and last; a
\* message, text and then tool uses, is followed by one that begins with their
\* results, and has no others.
Alternating(api) ==
  LET Of(n, type) == {i \in DOMAIN api[n].content : api[n].content[i].type = type}
  IN  /\ api # <<>> /\ Last(api).role = "user"
      /\ \A n \in DOMAIN api : api[n].role = IF n % 2 = 1 THEN "user" ELSE "assistant"
      /\ Of(1, "tool_result") = {}
      /\ \A n \in DOMAIN api : api[n].role = "assistant" =>
           /\ Of(n + 1, "tool_result") = {i - 1 : i \in Of(n, "tool_use")}
           /\ \A i \in Of(n, "tool_use") : api[n + 1].content[i - 1].id = api[n].content[i].id

\* Whatever tools were called, messages injected and runs broken off, every
\* request has the form its protocol demands.
WellFormedRequests ==
  \A r \in Run : Asking(r) =>
    /\ Paired(messagesToAPI(context[r]))
    /\ Alternating(convertMessagesForAnthropic(context[r]))

\* The two lists of the loop never part: what is kept for the database is the
\* end of what the LLM is told, from the user's message on; and what was saved
\* is that, but for the images.
TranscriptsAgree ==
  \A r \in Run : place[r] \notin {"none", "over"} =>
    LET earlier == Len(context[r]) - Len(new[r])
    IN  /\ earlier >= 0 /\ new[r] # <<>> /\ new[r][1] = Message("user", r, <<>>, FALSE)
        /\ \A n \in DOMAIN new[r] : new[r][n] = context[r][earlier + n] /\ new[r][n].run = r
        /\ place[r] = "saved" =>
             /\ Len(rows[r]) = Len(new[r])
             /\ \A n \in DOMAIN new[r] : rows[r][n] = [new[r][n] EXCEPT !.image = FALSE]

\* Where the messages of a run are, in a list of messages.
PlacesOf(messages, q) == {n \in DOMAIN messages : messages[n].run = q}

\* The messages of a run in the list are these, in order and once.
Holds(messages, q, these) ==
  \E before \in 0..Len(messages) :
    /\ PlacesOf(messages, q) = {before + n : n \in DOMAIN these}
    /\ \A n \in DOMAIN these : messages[before + n] = these[n]

\* A run that begins is told the conversation so far: of every run of its topic
\* that was saved all messages, in order and once, or else, for older runs, one
\* line of a summary of the topic, if there is one; and nothing of other topics.
Remembers(r) ==
  LET told  == context[r]
      past  == {q \in Run \ {r} : topic[q] = topic[r] /\ status[q] = "done"}
      full  == {q \in past : PlacesOf(told, q) # {}}
      empty == {q \in past : rows[q] = <<>>}
      old   == past \ full
      lines == IF PlacesOf(told, 0) = {} THEN <<>> ELSE told[1].ids
  IN  /\ \A q \in full : Holds(told, q, rows[q]) /\ \A later \in past : later > q => later \in full \cup empty
      /\ \A n \in DOMAIN told : told[n].run \in {0, r} \cup full
      /\ \A m, n \in DOMAIN told : m < n => told[m].run <= told[n].run
      /\ Cardinality(full \cup empty) >= runWindowMin \/ past \subseteq full \cup empty
      /\ \A n \in DOMAIN lines : topic[lines[n][1]] = topic[r]
      /\ old \ empty # {} /\ (\E q \in summaries : topic[q] = topic[r])
           => {Line(q) : q \in old \cap summaries} \subseteq ToSet(lines) /\ Len(lines) >= Cardinality(old \ empty)

\* Every run that begins is told what Remembers says, whatever ended, was summarised
\* or was lost before (context.ts:91-133, 244-276).
ConversationRemembered ==
  [][\A r \in Run : topic[r] = None /\ topic'[r] # None => Remembers(r)']_vars

=============================================================================
