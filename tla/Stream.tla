------------------------------- MODULE Stream -------------------------------
(***************************************************************************)
(* The answer of the LLM on its way (src/llm.ts): the provider sends events *)
(* of its protocol as lines of text, the network delivers them in chunks   *)
(* of any size or breaks off, readSSE makes lines and events of the chunks *)
(* and callOpenAI or callAnthropic assemble the response.                  *)
(*                                                                         *)
(* A token stands for a stretch of text: the name of a field, the two      *)
(* halves of the JSON text of the k-th event, a CR or an LF.  Of the       *)
(* content of an event its number is kept.                                 *)
(***************************************************************************)
EXTENDS Integers, Sequences, FiniteSets

CONSTANTS
  MaxEvents,  \* bound: events of a response
  LastIndex,  \* bound: index of tool calls and content blocks
  MaxInPipe,  \* bound: tokens on their way at one time
  None

ASSUME StreamAssumption ==
  /\ {MaxEvents, MaxInPipe} \subseteq Nat \ {0} /\ LastIndex \in Nat
  /\ None \notin 0..LastIndex /\ None \notin {"text", "tool_use", "closed", "cut"}

VARIABLES
  protocol,   \* protocol of the provider
  eol,        \* the line ends it uses
  twoLines,   \* whether it writes the JSON text of an event on two lines
  events,     \* the events it has sent
  pipe,       \* tokens on their way
  ended,      \* how the provider's side ended: None, "closed" or "cut"
  reader,     \* readSSE: buffer, dataLines
  response,   \* what has been assembled
  returned    \* whether the call has returned

streamVars == <<protocol, eol, twoLines, events, pipe, ended, reader, response, returned>>

CR == <<"CR", 0>>
LF == <<"LF", 0>>
LineEnds == {<<LF>>, <<CR>>, <<CR, LF>>}

Index == 0..LastIndex

\* The numbers up to n that are in a set, in their order.
InOrder(S, n) ==
  LET up[m \in 0..n] ==
        LET before == IF m = 0 THEN <<>> ELSE up[m - 1]
        IN IF m \in S THEN Append(before, m) ELSE before
  IN up[n]

-----------------------------------------------------------------------------
(* The provider.                                                           *)

Event(type, index, id) == [type |-> type, index |-> index, id |-> id]

Begun(i) == \E n \in DOMAIN events : events[n].index = i

\* OpenAI gives the id of a call with its first piece, and perhaps again.
OpenAIEvents ==
  {Event(type, None, None) : type \in {"text", "thinking", "usage", "[DONE]"}}
    \cup {Event("call", i, i) : i \in Index} \cup {Event("call", i, None) : i \in {j \in Index : Begun(j)}}

\* Anthropic starts blocks and adds to those it has started.
AnthropicEvents ==
  {Event("usage", None, None)}
    \cup {Event(type, i, i) : type \in {"start_text", "start_tool_use"}, i \in {j \in Index : ~Begun(j)}}
    \cup {Event("delta", i, None) : i \in {j \in Index : Begun(j)}}

\* The lines of the k-th event; Anthropic names its type before the data.
Lines(k) ==
  LET Line(tokens) == tokens \o eol
  IN Line(IF protocol = "anthropic" THEN <<<<"event:", 0>>, <<"name", k>>>> ELSE <<<<":", 0>>>>)
       \o (IF twoLines THEN Line(<<<<"data:", 0>>, <<"head", k>>>>) \o Line(<<<<"data:", 0>>, <<"tail", k>>>>)
           ELSE Line(<<<<"data:", 0>>, <<"head", k>>, <<"tail", k>>>>))
       \o Line(<<>>)

Provide(e) ==
  /\ ended = None /\ Len(events) < MaxEvents
  /\ Len(pipe) < MaxInPipe
  /\ events' = Append(events, e)
  /\ pipe'   = pipe \o Lines(Len(events) + 1)
  /\ ended'  = IF e.type = "[DONE]" THEN "closed" ELSE None
  /\ UNCHANGED <<protocol, eol, twoLines, reader, response, returned>>

Close ==
  /\ ended = None
  /\ ended' = "closed"
  /\ UNCHANGED <<protocol, eol, twoLines, events, pipe, reader, response, returned>>

\* The connection breaks; what is on its way is lost, and the reader sees the
\* end of the stream.
Cut ==
  /\ ended # "cut" /\ pipe # <<>>
  /\ ended' = "cut" /\ pipe' = <<>>
  /\ UNCHANGED <<protocol, eol, twoLines, events, reader, response, returned>>

-----------------------------------------------------------------------------
(* callOpenAI and callAnthropic: the next event.                           *)

NoCall == [kind |-> None, id |-> None, args |-> <<>>]

EmptyResponse ==
  [text |-> <<>>, thinking |-> <<>>, calls |-> [i \in Index |-> NoCall], usage |-> 0, done |-> FALSE]

OpenAIChunk(r, k) ==
  LET e == events[k]
      call == r.calls[e.index]
  IN CASE e.type = "text"     -> [r EXCEPT !.text = Append(r.text, k)]
       [] e.type = "thinking" -> [r EXCEPT !.thinking = Append(r.thinking, k)]
       [] e.type = "usage"    -> [r EXCEPT !.usage = k]
       [] e.type = "[DONE]"   -> [r EXCEPT !.done = TRUE]
       [] OTHER -> [r EXCEPT !.calls[e.index] =
                      [kind |-> "tool_use", id |-> IF e.id = None THEN call.id ELSE e.id,
                       args |-> Append(call.args, k)]]

AnthropicEvent(r, k) ==
  LET e == events[k]
      block == r.calls[e.index]
      Block(kind, id, args) == [r EXCEPT !.calls[e.index] = [kind |-> kind, id |-> id, args |-> args]]
  IN CASE e.type = "usage"          -> [r EXCEPT !.usage = k]
       [] e.type = "start_text"     -> Block("text", None, <<>>)
       [] e.type = "start_tool_use" -> Block("tool_use", e.id, <<>>)
       [] e.type = "delta" /\ block.kind = "text"     -> [r EXCEPT !.text = Append(r.text, k)]
       [] e.type = "delta" /\ block.kind = "tool_use" -> Block("tool_use", block.id, Append(block.args, k))
       [] OTHER -> r

\* The events whose whole JSON text is in the data of one SSE event.
Parsed(data) ==
  {k \in DOMAIN events : data \in {<<<<"head", k>>, <<"tail", k>>>>, <<<<"head", k>>, LF, <<"tail", k>>>>}}

Assemble(r, data) ==
  IF r.done \/ Parsed(data) = {} THEN r
  ELSE LET k == CHOOSE k \in Parsed(data) : TRUE
       IN  IF protocol = "openai" THEN OpenAIChunk(r, k) ELSE AnthropicEvent(r, k)

toolCalls(r) ==
  LET tools == {i \in Index : r.calls[i].kind = "tool_use"}
      order == InOrder(tools, LastIndex)
  IN  [n \in DOMAIN order |-> [id |-> r.calls[order[n]].id, args |-> r.calls[order[n]].args]]

-----------------------------------------------------------------------------
(* readSSE.                                                                *)

Join(lines) ==
  LET text[n \in 1..Len(lines)] == IF n = 1 THEN lines[1] ELSE text[n - 1] \o <<LF>> \o lines[n]
  IN text[Len(lines)]

\* A step of the parser: rd is the reader, r the response so far.
dispatch(s) ==
  IF s.rd.dataLines = <<>> THEN s
  ELSE [rd |-> [s.rd EXCEPT !.dataLines = <<>>], r |-> Assemble(s.r, Join(s.rd.dataLines))]

processLine(s, line) ==
  IF line = <<>> THEN dispatch(s)
  ELSE IF line[1] = <<"data:", 0>> THEN [s EXCEPT !.rd.dataLines = Append(s.rd.dataLines, Tail(line))]
  ELSE s

\* A token of a chunk; t says of it whether the one before was a CR.
scanToken(t, token) ==
  CASE token = LF /\ t.afterCR -> [t EXCEPT !.afterCR = FALSE]
    [] token = CR \/ (token = LF /\ ~t.afterCR) ->
         [s |-> processLine([t.s EXCEPT !.rd.buffer = <<>>], t.s.rd.buffer), afterCR |-> token = CR]
    [] OTHER -> [s |-> [t.s EXCEPT !.rd.buffer = Append(t.s.rd.buffer, token)], afterCR |-> FALSE]

\* Mutant of scan: the rest of a chunk that is no whole line is dropped.
scanWhole(s, chunk) ==
  LET t[n \in 0..Len(chunk)] ==
        IF n = 0 THEN [s |-> s, afterCR |-> FALSE] ELSE scanToken(t[n - 1], chunk[n])
  IN [t[Len(chunk)].s EXCEPT !.rd.buffer = <<>>]

\* The for loop over a chunk.  An LF belongs to the CR before it only if both
\* came in one chunk.
scan(s, chunk) ==
  LET t[n \in 0..Len(chunk)] ==
        IF n = 0 THEN [s |-> s, afterCR |-> FALSE] ELSE scanToken(t[n - 1], chunk[n])
  IN t[Len(chunk)].s

\* reader.read returns the next n tokens.
Read(n) ==
  /\ ~returned /\ n \in 1..Len(pipe)
  /\ LET s == scan([rd |-> reader, r |-> response], SubSeq(pipe, 1, n))
     IN  reader' = s.rd /\ response' = s.r /\ returned' = s.r.done
  /\ pipe' = SubSeq(pipe, n + 1, Len(pipe))
  /\ UNCHANGED <<protocol, eol, twoLines, events, ended>>

\* reader.read returns the end: what is left over counts as a line and an event.
Flush ==
  /\ ~returned /\ ended # None /\ pipe = <<>>
  /\ LET line == processLine([rd |-> [reader EXCEPT !.buffer = <<>>], r |-> response], reader.buffer)
         s    == dispatch(IF reader.buffer = <<>> THEN [rd |-> reader, r |-> response] ELSE line)
     IN  reader' = s.rd /\ response' = s.r
  /\ returned' = TRUE
  /\ UNCHANGED <<protocol, eol, twoLines, events, pipe, ended>>

-----------------------------------------------------------------------------
StreamInit ==
  /\ protocol \in {"openai", "anthropic"} /\ eol \in LineEnds /\ twoLines \in BOOLEAN
  /\ events = <<>> /\ pipe = <<>> /\ ended = None
  /\ reader = [buffer |-> <<>>, dataLines |-> <<>>]
  /\ response = EmptyResponse /\ returned = FALSE

StreamNext ==
  \/ \E e \in IF protocol = "openai" THEN OpenAIEvents ELSE AnthropicEvents : Provide(e)
  \/ Close \/ Cut
  \/ \E n \in 1..Len(pipe) : Read(n)
  \/ Flush

StreamSpec == StreamInit /\ [][StreamNext]_streamVars

-----------------------------------------------------------------------------
\* What the first n events say, read off them as a whole.
Kind(n, i) ==
  IF protocol = "openai" THEN "tool_use"
  ELSE IF \E m \in 1..n : events[m].type = "start_text" /\ events[m].index = i THEN "text" ELSE "tool_use"

\* The events of them that add to the text, to the call i, that tell the usage.
OfText(n) ==
  {m \in 1..n : events[m].type = "text" \/ (events[m].type = "delta" /\ Kind(n, events[m].index) = "text")}
OfCall(n, i) == {m \in 1..n : events[m].index = i /\ events[m].type \in {"call", "delta"}}
OfType(n, type) == {m \in 1..n : events[m].type = type}

Latest(S) == IF S = {} THEN 0 ELSE CHOOSE m \in S : \A o \in S : o <= m

Meaning(n) ==
  LET begun == {i \in Index : \E m \in 1..n : events[m].index = i /\ Kind(n, i) = "tool_use"}
      order == InOrder(begun, LastIndex)
  IN  [text     |-> InOrder(OfText(n), n),
       thinking |-> InOrder(OfType(n, "thinking"), n),
       calls    |-> [c \in DOMAIN order |-> [id |-> order[c], args |-> InOrder(OfCall(n, order[c]), n)]],
       usage    |-> Latest(OfType(n, "usage"))]

Means(n) ==
  [text |-> response.text, thinking |-> response.thinking, calls |-> toolCalls(response),
   usage |-> response.usage] = Meaning(n)

\* The chunks in which an answer comes make no difference: what has been read
\* is at any time what some first events say, and when the call returns, what
\* all say (llm.ts:551: "Handles \r\n, \n, \r line endings and multi-line
\* data: field accumulation").  Of a connection that breaks it is what came.
\* Left out are two lines of data with CR LF: of a chunk that ends between the
\* two the LF is taken for an empty line, and the event ends there (llm.ts:599).
ReadAsSent ==
  ~(twoLines /\ eol = <<CR, LF>>) =>
    /\ \E n \in 0..Len(events) : Means(n)
    /\ returned /\ ended = "closed" => Means(Len(events))

=============================================================================
