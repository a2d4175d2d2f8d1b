------------------------------- MODULE Shell --------------------------------
(***************************************************************************)
(* The command line the model writes for its tool `run' (src/tools.ts,      *)
(* src/chain.ts): parseChain splits it at the operators, tokenize splits a *)
(* segment into words, Registry.exec runs the segments one after the other *)
(* and registerSingleClipCommand turns the words of a clip's command into   *)
(* the input of invokeClip.                                                *)
(*                                                                         *)
(* A character of the model is an operator, by its name in chain.ts, a      *)
(* blank ("SP"), a quote, a bracket, a backslash or a stretch of other text. *)
(* A line is given as it was meant: segments with a name, items (an option  *)
(* with its value, a flag, a plain word) and the operator after it; Written *)
(* says how the tool's description (tools.ts:235-252) tells the model to    *)
(* write it.                                                               *)
(***************************************************************************)
EXTENDS Integers, Sequences, FiniteSets, SequencesExt

CONSTANTS
  CommandLines, \* the lines the model may write
  Stdins,     \* texts it may give as stdin, <<>> among them
  Clips,      \* clips in scope that listClips returns
  Commands,   \* their commands: names of one or two words
  Outputs,    \* texts a clip may answer, <<>> among them
  Nothing

VARIABLES
  line,       \* what is being executed, as it was meant
  stdin,      \* the stdin given with it
  segments,   \* what parseChain makes of it
  position,   \* exec: index of the next segment
  lastOutput, lastErr, collected,
  calls,      \* history: what was called for which segment, and its outcome
  result      \* what exec has returned, or Nothing

shellVars == <<line, stdin, segments, position, lastOutput, lastErr, collected, calls, result>>

Operators == {"And", "Or", "Seq", "Pipe"}
Opening == {"{", "["}
Closing == {"}", "]"}
Quotes == {"DQ", "SQ"}

Blank(char) == char = "SP"

\* The quote that is open after one more character, or Nothing.
quoteOf(open, char) ==
  CASE open # Nothing /\ char # open -> open
    [] open = Nothing /\ char \in Quotes -> char
    [] OTHER -> Nothing

-----------------------------------------------------------------------------
(* How a line is written.                                                  *)

Escaped(text) ==
  FlattenSeq([n \in DOMAIN text |-> CASE text[n] = "newline" -> <<"\\", "n">>
                                      [] text[n] = "\\"      -> <<"\\", "\\">>
                                      [] OTHER -> <<text[n]>>])

\* A double quote in double quotes has a backslash before it.
Quoted(text) ==
  <<"DQ">> \o FlattenSeq([n \in DOMAIN text |-> IF text[n] = "DQ" THEN <<"\\", "DQ">> ELSE <<text[n]>>])
    \o <<"DQ">>

WrittenItem(item) ==
  CASE item.kind = "flag" -> <<"SP", item.key>>
    [] item.kind = "option" /\ item.word.form = "quoted" -> <<"SP", item.key, "SP">> \o Quoted(Escaped(item.word.text))
    [] item.kind = "option" /\ item.word.form # "quoted" -> <<"SP", item.key, "SP">> \o item.word.text
    [] item.kind = "plain" /\ item.word.form = "quoted" -> <<"SP">> \o Quoted(item.word.text)
    [] OTHER -> <<"SP">> \o item.word.text

WrittenSegment(segment) ==
  segment.name
    \o (IF segment.command = Nothing THEN <<>> ELSE <<"SP">> \o segment.command)
    \o FlattenSeq([i \in DOMAIN segment.items |-> WrittenItem(segment.items[i])])

WrittenOp(op) == IF op = Nothing THEN <<>> ELSE <<"SP", op, "SP">>

Written(meant) ==
  LET first[n \in 0..Len(meant)] ==
        IF n = 0 THEN <<>> ELSE first[n - 1] \o WrittenSegment(meant[n]) \o WrittenOp(meant[n].op)
  IN first[Len(meant)]

\* A text that is not blank, closes its quotes and has operators only in quotes.
OnePiece(text) ==
  LET open[n \in 0..Len(text)] == IF n = 0 THEN Nothing ELSE quoteOf(open[n - 1], text[n])
  IN  /\ open[Len(text)] = Nothing
      /\ \A n \in 1..Len(text) : text[n] \in Operators => open[n - 1] # Nothing
      /\ \E n \in 1..Len(text) : ~Blank(text[n])

\* A word with an escaped quote, as JSON has it for a quote in a string.
QuoteWithin(word) ==
  IF word.form = "JSON" THEN \E n \in 2..Len(word.text) : word.text[n - 1] = "\\" /\ word.text[n] = "DQ"
  ELSE word.form = "quoted" /\ "DQ" \in Range(word.text)

EscapesQuote(segment) ==
  \E n \in DOMAIN segment.items : segment.items[n].kind # "flag" /\ QuoteWithin(segment.items[n].word)

\* A line is meant as segments with operators between them.
WellMeant(meant) ==
  /\ Len(meant) \in Nat \ {0} /\ DOMAIN meant = 1..Len(meant)
  /\ \A n \in DOMAIN meant :
       /\ LET text == WrittenSegment(meant[n])
          IN  text \in Seq(Range(text)) /\ (~EscapesQuote(meant[n]) => OnePiece(text))
       /\ meant[n].op \in IF n < Len(meant) THEN Operators ELSE {Nothing}

ASSUME ShellAssumption ==
  /\ <<>> \in Stdins /\ Commands \subseteq Seq(STRING)
  /\ Nothing \notin Operators \cup Quotes
  /\ \A meant \in CommandLines : WellMeant(meant)

-----------------------------------------------------------------------------
(* parseChain.                                                             *)

trim(chars) ==
  LET kept == {i \in DOMAIN chars : ~Blank(chars[i])}
  IN  IF kept = {} THEN <<>> ELSE SubSeq(chars, Min(kept), Max(kept))

NoChars == [segments |-> <<>>, current |-> <<>>, quote |-> Nothing]

Split(s, op) ==
  [s EXCEPT !.segments = Append(s.segments, [raw |-> trim(s.current), op |-> op]), !.current = <<>>]

\* Mutant of parseChar: an operator in quotes splits the line.
parseCharUnquoted(s, char) ==
  IF char \in Operators THEN Split(s, char) ELSE [s EXCEPT !.current = Append(s.current, char)]

\* The next character of the line.
parseChar(s, char) ==
  IF s.quote = Nothing /\ char \in Operators THEN Split(s, char)
  ELSE [s EXCEPT !.current = Append(s.current, char), !.quote = quoteOf(s.quote, char)]

parseChars(s, chars) ==
  LET after[n \in 0..Len(chars)] == IF n = 0 THEN s ELSE parseChar(after[n - 1], chars[n])
  IN after[Len(chars)]

parseChain(chars) ==
  LET end == parseChars(NoChars, chars)
  IN  IF trim(end.current) = <<>> THEN end.segments ELSE Split(end, Nothing).segments

-----------------------------------------------------------------------------
(* tokenize.                                                               *)

Push(s) == [s EXCEPT !.tokens = Append(@, s.current), !.current = <<>>]
PushAny(s) == IF s.current = <<>> THEN s ELSE Push(s)
Collect(s, char) == [s EXCEPT !.current = Append(@, char)]

InQuote(s, char) ==
  CASE char # s.quote -> Collect(s, char)
    [] char = s.quote /\ s.depth > 0 -> [Collect(s, char) EXCEPT !.quote = Nothing]
    [] OTHER -> [Push(s) EXCEPT !.quote = Nothing]

InBraces(s, char) ==
  LET t == Collect(s, char) IN
  CASE char \in Quotes  -> [t EXCEPT !.quote = char]
    [] char \in Opening -> [t EXCEPT !.depth = @ + 1]
    [] char \in Closing -> IF s.depth = 1 THEN [Push(t) EXCEPT !.depth = 0] ELSE [t EXCEPT !.depth = @ - 1]
    [] OTHER -> t

tokenize(chars) ==
  LET step(s, char) ==
        CASE s.quote # Nothing -> InQuote(s, char)
          [] s.quote = Nothing /\ s.depth > 0 -> InBraces(s, char)
          [] s.quote = Nothing /\ s.depth = 0 /\ char \in Quotes  -> [s EXCEPT !.quote = char]
          [] s.quote = Nothing /\ s.depth = 0 /\ char \in Opening -> [PushAny(s) EXCEPT !.depth = 1, !.current = <<char>>]
          [] s.quote = Nothing /\ s.depth = 0 /\ Blank(char)      -> PushAny(s)
          [] OTHER -> Collect(s, char)
  IN  PushAny(FoldLeft(step, [tokens |-> <<>>, current |-> <<>>, quote |-> Nothing, depth |-> 0], chars)).tokens

-----------------------------------------------------------------------------
(* The command of a clip.  A key is written as one character, "--k".        *)

Keys == {"--k", "--l"}
Dashed == Keys \cup {"--help", "-5"}

unescapeString(chars) ==
  LET step(s, char) ==
        CASE s.escaped /\ char = "n"  -> [text |-> Append(s.text, "newline"), escaped |-> FALSE]
          [] s.escaped /\ char = "\\" -> [text |-> Append(s.text, "\\"), escaped |-> FALSE]
          [] s.escaped /\ char \notin {"n", "\\"} -> [text |-> s.text \o <<"\\", char>>, escaped |-> FALSE]
          [] ~s.escaped /\ char = "\\" -> [s EXCEPT !.escaped = TRUE]
          [] OTHER -> [s EXCEPT !.text = Append(@, char)]
      end == FoldLeft(step, [text |-> <<>>, escaped |-> FALSE], chars)
  IN  IF end.escaped THEN Append(end.text, "\\") ELSE end.text

parseScalar(chars) ==
  CASE chars \in {<<"true">>, <<"false">>} -> <<"boolean", chars>>
    [] chars \in {<<"5">>, <<"-5">>}       -> <<"number", chars>>
    [] chars # <<>> /\ chars[1] \in Opening /\ chars[Len(chars)] \in Closing -> <<"JSON", chars>>
    [] OTHER -> <<"string", unescapeString(chars)>>

\* Whether an argument is a key; "-5" is none, but no value either.
IsKey(arg) == arg # <<>> /\ arg[1] \in Dashed \ {"-5"}
IsValue(arg) == arg # <<>> /\ arg[1] \notin Dashed

\* The for loop of buildClipInvokeInput; a key given again replaces its value.
flagsOf(args) ==
  LET set(s, key, value) == [s EXCEPT !.flags = {f \in @ : f[1] # key} \cup {<<key, value>>}]
      step(s, i) ==
        CASE s.taken = i -> s
          [] s.taken # i /\ ~IsKey(args[i]) -> [s EXCEPT !.positionals = Append(@, args[i])]
          [] s.taken # i /\ IsKey(args[i]) /\ i < Len(args) /\ IsValue(args[i + 1]) ->
               [set(s, args[i][1], parseScalar(args[i + 1])) EXCEPT !.taken = i + 1]
          [] OTHER -> set(s, args[i][1], <<"boolean", <<"true">>>>)
  IN  FoldLeft(step, [flags |-> {}, positionals |-> <<>>, taken |-> 0], [i \in DOMAIN args |-> i])

JSONText(chars) == Len(chars) > 0 /\ (chars[1] \in Opening \cup {"true", "5"})

PlainInput(words, in) == [flags |-> {}, args |-> words, stdin |-> in, parsed |-> Nothing]

buildClipInvokeInput(args, in) ==
  LET s == flagsOf(args) IN
  CASE s.flags # {} -> [flags |-> s.flags, args |-> s.positionals, stdin |-> in, parsed |-> Nothing]
    [] s.flags = {} /\ JSONText(trim(in)) ->
         [flags |-> {}, args |-> <<>>, stdin |-> <<>>, parsed |-> parseScalar(trim(in))]
    [] OTHER -> PlainInput(s.positionals, in)

\* The command and the arguments left: a command of two words comes first.
commandOf(args) ==
  IF Len(args) > 1 /\ args[1] \o <<"SP">> \o args[2] \in Commands
  THEN <<args[1] \o <<"SP">> \o args[2], SubSeq(args, 3, Len(args))>>
  ELSE <<args[1], Tail(args)>>

Call(kind, name, command, input) == [kind |-> kind, name |-> name, command |-> command, input |-> input]

NoHandler == Call("none", Nothing, Nothing, Nothing)
Help(name, command) == Call("help", name, command, Nothing)
Echo(words) == Call("echo", <<"echo">>, Nothing, PlainInput(words, <<>>))

\* The handler of a clip's command line.
ClipCall(name, args, in) ==
  LET help(words) == \E n \in DOMAIN words : words[n] = <<"--help">> IN
  CASE args = <<>> -> Help(name, Nothing)
    [] args # <<>> /\ help(<<args[1]>>) -> Help(name, Nothing)
    [] args # <<>> /\ ~help(<<args[1]>>) /\ help(commandOf(args)[2]) -> Help(name, commandOf(args)[1])
    [] OTHER -> Call("clip", name, commandOf(args)[1], buildClipInvokeInput(commandOf(args)[2], in))

-----------------------------------------------------------------------------
(* Registry.exec.                                                          *)

\* execSingle: what a segment calls.
CallOf(words, in) ==
  CASE words # <<>> /\ words[1] = <<"echo">> -> Echo(Tail(words))
    [] words # <<>> /\ words[1] \in Clips    -> ClipCall(words[1], Tail(words), in)
    [] OTHER -> NoHandler

Joined(words) ==
  IF words = <<>> THEN <<>>
  ELSE FoldLeft(LAMBDA text, word : text \o <<"SP">> \o word, Head(words), Tail(words))

\* What it may return: a text and whether it is an error.
Outcomes(call, in) ==
  CASE call.kind = "none" -> {<<<<"[error]">>, TRUE>>}
    [] call.kind = "help" -> {<<<<"usage">>, FALSE>>}
    [] call.kind = "echo" -> {<<IF in # <<>> THEN in ELSE Joined(call.input.args), FALSE>>}
    [] OTHER -> (Outputs \X {FALSE}) \cup {<<<<"[error]">>, TRUE>>}

Skipped ==
  /\ position > 1
  /\ \/ segments[position - 1].op = "And" /\ lastErr
     \/ segments[position - 1].op = "Or" /\ ~lastErr

\* Mutant of segStdin: a command gets the last output whatever the operator.
segStdinAlways == IF position = 1 THEN stdin ELSE lastOutput

segStdin ==
  CASE position = 1 -> stdin
    [] position > 1 /\ segments[position - 1].op = "Pipe" -> lastOutput
    [] OTHER -> <<>>

\* The loop goes on to the next segment.
Skip ==
  /\ result = Nothing /\ position \in DOMAIN segments /\ Skipped
  /\ position' = position + 1
  /\ UNCHANGED <<line, stdin, segments, lastOutput, lastErr, collected, calls, result>>

\* The handler of the segment returns.
ExecSingle ==
  /\ result = Nothing /\ position \in DOMAIN segments /\ ~Skipped
  /\ LET call == CallOf(tokenize(segments[position].raw), segStdin) IN
     \E outcome \in Outcomes(call, segStdin) :
       /\ lastOutput' = outcome[1] /\ lastErr' = outcome[2]
       /\ collected' = IF outcome[1] = <<>> \/ (position < Len(segments) /\ segments[position].op = "Pipe") THEN collected
                       ELSE Append(collected, outcome[1])
       /\ calls' = Append(calls, [segment |-> position, call |-> call, stdin |-> segStdin,
                                  output |-> outcome[1], err |-> outcome[2]])
  /\ position' = position + 1
  /\ UNCHANGED <<line, stdin, segments, result>>

Return ==
  /\ result = Nothing /\ position \notin DOMAIN segments
  /\ result' = IF segments = <<>> THEN <<<<"[error]">>>> ELSE collected
  /\ UNCHANGED <<line, stdin, segments, position, lastOutput, lastErr, collected, calls>>

ShellInit ==
  /\ line \in CommandLines /\ stdin \in Stdins /\ segments = parseChain(Written(line))
  /\ position = 1 /\ lastOutput = <<>> /\ lastErr = FALSE
  /\ collected = <<>> /\ calls = <<>> /\ result = Nothing

ShellNext == Skip \/ ExecSingle \/ Return

ShellSpec == ShellInit /\ [][ShellNext]_shellVars

-----------------------------------------------------------------------------
(* What the line was meant to do.                                          *)

MeantValue(word) ==
  CASE word.form = "JSON"   -> <<"JSON", word.text>>
    [] word.form = "quoted" -> <<"string", word.text>>
    [] OTHER -> parseScalar(word.text)

Words(items, kind) == LET of == SelectSeq(items, LAMBDA item : item.kind = kind)
                      IN  [n \in DOMAIN of |-> of[n].word.text]

MeantInput(items, in) ==
  LET Of(kind) == {n \in DOMAIN items : items[n].kind = kind}
      flags == {<<items[n].key, MeantValue(items[n].word)>> : n \in Of("option")}
                 \cup {<<items[n].key, <<"boolean", <<"true">>>>>> : n \in Of("flag")}
      json  == flags = {} /\ JSONText(trim(in))
  IN  [flags |-> flags, args |-> IF json THEN <<>> ELSE Words(items, "plain"),
       stdin |-> IF json THEN <<>> ELSE in, parsed |-> IF json THEN parseScalar(trim(in)) ELSE Nothing]

Meant(segment, in) ==
  CASE segment.name = <<"echo">> -> Echo(Words(segment.items, "plain"))
    [] segment.name \in Clips    -> Call("clip", segment.name, segment.command, MeantInput(segment.items, in))
    [] OTHER -> NoHandler

\* Lines with an escaped quote are not read as they are meant: parseChain and
\* tokenize take the quote for the end of the text (chain.ts:22-33,
\* tools.ts:165-180), although the description asks for JSON (tools.ts:242).
NoEscapedQuote == \A n \in DOMAIN line : ~EscapesQuote(line[n])

\* What buildClipInvokeInput does not read as it is written: a value that
\* begins with a dash or is empty counts as no value, a text in quotes that
\* looks like a number as a number, a word after a flag as its value, and
\* words get lost when stdin is JSON and there is no option.
Misread(segment, in) ==
  LET items == segment.items IN
  \/ \E n \in DOMAIN items :
       /\ items[n].kind = "option"
       /\ \/ ~IsValue(items[n].word.text)
          \/ items[n].word.form = "quoted" /\ parseScalar(items[n].word.text)[1] # "string"
  \/ \E n \in DOMAIN items :
       /\ items[n].kind = "plain"
       /\ \/ IsKey(items[n].word.text)
          \/ n > 1 /\ items[n - 1].kind = "flag"
  \/ \E n \in DOMAIN items : items[n].kind = "plain" /\ JSONText(trim(in))

\* Every handler gets what was written for it: operators, blanks, quotes and
\* brackets in quotes or JSON do not split the line or the words, and the
\* options of a clip arrive with their values in the type of the tool's
\* description (tools.ts:238-247).  Excepted are a segment with an escaped quote and
\* those after it, and what Misread names.
CalledAsWritten ==
  \A n \in DOMAIN calls : (\E m \in DOMAIN line : m <= calls[n].segment /\ EscapesQuote(line[m])) \/
    /\ calls[n].segment \in DOMAIN line
    /\ LET segment == line[calls[n].segment]
       IN  ~Misread(segment, calls[n].stdin) => calls[n].call = Meant(segment, calls[n].stdin)

\* Commands joined by | belong together.
Heads == {n \in DOMAIN line : n = 1 \/ line[n - 1].op # "Pipe"}
Ran(n) == \E c \in DOMAIN calls : calls[c].segment = n
CallIn(n) == CHOOSE c \in DOMAIN calls : calls[c].segment = n

\* A pipeline runs whole or not at all (docs/commands.md:73: "cmd1 | cmd2 #
\* pipe: cmd1's output -> cmd2's stdin").
PipelinesWhole == \A n \in DOMAIN line \ Heads : Ran(n) => Ran(n - 1)

\* What a segment adds to the results: the output of a pipeline's end.
WithResult(before, n) ==
  IF Ran(n) /\ line[n].op # "Pipe" /\ calls[CallIn(n)].output # <<>>
  THEN Append(before, calls[CallIn(n)].output) ELSE before

Results(n) ==
  LET first[m \in 0..n] == IF m = 0 THEN <<>> ELSE WithResult(first[m - 1], m)
  IN first[n]

\* The line does what a shell would do: && and || look at the last command
\* that ran, a | hands on the output, the results are those of the pipelines'
\* ends.  Lines where && or || skips the head of a pipeline are left out, and lines
\* with an escaped quote.
ChainAsShell ==
  result # Nothing /\ NoEscapedQuote /\ PipelinesWhole =>
    /\ \A n \in Heads \ {1} :
         LET before == Max({m \in 1..(n - 1) : Ran(m)})
             failed == calls[CallIn(before)].err
         IN  Ran(n) <=> CASE line[n - 1].op = "And" -> ~failed
                          [] line[n - 1].op = "Or" -> failed
                          [] OTHER -> TRUE
    /\ \A n \in DOMAIN line : Ran(n) =>
         calls[CallIn(n)].stdin = IF n = 1 THEN stdin
                                  ELSE IF n \in Heads THEN <<>> ELSE calls[CallIn(n - 1)].output
    /\ result = Results(Len(line))

=============================================================================
