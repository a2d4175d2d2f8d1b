-------------------------------- MODULE MCText ------------------------------
(***************************************************************************)
(* What the program reads and hands on: the answer of the LLM (Stream), the *)
(* command line in it (Shell), the user's message and its pictures (Files), *)
(* the time of the day of an event (Calendar).  The four have no state in   *)
(* common; a behaviour runs one of them.                                    *)
(***************************************************************************)
EXTENDS Stream, Shell, Files, Calendar

VARIABLE part   \* the one that runs

Only(chosen) == part = chosen /\ part' = part

Init ==
  /\ part \in {"stream", "shell", "files", "calendar"}
  /\ part # "stream" => protocol = "openai" /\ eol = <<LF>> /\ twoLines = FALSE
  /\ part # "shell" => line = (CHOOSE l \in CommandLines : TRUE) /\ stdin = <<>>
  /\ part # "calendar" => now = Day /\ time = 0 /\ zone = (CHOOSE z \in Zones : TRUE)
  /\ StreamInit /\ ShellInit /\ FilesInit /\ CalendarInit

Next ==
  \/ Only("stream") /\ StreamNext /\ UNCHANGED <<shellVars, filesVars, calendarVars>>
  \/ Only("shell") /\ ShellNext /\ UNCHANGED <<streamVars, filesVars, calendarVars>>
  \/ Only("files") /\ FilesNext /\ UNCHANGED <<streamVars, shellVars, calendarVars>>
  \/ Only("calendar") /\ CalendarNext /\ UNCHANGED <<streamVars, shellVars, filesVars>>

Spec == Init /\ [][Next]_<<part, streamVars, shellVars, filesVars, calendarVars>>

Word(form, text) == [form |-> form, text |-> text]
Option(key, word) == [kind |-> "option", key |-> key, word |-> word]
Flag(key) == [kind |-> "flag", key |-> key]
Plain(word) == [kind |-> "plain", word |-> word]
Seg(name, command, items, op) == [name |-> name, command |-> command, items |-> items, op |-> op]

SomeWords ==
  {Word("bare", <<c>>) : c \in {"x", "5", "-5", "true"}}
    \cup {Word("quoted", t) : t \in {<<>>, <<"5">>, <<"-5", "SP", "x">>, <<"x", "SP", "Seq", "SP", "{">>,
                                     <<"SQ", "Pipe", "x">>, <<"\\", "n", "newline", "x">>}}
    \cup {Word("JSON", <<"{", "DQ", "Seq", "}", "DQ", "SP", "[", "5", "]", "}">>),
          Word("JSON", <<"{", "DQ", "x", "\\", "DQ", "SP", "Seq", "SP", "x", "\\", "DQ", "DQ", "}">>),
          Word("quoted", <<"x", "SP", "DQ", "Pipe", "DQ">>)}

FirstItems == {Option("--k", w) : w \in SomeWords} \cup {Plain(w) : w \in SomeWords} \cup {Flag("--k")}
SecondItems == {Option("--l", w) : w \in {Word("bare", <<"x">>), Word("quoted", <<"x", "SP", "And">>)}}
                 \cup {Plain(Word("bare", <<"x">>)), Plain(Word("JSON", <<"[", "x", "SP", "x", "]">>)), Flag("--l")}

MCCommands == {<<"get">>, <<"schema">>, <<"schema", "SP", "list">>}

\* One command, with every pair of items, and another after it.
Forms ==
  {<<Seg(<<"clip">>, c, i, "Seq"), Seg(<<"echo">>, Nothing, <<Plain(Word("bare", <<"x">>))>>, Nothing)>> :
     c \in MCCommands, i \in {<<>>} \cup {<<f>> : f \in FirstItems} \cup {<<f, s>> : f \in FirstItems, s \in SecondItems}}
    \cup {<<Seg(<<"echo">>, Nothing, <<Plain(w)>>, Nothing)>> : w \in SomeWords}
    \cup {<<Seg(<<"clip">>, c, <<Plain(Word("bare", <<"--help">>))>>, Nothing)>> : c \in MCCommands}

\* Chains of short commands.
Short == {<<<<"clip">>, <<"get">>, <<>>>>, <<<<"nope">>, Nothing, <<>>>>,
          <<<<"echo">>, Nothing, <<Plain(Word("quoted", <<"x", "Or">>))>>>>}

Chains ==
  {[n \in 1..3 |-> Seg(c[n][1], c[n][2], c[n][3], IF n < 3 THEN o[n] ELSE Nothing)] :
     c \in [1..3 -> Short], o \in [1..2 -> Operators]}
    \cup {[n \in 1..4 |-> Seg(<<"clip">>, <<"get">>, <<>>, IF n < 4 THEN o[n] ELSE Nothing)] :
            o \in [1..3 -> Operators]}

MCCommandLines == Forms \cup Chains
MCStdins == {<<>>, <<"x">>, <<"SP", "{", "5", "}">>}
MCClips == {<<"clip">>}
MCOutputs == {<<>>, <<"y">>}

Picture(name, ext, type, bytes) == [name |-> name, ext |-> ext, type |-> type, bytes |-> bytes]

\* Two pictures of one name, one with a number in brackets, a text.
MCPictures ==
  {Picture(<<"a">>, <<".png">>, "image", "A"), Picture(<<"a">>, <<".png">>, "image", "B"),
   Picture(<<"a", " (", "1", ")">>, <<".png">>, "image", "C"), Picture(<<"a">>, <<".txt">>, "text", "D")}

MCMessageTexts == {<<" ", "w", NL, "- ", "w", " (">>, <<"-p">>}
MCTopicNames == {<<"t">>, <<"u">>}

\* The directory of one topic is there, that of the other is to be made.
MCFirstDisk == [p \in {<<>>, <<<<"data">>>>, TopicsRoot, topicDir(<<"t">>)} |-> Dir]

\* Zones west and east of Greenwich and on it, put forward or back by one unit
\* or two.
MCZones ==
  {z \in [before : {-2, 0, 2}, after : {-2, -1, 1, 2}, at : (2 * Day)..(3 * Day)] :
     <<z.before, z.after>> \in {<<-2, -1>>, <<0, 2>>, <<0, -2>>, <<2, 1>>}}
=============================================================================
