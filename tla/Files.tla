------------------------------- MODULE Files --------------------------------
(***************************************************************************)
(* The files of a topic.  The user composes a message with pictures         *)
(* (ui/src/components/ChatComposer.tsx, ui/src/lib/useChat.ts); they are    *)
(* uploaded (src/upload.ts), named in the message (src/args.ts,             *)
(* src/commands.ts, src/context.ts), and found in it again when the topic   *)
(* is loaded (src/sanitize.ts, src/tools.ts).  Runs of several topics work  *)
(* in one process; each asks src/fs.ts for its topic, over its awaits.      *)
(*                                                                         *)
(* A text is a sequence of tokens: a word, a blank, a line end, a tag.  A   *)
(* name of a file or a directory is one too; a path is a sequence of names. *)
(***************************************************************************)
EXTENDS Integers, Sequences, FiniteSets, TLC, SequencesExt

CONSTANTS
  TopicNames,   \* topics, by the names of their directories
  Pictures,     \* files the user may choose: name, ext, type, bytes
  MaxPictures,  \* bound: pictures in the one message that has any
  MessageTexts, \* what the user may type
  FirstDisk,    \* the files there are
  MaxMillis,    \* bound: the clock that names uploads
  NoFile

ASSUME FilesAssumption ==
  /\ TopicNames \subseteq Seq(STRING) /\ MessageTexts \subseteq Seq(STRING)
  /\ MaxPictures \in Nat /\ MaxMillis \in Nat
  /\ DOMAIN FirstDisk \subseteq Seq(Seq(STRING))

VARIABLES
  disk,      \* path -> "dir" or bytes
  fallbackTopicID,  \* the topic of the process, for commands that name none
  sending,   \* a message whose pictures are being uploaded: draft, paths; or NoFile
  runs,      \* topic -> its run: stage, the message it was given, its pictures
  rows,      \* topic -> the message as it was saved
  millis,
  drafts,    \* history: topic -> the message composed for it (bound: one)
  rewritten  \* history: paths written when there was a file

filesVars == <<disk, fallbackTopicID, sending, runs, rows, millis, drafts, rewritten>>

NL == "\n"
Spaces == {" ", NL}
Dir == "dir"

-----------------------------------------------------------------------------
(* Paths.                                                                  *)

TopicsRoot == <<<<"data">>, <<"topics">>>>
topicDir(t) == Append(TopicsRoot, t)

\* Mutant of getCurrentTopic: the variable of the process, whichever run set it.
theTopicOfTheProcess(t) == fallbackTopicID

\* getCurrentTopic in the context of a run of topic t: withCurrentTopic keeps
\* the topic over every await.
getCurrentTopic(t) == t

\* resolvePath of the name of an upload, which is one name and no way out.
resolvePath(t, name) == Append(topicDir(getCurrentTopic(t)), name)

ImageExts == {".png", ".jpg"}
isImageFile(name) == name # <<>> /\ Last(name) \in ImageExts

-----------------------------------------------------------------------------
(* The file system.                                                        *)

\* A function with one value more, or another one.
With(f, x, value) == [y \in DOMAIN f \cup {x} |-> IF y = x THEN value ELSE f[y]]

IsFile(d, p) == p \in DOMAIN d /\ d[p] # Dir
IsDir(d, p) == p \in DOMAIN d /\ d[p] = Dir

\* mkdirSync with recursive: nothing if a file is in the way.
MakeDirs(d, p) ==
  IF \E q \in Prefixes(p) : IsFile(d, q) THEN d
  ELSE [q \in Prefixes(p) \cup DOMAIN d |-> IF q \in Prefixes(p) THEN Dir ELSE d[q]]

WriteFile(d, p, bytes) == IF IsDir(d, Front(p)) /\ ~IsDir(d, p) THEN With(d, p, bytes) ELSE d

-----------------------------------------------------------------------------
(* The composer.                                                           *)

Trim(text) ==
  LET kept == {n \in 1..Len(text) : text[n] \notin Spaces}
  IN IF kept = {} THEN <<>> ELSE SubSeq(text, Min(kept), Max(kept))

\* addFiles: files chosen, pasted or dropped; those that are no pictures are left out.
addFiles(files) == SelectSeq(files, LAMBDA file : file.type = "image")

\* What the user does up to handleSend, and send of useChat up
\* to the uploads, in the topic that is open.
Compose ==
  /\ sending = NoFile
  /\ \E typed \in MessageTexts, chosen \in BoundedSeq(Pictures, MaxPictures), t \in TopicNames \ DOMAIN drafts :
       LET text == Trim(typed)
           files == addFiles(chosen)
       IN /\ text # <<>> \/ files # <<>>
          /\ \A u \in DOMAIN drafts : drafts[u].files = <<>> \/ files = <<>>
          /\ sending' = [topic |-> t, text |-> IF text = <<>> THEN <<"(image)">> ELSE text,
                         files |-> files, paths |-> [n \in 1..Len(files) |-> NoFile]]
  /\ drafts' = With(drafts, sending'.topic, sending')
  /\ UNCHANGED <<disk, fallbackTopicID, runs, rows, millis, rewritten>>

-----------------------------------------------------------------------------
(* Uploads.                                                                *)

\* uniqueUploadName: the time in front of the extension.
uniqueUploadName(file) == file.name \o <<"-", ToString(millis)>> \o file.ext

\* uploadFile.  The requests are made together and served in any order.
uploadFile ==
  /\ sending # NoFile
  /\ \E n \in {k \in 1..Len(sending.files) : sending.paths[k] = NoFile} :
       LET filename == uniqueUploadName(sending.files[n])
           dir == topicDir(sending.topic)
           path == Append(dir, filename)
       IN /\ IsDir(MakeDirs(disk, dir), dir) /\ ~IsDir(disk, path)
          /\ disk' = WriteFile(MakeDirs(disk, dir), path, sending.files[n].bytes)
          /\ rewritten' = rewritten \cup ({path} \cap DOMAIN disk)
          /\ sending' = [sending EXCEPT !.paths[n] = filename]
  /\ UNCHANGED <<fallbackTopicID, runs, rows, millis, drafts>>

\* An upload fails: an error in place of the answer, and nothing is sent; what
\* has been uploaded stays.
UploadFails ==
  /\ sending # NoFile /\ \E n \in DOMAIN sending.paths : sending.paths[n] = NoFile
  /\ sending' = NoFile
  /\ UNCHANGED <<disk, fallbackTopicID, runs, rows, millis, drafts, rewritten>>

-----------------------------------------------------------------------------
(* The request and what is made of it.                                     *)

\* send of agent.ts: with attachments the request is JSON in stdin.  Promise.all
\* keeps the order of the files.
Request(m) ==
  IF m.files = <<>>
  THEN [args |-> <<<<"-p">>, m.text, <<"--output">>, <<"jsonl">>, <<"-t">>, m.topic>>, stdin |-> NoFile]
  ELSE [args |-> <<<<"--output">>, <<"jsonl">>>>,
        stdin |-> [message |-> m.text, topic_id |-> m.topic, attachments |-> m.paths]]

\* The options with a value.
Options == {<<"-p">>, <<"-t">>, <<"-r">>, <<"-a">>, <<"-c">>}

\* The loop over the arguments: the value of an option is skipped; the last one counts.
ValueOf(args, option, default) ==
  LET opens[k \in 0..Len(args)] == k > 0 /\ args[k] \in Options /\ ~opens[k - 1]
      found == {k \in 1..Len(args) : opens[k] /\ args[k] = option}
  IN IF found = {} \/ Max(found) = Len(args) THEN default ELSE args[Max(found) + 1]

\* resolveSendInput: stdin is looked at if there is no message.
resolveSendInput(r) ==
  LET message == ValueOf(r.args, <<"-p">>, <<>>)
      topicId == ValueOf(r.args, <<"-t">>, <<>>)
      json == message = <<>> /\ r.stdin # NoFile
  IN [message |-> IF json THEN r.stdin.message ELSE message,
      topicId |-> IF json /\ topicId = <<>> THEN r.stdin.topic_id ELSE topicId,
      attachments |-> IF json THEN r.stdin.attachments ELSE <<>>]

\* handleSend and executeRunLoop up to its await: attachments are named below
\* the message, with their size if they are there.
appendAttachments(t, message, attachments) ==
  IF attachments = <<>> THEN message
  ELSE message \o <<NL, NL, "<attachments>", NL>>
         \o FlattenSeq([n \in 1..Len(attachments) |->
              <<"- ">> \o attachments[n]
                \o (IF resolvePath(t, attachments[n]) \in DOMAIN disk THEN <<" (", "size", ")">> ELSE <<>>)
                \o (IF isImageFile(attachments[n]) THEN <<" (", "visible", ")">> ELSE <<>>) \o <<NL>>])
         \o <<"</attachments>">>

\* wrapUserMessage; the environment always has the time.
wrapUserMessage(message) == <<"<user>", NL>> \o message \o <<NL, "</user>", NL, NL, "<environment>", "time", "</environment>">>

\* send of agent.ts and handleSend.
Send ==
  /\ sending # NoFile /\ \A n \in DOMAIN sending.paths : sending.paths[n] # NoFile
  /\ LET resolved == resolveSendInput(Request(sending))
         t == resolved.topicId
     IN /\ resolved.message # <<>> /\ t \in TopicNames \ DOMAIN runs
        /\ fallbackTopicID' = t
        /\ disk' = MakeDirs(disk, topicDir(t))
        /\ runs' = With(runs, t, [stage |-> "building", attachments |-> resolved.attachments, images |-> <<>>,
                                   message |-> wrapUserMessage(appendAttachments(t, resolved.message, resolved.attachments))])
  /\ drafts' = With(drafts, sending.topic, sending)
  /\ sending' = NoFile
  /\ UNCHANGED <<rows, millis, rewritten>>

\* readImageAttachments, when buildContext has returned; what cannot be read is left out.
ContextReady ==
  \E t \in DOMAIN runs :
    /\ runs[t].stage = "building"
    /\ LET readable == SelectSeq(runs[t].attachments, LAMBDA a : isImageFile(a) /\ IsFile(disk, resolvePath(t, a)))
       IN runs' = [runs EXCEPT ![t].stage = "working",
                              ![t].images = [n \in 1..Len(readable) |-> disk[resolvePath(t, readable[n])]]]
    /\ UNCHANGED <<disk, fallbackTopicID, sending, rows, millis, drafts, rewritten>>

\* The loop returns, and the messages are saved.
Saved ==
  \E t \in DOMAIN runs :
    /\ runs[t].stage = "working"
    /\ runs' = [runs EXCEPT ![t].stage = "over"]
    /\ rows' = With(rows, t, runs[t].message)
    /\ UNCHANGED <<disk, fallbackTopicID, sending, millis, drafts, rewritten>>

\* The clock: uploads alone look at it.
ClockTicks ==
  /\ sending # NoFile /\ NoFile \in Range(sending.paths)
  /\ millis < MaxMillis /\ millis' = millis + 1
  /\ UNCHANGED <<disk, fallbackTopicID, sending, runs, rows, drafts, rewritten>>

-----------------------------------------------------------------------------
(* The message when the topic is loaded.                                   *)

IndexOf(text, token) == SelectInSeq(text, LAMBDA c : c = token)

\* What is between two tags, if they are in this order.
HasTags(text, open, close) == IndexOf(text, open) > 0 /\ IndexOf(text, close) > IndexOf(text, open)
Between(text, open, close) == SubSeq(text, IndexOf(text, open) + 1, IndexOf(text, close) - 1)

LinesOf(text) ==
  LET ends == {n \in 1..Len(text) : text[n] = NL} \cup {Len(text) + 1}
      Start(n) == Max({0} \cup {k \in ends : k < n}) + 1
  IN [i \in 1..Cardinality(ends) |->
        LET n == CHOOSE k \in ends : Cardinality({j \in ends : j < k}) = i - 1 IN SubSeq(text, Start(n), n - 1)]

\* extractAttachments: the lines of a list; a name ends before the first " (".
Entry(item) ==
  LET info == IndexOf(item, " (") IN IF info > 1 THEN Trim(SubSeq(item, 1, info - 1)) ELSE item

extractAttachments(text) ==
  IF ~HasTags(text, "<attachments>", "</attachments>") THEN <<>>
  ELSE LET lines == LinesOf(Between(text, "<attachments>", "</attachments>"))
           items == SelectSeq([n \in DOMAIN lines |-> Trim(lines[n])], LAMBDA l : l # <<>> /\ Head(l) = "- ")
       IN SelectSeq([n \in DOMAIN items |-> Entry(Trim(Tail(items[n])))], LAMBDA e : e # <<>>)

\* extractUserContent.
userText(content) == IF HasTags(content, "<user>", "</user>") THEN Trim(Between(content, "<user>", "</user>")) ELSE content

extractUserContent(content) ==
  LET text == userText(content)
      from == IndexOf(text, "<attachments>")
      to == IndexOf(text, "</attachments>")
  IN [text |-> IF from > 0 /\ to > from THEN Trim(SubSeq(text, 1, from - 1) \o SubSeq(text, to + 1, Len(text))) ELSE text,
      attachments |-> extractAttachments(text)]

\* toWebMessage and historyToChatMessages: pictures, by their URL, and the text.
Shown(t) ==
  LET extracted == extractUserContent(rows[t])
      pictures == SelectSeq(extracted.attachments, isImageFile)
  IN [text |-> extracted.text,
      pictures |-> [n \in DOMAIN pictures |-> Append(topicDir(t), pictures[n])]]

-----------------------------------------------------------------------------
FilesInit ==
  /\ disk = FirstDisk /\ fallbackTopicID = <<>>
  /\ sending = NoFile
  /\ runs = <<>> /\ rows = <<>> /\ drafts = <<>>
  /\ millis = 0 /\ rewritten = {}

FilesNext ==
  Compose \/ uploadFile \/ UploadFails \/ Send \/ ContextReady \/ Saved \/ ClockTicks

FilesSpec == FilesInit /\ [][FilesNext]_filesVars

-----------------------------------------------------------------------------
(* Properties.                                                             *)

\* What the user finds in a topic that is loaded is what was sent: the text
\* without the blanks around it and the pictures, each the one that was chosen
\* and in the order in which they were chosen, in whatever order the uploads
\* were served; and the LLM was shown the same pictures, those of this topic,
\* whatever run of another topic the process has begun while the context of this
\* one was built (commands.ts:380-388, fs.ts:12-26).  Left out are files that were
\* written over (two of one name in a millisecond), and pictures whose name has no
\* extension of a picture; the name of a file that contains " (" is cut
\* there, and the picture is lost to the user (sanitize.ts:18).
SentAsComposed ==
  \A t \in DOMAIN rows :
    LET m == drafts[t]
        Bytes(p) == IF p \in DOMAIN disk THEN disk[p] ELSE NoFile
        whole == [n \in DOMAIN m.files |-> [file |-> m.files[n], path |-> Append(topicDir(t), m.paths[n])]]
        visible == SelectSeq(whole, LAMBDA w : isImageFile(w.file.name \o w.file.ext))
        findable == SelectSeq(visible, LAMBDA w : " (" \notin Range(w.file.name))
        shown == Shown(t)
    IN /\ shown.text = m.text
       /\ Len(shown.pictures) = Len(findable)
       /\ \A n \in DOMAIN findable :
            findable[n].path \notin rewritten => Bytes(shown.pictures[n]) = findable[n].file.bytes
       /\ (\A n \in DOMAIN visible : visible[n].path \notin rewritten) =>
            runs[t].images = [n \in DOMAIN visible |-> visible[n].file.bytes]
=============================================================================
