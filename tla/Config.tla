------------------------------- MODULE Config -------------------------------
(***************************************************************************)
(* The configuration file and those who change it: the command "config"     *)
(* (src/handlers/config.ts, src/tools.ts, src/commands.ts), the settings    *)
(* panel and the setup page of the user interface, and a run that pins      *)
(* clips.  The file is a YAML tree (src/config.ts); a write reads it whole  *)
(* and puts it back.                                                        *)
(***************************************************************************)
EXTENDS Integers, FiniteSets, SequencesExt

CONSTANTS
  Providers,  \* names of providers; some are presets of the setup page
  Presets,
  Clips,      \* clips a run may pin
  Numerals,   \* bound: the numerals of items of sequences, "0" first
  Keys,       \* keys that the command "config" is given, as lists of parts
  Seed,       \* the tree of seed/config.yaml
  FirstTrees, \* trees the file may have at first
  Handlers,   \* bound: handlers of the settings panel that are at work at a time
  MaxWrites   \* bound: commands, pins and openings and handlers of the user interface

-----------------------------------------------------------------------------
(* Trees: a function of paths, which are lists of parts.                   *)

Inner == {"map", "seq"}
Path == Seq(STRING)

Under(d, p) == {q \in DOMAIN d : IsPrefix(p, q)}
Children(d, p) == {q \in DOMAIN d : Len(q) = Len(p) + 1 /\ IsPrefix(p, q)}
Item(p, n) == Append(p, Numerals[n + 1])   \* item n of the sequence at p, from 0

\* The root is a map (ensureRootMap), and the items of a sequence are numbered
\* from 0 on.
IsTree(d) ==
  /\ d \in [DOMAIN d -> STRING] /\ DOMAIN d \subseteq Path
  /\ <<>> \in DOMAIN d /\ d[<<>>] = "map"
  /\ \A p \in DOMAIN d : d[p] = "seq" =>
       \E size \in 0..Len(Numerals) : Children(d, p) = {Item(p, n) : n \in 0..(size - 1)}

\* What is not the root is in a map or in a sequence.
Rooted(d) ==
  \A q \in DOMAIN d \ {<<>>} : SubSeq(q, 1, Len(q) - 1) \in DOMAIN d /\ d[SubSeq(q, 1, Len(q) - 1)] \in Inner

Literals ==
  Inner \cup {"", "x", "name", "llm_provider", "llm_model", "pinned", "providers", "base_url", "api_key", "protocol"}

\* A key has a part at least, a clip a name; a text is not taken for a map or a
\* sequence.  That literals are strings is said for the provers.
ASSUME ConfigAssumption ==
  /\ Literals \subseteq STRING
  /\ Presets \subseteq Providers /\ MaxWrites \in Nat
  /\ Keys \subseteq Path \ {<<>>}
  /\ Providers \cup Clips \subseteq STRING \ {"map", "seq"} /\ "" \notin Clips
  /\ Numerals \in Path \ {<<>>} /\ \A m, n \in 1..Len(Numerals) : Numerals[m] = Numerals[n] => m = n
  /\ Range(Numerals) \cap Literals = {}
  /\ \A tree \in FirstTrees \cup {Seed} : IsTree(tree) /\ Rooted(tree)

VARIABLES
  doc,     \* the tree: path -> "map", "seq" or the text of a scalar
  last,    \* history: the last write: what was asked for
  writes,
  panel,   \* the settings panel: open, shown, loaded, error; history: whose answer
           \* is the newest; late: the one that was taken last was not
  handlers, \* the panel's handlers: what each has to ask for, and its answers
  page,    \* the page of the user interface: setup or chat
  setup,   \* the setup page: todo, busy; done: it has completed
  run,     \* a run without an agent: its pinned clips, or none
  alone    \* history: who is undisturbed: nobody else has written the file since

configVars == <<doc, last, writes, panel, handlers, page, setup, run, alone>>

-----------------------------------------------------------------------------
(* Writing a tree.                                                         *)

IsNumeric(part) == part \in Range(Numerals)

Put(d, p, node) ==
  [q \in (DOMAIN d \ Under(d, p)) \cup {p} |-> IF q = p THEN node ELSE d[q]]

\* The items of the sequence at p up to a numeral, which may not be there yet.
Fill(d, p, numeral) ==
  LET upTo    == CHOOSE n \in 1..Len(Numerals) : Numerals[n] = numeral
      missing == {Item(p, n) : n \in Cardinality(Children(d, p))..(upTo - 1)}
  IN  [q \in DOMAIN d \cup missing |-> IF q \in missing THEN "map" ELSE d[q]]

\* Mutant of Into: the map on the way is made anew.
IntoAnew(w, part, next) ==
  [doc |-> Put(w.doc, Append(w.at, part), IF IsNumeric(next) THEN "seq" ELSE "map"), at |-> Append(w.at, part)]

\* One part of the way: what is not a map or a sequence is replaced, except in a
\* sequence; a part that a sequence cannot take is passed over.
Into(w, part, next) ==
  LET child  == Append(w.at, part)
      passes == child \in DOMAIN w.doc /\ w.doc[child] \in Inner
  IN  CASE w.doc[w.at] = "seq" /\ IsNumeric(part) -> [doc |-> Fill(w.doc, w.at, part), at |-> child]
        [] w.doc[w.at] = "map" /\ passes -> [doc |-> w.doc, at |-> child]
        [] w.doc[w.at] = "map" /\ ~passes ->
             [doc |-> Put(w.doc, child, IF IsNumeric(next) THEN "seq" ELSE "map"), at |-> child]
        [] OTHER -> w

\* The way to a key: the tree and the place in it after n parts.
Way(d, parts) ==
  LET way[n \in 0..Len(parts) - 1] ==
        IF n = 0 THEN [doc |-> d, at |-> <<>>] ELSE Into(way[n - 1], parts[n], parts[n + 1])
  IN  way

setPath(d, parts, value) ==
  LET end   == Way(d, parts)[Len(parts) - 1]
      child == Append(end.at, parts[Len(parts)])
  IN  CASE end.doc[end.at] = "seq" /\ IsNumeric(parts[Len(parts)]) ->
             Put(Fill(end.doc, end.at, parts[Len(parts)]), child, value)
        [] end.doc[end.at] = "map" -> Put(end.doc, child, value)
        [] OTHER -> end.doc

\* deletePath goes through maps only.
CanDelete(d, parts) ==
  /\ parts \in DOMAIN d
  /\ \A n \in 0..Len(parts) - 1 : d[SubSeq(parts, 1, n)] = "map"

deletePath(d, parts) == [q \in DOMAIN d \ Under(d, parts) |-> d[q]]

\* A sequence without its item n: the items after it move up.
RemoveItem(d, p, n) ==
  LET size  == Cardinality(Children(d, p))
      stay  == {q \in DOMAIN d : \A k \in n..(size - 1) : ~IsPrefix(Item(p, k), q)}
      after == UNION {Under(d, Item(p, k)) : k \in (n + 1)..(size - 1)}
      up(q) == [q EXCEPT ![Len(p) + 1] = Numerals[(CHOOSE k \in (n + 1)..(size - 1) : IsPrefix(Item(p, k), q))]]
  IN  [q \in stay \cup {up(r) : r \in after} |->
         IF q \in stay THEN d[q] ELSE d[CHOOSE r \in after : up(r) = q]]

-----------------------------------------------------------------------------
(* What loadConfig reads of it.                                            *)

asString(d, p) == IF p \in DOMAIN d /\ d[p] \notin Inner THEN d[p] ELSE ""

normalizeProviders(d) ==
  {p \in Providers : <<"providers", p>> \in DOMAIN d /\ d[<<"providers", p>>] \in Inner}

\* The texts of a list that are not empty.
NonEmpty(items) ==
  LET texts[n \in 0..Len(items)] ==
        IF n = 0 THEN <<>> ELSE IF items[n] = "" THEN texts[n - 1] ELSE Append(texts[n - 1], items[n])
  IN  texts[Len(items)]

\* The texts of the sequence "pinned", those that are empty or no texts left out.
normalizedPinned(d) ==
  LET at == <<"pinned">>
  IN  IF at \in DOMAIN d /\ d[at] = "seq"
      THEN NonEmpty([n \in 1..Cardinality(Children(d, at)) |-> asString(d, Item(at, n - 1))]) ELSE <<>>

\* The environment gives no key of its own (OPENROUTER_API_KEY).
loadConfig(d) ==
  [name |-> asString(d, <<"name">>), llm_provider |-> asString(d, <<"llm_provider">>),
   pinned |-> normalizedPinned(d),
   providers |-> [p \in normalizeProviders(d) |->
                    [field \in {"base_url", "api_key"} |-> asString(d, <<"providers", p, field>>)]]]

isConfigReady(cfg) ==
  cfg.llm_provider \in DOMAIN cfg.providers /\ cfg.providers[cfg.llm_provider].api_key # ""

-----------------------------------------------------------------------------
(* Writers.                                                                *)

Count == writes < MaxWrites /\ writes' = writes + 1

Set(key, value) == [op |-> "set", key |-> key, value |-> value]
Delete(key) == [op |-> "delete", key |-> key]

\* The handlers refuse an empty key and an empty value.
Accepted(w) ==
  CASE w.op = "set"    -> w.key # <<>> /\ w.value # ""
    [] w.op = "delete" -> w.key # <<>> /\ CanDelete(doc, w.key)

\* The file is written for who asks: the others are no longer alone with it.
Write(who, w, tree) ==
  /\ doc' = tree /\ last' = w /\ alone' = alone \cap {who}

Apply(who, w) ==
  Write(who, w, IF w.op = "set" THEN setPath(doc, w.key, w.value) ELSE deletePath(doc, w.key))

\* config set and config delete, from the command line, the LLM or a client.
\* An empty value can be given on the command line; an empty key resets the file.
runConfig ==
  /\ Count
  /\ \/ \E key \in Keys, value \in {"", "x"} : Apply("command", Set(key, value))
     \/ \E key \in Keys : CanDelete(doc, key) /\ Apply("command", Delete(key))
     \/ Write("command", Delete(<<>>), Seed)
  /\ UNCHANGED <<panel, handlers, page, setup, run>>

\* A run begins with the pinned clips of the file.
BeginRun ==
  /\ run' = <<normalizedPinned(doc)>>
  /\ alone' = alone \cup {"run"}
  /\ UNCHANGED <<doc, last, writes, panel, handlers, page, setup>>

\* addPinnedClip: what is not a sequence is replaced by one.
addPinnedClip(d, clip) ==
  LET at   == <<"pinned">>
      tree == IF at \in DOMAIN d /\ d[at] = "seq" THEN d ELSE Put(d, at, "seq")
  IN  Put(tree, Item(at, Cardinality(Children(tree, at))), clip)

Positions(d, clip) == {n \in 0..Cardinality(Children(d, <<"pinned">>)) - 1 : asString(d, Item(<<"pinned">>, n)) = clip}

IsPinned(d, clip) == <<"pinned">> \in DOMAIN d /\ d[<<"pinned">>] = "seq" /\ Positions(d, clip) # {}

\* The file first, then the list of the run; a clip that the file has is not added again.
pkgPin ==
  /\ run # <<>> /\ Count
  /\ \E clip \in Clips :
       /\ ~Contains(run[1], clip)
       /\ run' = <<Append(run[1], clip)>>
       /\ IF IsPinned(doc, clip) THEN UNCHANGED <<doc, last, alone>>
          ELSE /\ Cardinality(Children(doc, <<"pinned">>)) < Len(Numerals)
               /\ Write("run", Set(<<"pinned">>, clip), addPinnedClip(doc, clip))
  /\ UNCHANGED <<panel, handlers, page, setup>>

\* Mutant of pkgUnpin: the run keeps its list.
pkgUnpinFile ==
  /\ run # <<>> /\ Count
  /\ \E clip \in Clips :
       /\ IsPinned(doc, clip)
       /\ Write("run", Delete(<<"pinned">>),
                RemoveItem(doc, <<"pinned">>, CHOOSE n \in Positions(doc, clip) : \A k \in Positions(doc, clip) : n <= k))
  /\ UNCHANGED <<panel, handlers, page, setup, run>>

\* A clip that the file does not have is refused, whatever the run's list says.
pkgUnpin ==
  /\ run # <<>> /\ Count
  /\ \E clip \in Clips :
       /\ IsPinned(doc, clip)
       /\ run' = <<IF Contains(run[1], clip)
                   THEN RemoveAt(run[1], CHOOSE n \in DOMAIN run[1] :
                          run[1][n] = clip /\ \A k \in 1..(n - 1) : run[1][k] # clip)
                   ELSE run[1]>>
       /\ Write("run", Delete(<<"pinned">>),
                RemoveItem(doc, <<"pinned">>, CHOOSE n \in Positions(doc, clip) : \A k \in Positions(doc, clip) : n <= k))
  /\ UNCHANGED <<panel, handlers, page, setup>>

-----------------------------------------------------------------------------
(* The settings panel.  Nothing keeps its handlers apart: one may begin      *)
(* while others are at work.  Each sends its requests one after another and *)
(* loads the configuration after the last; the first that fails ends it.    *)

NoTask == [todo |-> <<>>, reply |-> "none", loads |-> FALSE, got |-> <<>>]
AtWork(h) == handlers[h].todo # <<>> \/ handlers[h].loads
AtRest == \A h \in Handlers : ~AtWork(h)

\* The panel is loaded whenever it opens, as at the end of a handler.
OpenPanel ==
  /\ page = "chat" /\ ~panel.open /\ Count
  /\ \E h \in Handlers : ~AtWork(h) /\ handlers' = [handlers EXCEPT ![h].loads = TRUE]
  /\ panel' = [panel EXCEPT !.open = TRUE, !.error = FALSE]
  /\ UNCHANGED <<doc, last, page, setup, run, alone>>

\* A panel that was never loaded shows nothing, not even a way to close it.
\* What is at work goes on.
ClosePanel ==
  /\ panel.open /\ panel.loaded
  /\ panel' = [panel EXCEPT !.open = FALSE]
  /\ UNCHANGED <<doc, last, writes, handlers, page, setup, run, alone>>

Field(p, field) == <<"providers", p, field>>

handleSet ==
  {<<Set(<<"name">>, v)>> : v \in {"", "x"} \ {panel.shown.name}}
    \cup {<<Set(<<"llm_provider">>, p)>> : p \in DOMAIN panel.shown.providers \cup {""}}
    \cup {<<Set(Field(p, "api_key"), "x")>> : p \in DOMAIN panel.shown.providers}

handleAddProvider ==
  {<<Set(Field(p, "base_url"), "x"), Set(Field(p, "protocol"), "x"), Set(Field(p, "api_key"), "")>> : p \in Providers}

handleDeleteProvider ==
  {<<Delete(<<"providers", p>>)>> \o
     (IF panel.shown.llm_provider = p THEN <<Set(<<"llm_provider">>, "")>> ELSE <<>>) :
   p \in DOMAIN panel.shown.providers}

Reset == {<<Delete(<<>>)>>}

Act ==
  /\ panel.open /\ panel.loaded /\ Count
  /\ \E h \in Handlers, todo \in handleSet \cup handleAddProvider \cup handleDeleteProvider \cup Reset :
       ~AtWork(h) /\ handlers' = [handlers EXCEPT ![h].todo = todo]
  /\ UNCHANGED <<doc, last, panel, page, setup, run, alone>>

\* A request of who is answered: with success, or because it is refused or lost.
Sent(who, w) ==
  \/ Accepted(w) /\ Apply(who, w)
  \/ ~Accepted(w) /\ UNCHANGED <<doc, last, alone>>

\* A request of a handler is served.
PanelRequest(h) ==
  /\ handlers[h].todo # <<>> /\ handlers[h].reply = "none"
  /\ Sent("panel", Head(handlers[h].todo))
  /\ handlers' = [handlers EXCEPT ![h].reply = IF Accepted(Head(handlers[h].todo)) THEN "done" ELSE "refused"]
  /\ UNCHANGED <<writes, panel, page, setup, run>>

\* Its answer arrives.  The error goes when the handler begins to load.
PanelReply(h) ==
  /\ handlers[h].reply # "none"
  /\ LET rest == Tail(handlers[h].todo) IN
     IF handlers[h].reply = "done"
     THEN /\ handlers' = [handlers EXCEPT ![h] = [NoTask EXCEPT !.todo = rest, !.loads = (rest = <<>>)]]
          /\ panel' = [panel EXCEPT !.error = @ /\ rest # <<>>]
     ELSE /\ handlers' = [handlers EXCEPT ![h] = NoTask]
          /\ panel' = [panel EXCEPT !.error = TRUE]
  /\ UNCHANGED <<doc, last, writes, page, setup, run, alone>>

\* The configuration is read for a handler.
PanelLoad(h) ==
  /\ handlers[h].loads /\ handlers[h].got = <<>>
  /\ handlers' = [handlers EXCEPT ![h].got = <<loadConfig(doc)>>]
  /\ panel' = [panel EXCEPT !.newest = {h}]
  /\ alone' = alone \cup {"panel"}
  /\ UNCHANGED <<doc, last, writes, page, setup, run>>

\* Mutant of PanelShows: the error goes when the answer arrives.
PanelShowsAndForgives(h) ==
  /\ handlers[h].got # <<>>
  /\ panel' = [panel EXCEPT !.shown = handlers[h].got[1], !.loaded = TRUE, !.late = h \notin panel.newest,
                            !.error = FALSE]
  /\ handlers' = [handlers EXCEPT ![h] = NoTask]
  /\ UNCHANGED <<doc, last, writes, page, setup, run, alone>>

\* It arrives, maybe later than what was read after it.
PanelShows(h) ==
  /\ handlers[h].got # <<>>
  /\ panel' = [panel EXCEPT !.shown = handlers[h].got[1], !.loaded = TRUE, !.late = h \notin panel.newest]
  /\ handlers' = [handlers EXCEPT ![h] = NoTask]
  /\ UNCHANGED <<doc, last, writes, page, setup, run, alone>>

\* A request is lost, before it is served or on its way back.
PanelLoses(h) ==
  /\ AtWork(h)
  /\ handlers' = [handlers EXCEPT ![h] = NoTask]
  /\ panel' = [panel EXCEPT !.error = TRUE]
  /\ UNCHANGED <<doc, last, writes, page, setup, run, alone>>

PanelNext ==
  \/ OpenPanel \/ ClosePanel \/ Act
  \/ \E h \in Handlers : PanelRequest(h) \/ PanelReply(h) \/ PanelLoad(h) \/ PanelShows(h) \/ PanelLoses(h)

-----------------------------------------------------------------------------
(* The setup page.                                                         *)

\* ChatLayout.loadConfig: which page is shown.
PageOf(d) == IF isConfigReady(loadConfig(d)) THEN "chat" ELSE "setup"

\* Mutant of SetupWrites: the provider is not made the current one.
SetupWritesOnly(p) ==
  <<Set(Field(p, "base_url"), IF p \in Presets THEN "x" ELSE ""), Set(Field(p, "api_key"), "x"),
    Set(Field(p, "protocol"), "x"), Set(<<"llm_model">>, "x")>>

\* What handleSubmit asks for.  The URL of a provider that is not a preset is empty.
SetupWrites(p) ==
  <<Set(Field(p, "base_url"), IF p \in Presets THEN "x" ELSE ""), Set(Field(p, "api_key"), "x"),
    Set(Field(p, "protocol"), "x"), Set(<<"llm_provider">>, p), Set(<<"llm_model">>, "x")>>

Submit ==
  /\ page = "setup" /\ setup.todo = <<>> /\ ~setup.busy /\ Count
  /\ \E p \in Presets \cup ({loadConfig(doc).llm_provider} \ {""}), renamed \in BOOLEAN :
       setup' = [setup EXCEPT !.todo = SetupWrites(p) \o (IF renamed THEN <<Set(<<"name">>, "x")>> ELSE <<>>),
                              !.busy = TRUE]
  /\ alone' = alone \cup {"setup"}
  /\ UNCHANGED <<doc, last, panel, handlers, page, run>>

SetupRequest ==
  /\ setup.todo # <<>>
  /\ Sent("setup", Head(setup.todo))
  /\ setup' = IF Accepted(Head(setup.todo)) THEN [setup EXCEPT !.todo = Tail(@)]
              ELSE [setup EXCEPT !.todo = <<>>, !.busy = FALSE]
  /\ UNCHANGED <<writes, panel, handlers, page, run>>

SetupLoses ==
  /\ setup.busy
  /\ \/ setup.todo # <<>> /\ Accepted(Head(setup.todo)) /\ Apply("setup", Head(setup.todo))
     \/ UNCHANGED <<doc, last, alone>>
  /\ setup' = [setup EXCEPT !.todo = <<>>, !.busy = FALSE]
  /\ UNCHANGED <<writes, panel, handlers, page, run>>

\* onComplete: the configuration is loaded and tells which page follows.
SetupDone ==
  /\ setup.busy /\ setup.todo = <<>>
  /\ page' = PageOf(doc)
  /\ setup' = [setup EXCEPT !.busy = FALSE, !.done = "setup" \in alone]
  /\ UNCHANGED <<doc, last, writes, panel, handlers, run, alone>>

ConfigInit ==
  /\ doc \in FirstTrees /\ last = Delete(<<>>) /\ writes = 0
  /\ panel = [open |-> FALSE, shown |-> loadConfig(doc), loaded |-> FALSE, error |-> FALSE, newest |-> {}, late |-> FALSE]
  /\ handlers = [h \in Handlers |-> NoTask]
  /\ page = PageOf(doc) /\ setup = [todo |-> <<>>, busy |-> FALSE, done |-> FALSE]
  /\ run = <<>> /\ alone = {}

ConfigNext ==
  \/ runConfig \/ BeginRun \/ pkgPin \/ pkgUnpin
  \/ PanelNext
  \/ Submit \/ SetupRequest \/ SetupLoses \/ SetupDone

ConfigSpec == ConfigInit /\ [][ConfigNext]_configVars

-----------------------------------------------------------------------------
(* Properties.                                                             *)

Related(p, q) == IsPrefix(p, q) \/ IsPrefix(q, p)
Texts(d) == {p \in DOMAIN d : d[p] \notin Inner}

\* A write changes the value of its key, and no value elsewhere in the file
\* (config.ts:178-236, 320-403), whatever is at, above or below the key; this is
\* said of keys that name items of sequences by numbers.
WritesOnlyItsKey ==
  [][LET key == last'.key IN
     /\ last'.op = "set" /\ key # <<"pinned">> => asString(doc', key) = last'.value
     /\ key # <<>> => \A p \in Texts(doc) \cup Texts(doc') :
          Related(p, key) \/ (p \in Texts(doc) \cap Texts(doc') /\ doc'[p] = doc[p])]_<<doc, last>>

\* It is said so: the sequences there may be, and the texts.
AllKeys ==
  Keys \cup {<<"name">>, <<"llm_provider">>, <<"llm_model">>}
    \cup {Field(p, field) : p \in Providers, field \in {"base_url", "protocol", "api_key"}}
Turns(key) == {SubSeq(key, 1, n) : n \in {m \in 1..(Len(key) - 1) : IsNumeric(key[m + 1])}}
MadeSequences == UNION {Turns(key) : key \in AllKeys}
FirstSequences == UNION {{p \in DOMAIN tree : tree[p] = "seq"} : tree \in FirstTrees \cup {Seed}}
FirstTexts == UNION {Texts(tree) : tree \in FirstTrees \cup {Seed}}
PinnedItems == {<<"pinned", part>> : part \in Range(Numerals)}
Numbered == {<<"pinned">>} \cup MadeSequences \cup FirstSequences
Named == AllKeys \cup FirstTexts \cup PinnedItems

\* A key goes through a sequence by a number, and on from no text there; what
\* is pinned are texts.
NumbersNameItems ==
  /\ \A key \in AllKeys : \A n \in 1..(Len(key) - 1) : SubSeq(key, 1, n) \in Numbered =>
       /\ IsNumeric(key[n + 1])
       /\ n + 1 < Len(key) => SubSeq(key, 1, n + 1) \notin Named
  /\ \A p \in Numbered : p[1] = "pinned" => Len(p) = 1
  /\ \A p \in Named : p[1] = "pinned" => Len(p) <= 2

\* As long as only the run itself pins and unpins, its list and the file agree:
\* the next run has what this one has (tools.ts:618-644, config.ts:195-236).
PinsAgree == run # <<>> /\ "run" \in alone => run[1] = normalizedPinned(doc)

\* A panel at rest that shows no error shows what the file says, whatever its
\* handlers did at the same time and whichever failed half way
\* (SettingsPanel.tsx:27-83), with two exceptions: somebody else has written the
\* file since it was last read; the answers overtook each other, and the one
\* that arrived last was not the last to be read.
PanelShowsFile ==
  panel.open /\ AtRest /\ ~panel.error /\ ~panel.late /\ "panel" \in alone => panel.shown = loadConfig(doc)

\* A setup that completes leads to the chat, whatever attempts failed before and
\* whatever the file said (SetupPage.tsx:86-115, ChatLayout.tsx:40-49), unless a
\* key with a numeral has made a sequence of the providers, or of one of them:
\* setPath then passes over what the setup page asks for (config.ts:339-373).
SetupLeadsToChat == setup.done => page = "chat"

\* When no key does so, and no tree has such a sequence at first.
OfProviders == {<<"providers">>} \cup {<<"providers", p>> : p \in Presets}
NoSequence(d) == \A p \in OfProviders \cap DOMAIN d : d[p] # "seq"
MakesNoSequence(key) ==
  key[1] = "providers" =>
    /\ Len(key) > 1 => ~IsNumeric(key[2])
    /\ Len(key) > 2 /\ key[2] \in Presets => ~IsNumeric(key[3])

NoSequenceOfProviders ==
  /\ \A p \in Providers : ~IsNumeric(p)
  /\ \A key \in Keys : MakesNoSequence(key)
  /\ \A tree \in FirstTrees \cup {Seed} : NoSequence(tree)
=============================================================================
