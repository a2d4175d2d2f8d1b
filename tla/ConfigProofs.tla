---------------------------- MODULE ConfigProofs ----------------------------
(***************************************************************************)
(* Theorems about Config: the settings panel shows the file; the file stays *)
(* a tree; the pins of a run and of the file agree; a setup leads to the    *)
(* chat; a write changes nothing but its key.  They hold for any trees and  *)
(* keys and any number of writes.                                           *)
(***************************************************************************)
EXTENDS Config, FiniteSetTheorems, SequenceTheorems, WellFoundedInduction, TLAPS

-----------------------------------------------------------------------------
(* The settings panel.                                                     *)

PanelForm == panel = [open |-> panel.open, shown |-> panel.shown, loaded |-> panel.loaded,
                      error |-> panel.error, newest |-> panel.newest, late |-> panel.late]

\* A handler sends its requests first and loads then; an answer is the answer
\* to what it has asked for.
HandlersForm ==
  /\ handlers = [h \in Handlers |-> [todo |-> handlers[h].todo, reply |-> handlers[h].reply,
                                     loads |-> handlers[h].loads, got |-> handlers[h].got]]
  /\ \A h \in Handlers :
       /\ handlers[h].loads \in BOOLEAN
       /\ handlers[h].loads => handlers[h].todo = <<>>
       /\ handlers[h].reply # "none" => handlers[h].todo # <<>>
       /\ handlers[h].got # <<>> => handlers[h].loads

\* Nobody has anything to ask for any more: answers may be on their way.
AllRead == \A h \in Handlers : handlers[h].todo = <<>> /\ (handlers[h].loads => handlers[h].got # <<>>)

\* The newest answer is what the file says, and it is on its way or shown, or an
\* older one has come after it.
NewestIsFile ==
  "panel" \in alone /\ ~panel.error /\ AllRead =>
    /\ \A h \in panel.newest \cap Handlers : handlers[h].got # <<>> => handlers[h].got[1] = loadConfig(doc)
    /\ \/ \E h \in panel.newest \cap Handlers : handlers[h].got # <<>>
       \/ panel.late
       \/ panel.shown = loadConfig(doc)

PanelInv == PanelForm /\ HandlersForm /\ NewestIsFile

\* A file that somebody else writes is no longer the panel's.
LEMMA OthersWrite ==
  ASSUME NEW who, who # "panel", NEW w, NEW tree, Write(who, w, tree)
  PROVE  "panel" \notin alone'
BY DEF Write

\* Who leaves the panel alone leaves the file alone or takes it from the panel.
Bystander ==
  /\ UNCHANGED <<panel, handlers>>
  /\ \/ doc' = doc /\ ("panel" \in alone' => "panel" \in alone)
     \/ "panel" \notin alone'

LEMMA OtherSteps ==
  ASSUME runConfig \/ BeginRun \/ pkgPin \/ pkgUnpin \/ Submit \/ SetupRequest \/ SetupLoses \/ SetupDone
  PROVE  Bystander
<1>1. CASE runConfig
  BY <1>1, OthersWrite DEF runConfig, Apply, Bystander
<1>2. CASE BeginRun
  BY <1>2 DEF BeginRun, Bystander
<1>3. CASE pkgPin
  BY <1>3, OthersWrite DEF pkgPin, Bystander
<1>4. CASE pkgUnpin
  BY <1>4, OthersWrite DEF pkgUnpin, Bystander
<1>5. CASE Submit
  BY <1>5 DEF Submit, Bystander
<1>6. CASE SetupRequest
  BY <1>6, OthersWrite DEF SetupRequest, Sent, Apply, Bystander
<1>7. CASE SetupLoses
  BY <1>7, OthersWrite DEF SetupLoses, Apply, Bystander
<1>8. CASE SetupDone
  BY <1>8 DEF SetupDone, Bystander
<1> QED
  BY <1>1, <1>2, <1>3, <1>4, <1>5, <1>6, <1>7, <1>8

LEMMA NoTaskIs ==
  /\ NoTask = [todo |-> NoTask.todo, reply |-> NoTask.reply, loads |-> NoTask.loads, got |-> NoTask.got]
  /\ NoTask.todo = <<>> /\ NoTask.reply = "none" /\ NoTask.loads = FALSE /\ NoTask.got = <<>>
BY DEF NoTask

\* What a handler may be about.
HandlerForm(task) ==
  /\ task = [todo |-> task.todo, reply |-> task.reply, loads |-> task.loads, got |-> task.got]
  /\ task.loads \in BOOLEAN /\ (task.loads => task.todo = <<>>)
  /\ task.reply # "none" => task.todo # <<>>
  /\ task.got # <<>> => task.loads

LEMMA HandlerChanges ==
  ASSUME HandlersForm, NEW h \in Handlers, NEW task, HandlerForm(task), handlers' = [handlers EXCEPT ![h] = task]
  PROVE  HandlersForm'
<1>1. \A k \in Handlers : handlers'[k] = IF k = h THEN task ELSE handlers[k]
  BY DEF HandlersForm
<1>2. \A k \in Handlers : HandlerForm(handlers[k])
  BY DEF HandlersForm, HandlerForm
<1>3. \A k \in Handlers : HandlerForm(handlers'[k])
  BY <1>1, <1>2
<1>4. handlers' = [k \in Handlers |-> handlers'[k]]
  BY DEF HandlersForm
<1> QED
  BY <1>3, <1>4 DEF HandlerForm, HandlersForm

LEMMA PanelForms ==
  ASSUME PanelForm, HandlersForm, PanelNext
  PROVE  PanelForm' /\ HandlersForm'
<1>1. CASE OpenPanel
  <2>1. PICK h \in Handlers : ~AtWork(h) /\ handlers' = [handlers EXCEPT ![h].loads = TRUE]
    BY <1>1 DEF OpenPanel
  <2>2. panel' = [panel EXCEPT !.open = TRUE, !.error = FALSE]
    BY <1>1 DEF OpenPanel
  <2>3. PanelForm'
    BY <2>2 DEF PanelForm
  <2>4. HandlersForm'
    <3>1. PICK task : task = [handlers[h] EXCEPT !.loads = TRUE]
      OBVIOUS
    <3>2. handlers' = [handlers EXCEPT ![h] = task]
      BY <2>1, <3>1
    <3>3. HandlerForm(handlers[h])
      BY DEF HandlersForm, HandlerForm
    <3>4. HandlerForm(task)
      BY <2>1, <3>1, <3>3 DEF HandlerForm, AtWork
    <3> QED
      BY <3>2, <3>4, HandlerChanges
  <2> QED
    BY <2>3, <2>4
<1>2. CASE ClosePanel
  BY <1>2 DEF ClosePanel, PanelForm, HandlersForm
<1>3. CASE Act
  <2>1. PICK h \in Handlers, todo \in handleSet \cup handleAddProvider \cup handleDeleteProvider \cup Reset :
            ~AtWork(h) /\ handlers' = [handlers EXCEPT ![h].todo = todo]
    BY <1>3 DEF Act
  <2>2. UNCHANGED panel
    BY <1>3 DEF Act
  <2> QED
    BY <2>1, <2>2 DEF PanelForm, HandlersForm, AtWork
<1>4. ASSUME NEW h \in Handlers, PanelRequest(h) PROVE PanelForm' /\ HandlersForm'
  <2>1. PICK reply : handlers' = [handlers EXCEPT ![h].reply = reply]
    BY <1>4 DEF PanelRequest
  <2>2. UNCHANGED panel /\ handlers[h].todo # <<>>
    BY <1>4 DEF PanelRequest
  <2> QED
    BY <2>1, <2>2 DEF PanelForm, HandlersForm
<1>5. ASSUME NEW h \in Handlers, PanelReply(h) PROVE PanelForm' /\ HandlersForm'
  <2>1. PICK rest : rest = Tail(handlers[h].todo)
    OBVIOUS
  <2>2. PICK error : panel' = [panel EXCEPT !.error = error]
    BY <1>5 DEF PanelReply
  <2>3. \/ handlers' = [handlers EXCEPT ![h] = [NoTask EXCEPT !.todo = rest, !.loads = (rest = <<>>)]]
        \/ handlers' = [handlers EXCEPT ![h] = NoTask]
    BY <1>5, <2>1 DEF PanelReply
  <2>4. PanelForm'
    BY <2>2 DEF PanelForm
  <2>5. PICK next : next = [NoTask EXCEPT !.todo = rest, !.loads = (rest = <<>>)]
    OBVIOUS
  <2>6. /\ next = [todo |-> next.todo, reply |-> next.reply, loads |-> next.loads, got |-> next.got]
        /\ next.loads \in BOOLEAN /\ (next.loads => next.todo = <<>>) /\ next.reply = "none" /\ next.got = <<>>
    BY <2>5 DEF NoTask
  <2>7. HandlersForm'
    <3>1. HandlerForm(next) /\ HandlerForm(NoTask)
      BY <2>6, NoTaskIs DEF HandlerForm
    <3> QED
      BY <2>3, <2>5, <3>1, HandlerChanges
  <2> QED
    BY <2>4, <2>7
<1>6. ASSUME NEW h \in Handlers, PanelLoad(h) PROVE PanelForm' /\ HandlersForm'
  <2>1. PICK got : got = <<loadConfig(doc)>>
    OBVIOUS
  <2>2. handlers' = [handlers EXCEPT ![h].got = got] /\ handlers[h].loads /\ panel' = [panel EXCEPT !.newest = {h}]
    BY <1>6, <2>1 DEF PanelLoad
  <2>3. PanelForm'
    BY <2>2 DEF PanelForm
  <2>4. HandlersForm'
    BY <2>2 DEF HandlersForm
  <2> QED
    BY <2>3, <2>4
<1>7. ASSUME NEW h \in Handlers, PanelShows(h) PROVE PanelForm' /\ HandlersForm'
  BY <1>7 DEF PanelShows, PanelForm, HandlersForm, NoTask
<1>8. ASSUME NEW h \in Handlers, PanelLoses(h) PROVE PanelForm' /\ HandlersForm'
  BY <1>8 DEF PanelLoses, PanelForm, HandlersForm, NoTask
<1> QED
  BY <1>1, <1>2, <1>3, <1>4, <1>5, <1>6, <1>7, <1>8 DEF PanelNext

LEMMA NewestKept ==
  ASSUME PanelInv, PanelNext
  PROVE  NewestIsFile'
<1>1. PanelForm /\ HandlersForm /\ PanelForm' /\ HandlersForm'
  BY PanelForms DEF PanelInv
<1>2. CASE OpenPanel
  BY <1>1, <1>2 DEF OpenPanel, HandlersForm, AtWork, NewestIsFile, AllRead
<1>3. CASE ClosePanel
  <2>1. UNCHANGED <<doc, handlers, alone>> /\ panel' = [panel EXCEPT !.open = FALSE]
    BY <1>3 DEF ClosePanel
  <2> QED
    BY <1>1, <2>1 DEF PanelInv, PanelForm, NewestIsFile, AllRead
<1>4. CASE Act
  <2>1. PICK h \in Handlers, todo \in handleSet \cup handleAddProvider \cup handleDeleteProvider \cup Reset :
            ~AtWork(h) /\ handlers' = [handlers EXCEPT ![h].todo = todo]
    BY <1>4 DEF Act
  <2>2. UNCHANGED <<doc, panel, alone>>
    BY <1>4 DEF Act
  <2>3. \A k \in Handlers : handlers'[k].loads = handlers[k].loads /\ handlers'[k].got = handlers[k].got
    <3>1. handlers'[h] = [handlers[h] EXCEPT !.todo = todo] /\ \A k \in Handlers \ {h} : handlers'[k] = handlers[k]
      BY <1>1, <2>1 DEF HandlersForm
    <3>2. handlers'[h].loads = handlers[h].loads /\ handlers'[h].got = handlers[h].got
      BY <1>1, <3>1 DEF HandlersForm
    <3> QED
      BY <3>1, <3>2
  <2>4. AllRead' => AllRead
    BY <1>1, <2>1 DEF HandlersForm, AtWork, AllRead
  <2> QED
    BY <2>2, <2>3, <2>4 DEF PanelInv, NewestIsFile
<1>5. ASSUME NEW h \in Handlers, PanelRequest(h) PROVE NewestIsFile'
  <2>2. PICK reply : handlers' = [handlers EXCEPT ![h].reply = reply]
    BY <1>5 DEF PanelRequest
  <2>1. handlers'[h].todo = handlers[h].todo /\ handlers[h].todo # <<>>
    BY <1>1, <1>5, <2>2 DEF PanelRequest, HandlersForm
  <2> QED
    BY <2>1 DEF NewestIsFile, AllRead
<1>6. ASSUME NEW h \in Handlers, PanelReply(h) PROVE NewestIsFile'
  <2>1. PICK rest : rest = Tail(handlers[h].todo)
    OBVIOUS
  <2>2. CASE handlers' = [handlers EXCEPT ![h] = [NoTask EXCEPT !.todo = rest, !.loads = (rest = <<>>)]]
    BY <1>1, <2>2 DEF HandlersForm, NewestIsFile, AllRead, NoTask
  <2>3. CASE panel' = [panel EXCEPT !.error = TRUE]
    BY <1>1, <2>3 DEF PanelForm, NewestIsFile
  <2> QED
    BY <1>6, <2>1, <2>2, <2>3 DEF PanelReply
<1>7. ASSUME NEW h \in Handlers, PanelLoad(h) PROVE NewestIsFile'
  <2>1. PICK cfg : cfg = loadConfig(doc)
    OBVIOUS
  <2>2. doc' = doc /\ handlers' = [handlers EXCEPT ![h].got = <<cfg>>] /\ panel' = [panel EXCEPT !.newest = {h}]
    BY <1>7, <2>1 DEF PanelLoad
  <2>3. panel'.newest = {h} /\ handlers'[h].got = <<cfg>>
    <3>1. panel'.newest = {h}
      BY <1>1, <2>2 DEF PanelForm
    <3>2. PICK got : got = <<cfg>>
      OBVIOUS
    <3>3. handlers'[h].got = got
      BY <1>1, <2>2, <3>2 DEF HandlersForm
    <3> QED
      BY <3>1, <3>2, <3>3
  <2>4. loadConfig(doc') = cfg
    BY <2>1, <2>2
  <2>5. loadConfig(doc)' = cfg
    BY <2>4 DEF loadConfig, asString, normalizedPinned, normalizeProviders, Children
  <2> QED
    BY <2>3, <2>5 DEF NewestIsFile
<1>8. ASSUME NEW h \in Handlers, PanelShows(h) PROVE NewestIsFile'
  <2> SUFFICES ASSUME "panel" \in alone', ~panel'.error, AllRead'
               PROVE  /\ \A k \in panel'.newest \cap Handlers : handlers'[k].got # <<>> => handlers'[k].got[1] = loadConfig(doc)'
                      /\ \/ \E k \in panel'.newest \cap Handlers : handlers'[k].got # <<>>
                         \/ panel'.late
                         \/ panel'.shown = loadConfig(doc)'
    BY DEF NewestIsFile
  <2>1. PICK cfg : cfg = loadConfig(doc)
    OBVIOUS
  <2>2. doc' = doc /\ alone' = alone /\ handlers' = [handlers EXCEPT ![h] = NoTask] /\ handlers[h].got # <<>>
    BY <1>8 DEF PanelShows
  <2>3. loadConfig(doc)' = cfg
    BY <2>1, <2>2 DEF loadConfig, asString, normalizedPinned, normalizeProviders, Children
  <2>4. /\ panel'.newest = panel.newest /\ panel'.error = panel.error
        /\ panel'.shown = handlers[h].got[1] /\ panel'.late = (h \notin panel.newest)
    BY <1>1, <1>8 DEF PanelShows, PanelForm
  <2>5. AllRead
    BY <1>1, <2>2 DEF HandlersForm, AllRead, NoTask
  <2>6. \A k \in panel.newest \cap Handlers : handlers[k].got # <<>> => handlers[k].got[1] = cfg
    BY <2>1, <2>2, <2>4, <2>5 DEF PanelInv, NewestIsFile
  <2>7. handlers'[h].got = <<>> /\ \A k \in Handlers \ {h} : handlers'[k].got = handlers[k].got
    BY <1>1, <2>2, NoTaskIs DEF HandlersForm
  <2>8. \A k \in panel'.newest \cap Handlers : handlers'[k].got # <<>> => handlers'[k].got[1] = cfg
    BY <2>4, <2>6, <2>7
  <2>9. h \in panel.newest => panel'.shown = cfg
    BY <2>2, <2>4, <2>6
  <2> QED
    BY <2>3, <2>4, <2>8, <2>9
<1>9. ASSUME NEW h \in Handlers, PanelLoses(h) PROVE NewestIsFile'
  BY <1>1, <1>9 DEF PanelLoses, PanelForm, NewestIsFile
<1> QED
  BY <1>2, <1>3, <1>4, <1>5, <1>6, <1>7, <1>8, <1>9 DEF PanelNext

LEMMA PanelInductive == ConfigSpec => []PanelInv
<1>1. ConfigInit => PanelInv
  <2> SUFFICES ASSUME ConfigInit PROVE PanelInv
    OBVIOUS
  <2>1. PanelForm /\ alone = {}
    BY DEF ConfigInit, PanelForm
  <2>2. HandlersForm
    BY NoTaskIs DEF ConfigInit, HandlersForm
  <2> QED
    BY <2>1, <2>2 DEF PanelInv, NewestIsFile
<1>2. PanelInv /\ [ConfigNext]_configVars => PanelInv'
  <2> SUFFICES ASSUME PanelInv, [ConfigNext]_configVars PROVE PanelInv'
    OBVIOUS
  <2>1. ASSUME Bystander PROVE PanelInv'
    <3>1. PanelForm' /\ HandlersForm' /\ (AllRead' => AllRead)
      BY <2>1 DEF Bystander, PanelInv, PanelForm, HandlersForm, AllRead
    <3>2. NewestIsFile'
      BY <2>1, <3>1 DEF Bystander, PanelInv, NewestIsFile
    <3> QED
      BY <3>1, <3>2 DEF PanelInv
  <2>2. CASE PanelNext
    BY <2>2, PanelForms, NewestKept DEF PanelInv
  <2>3. CASE UNCHANGED configVars
    BY <2>1, <2>3 DEF configVars, Bystander
  <2> QED
    BY <2>1, <2>2, <2>3, OtherSteps DEF ConfigNext
<1> QED
  BY <1>1, <1>2, PTL DEF ConfigSpec

\* A panel at rest that shows no error shows what the file says, whatever its
\* handlers, any number of them, did at the same time and whichever failed half
\* way, unless somebody else has written the file since it was last read, or an
\* older answer arrived after the newest.
THEOREM PanelShowsFileHolds == ConfigSpec => []PanelShowsFile
<1>1. PanelInv => PanelShowsFile
  <2> SUFFICES ASSUME PanelInv, AtRest, ~panel.error, ~panel.late, "panel" \in alone
               PROVE  panel.shown = loadConfig(doc)
    BY DEF PanelShowsFile
  <2>1. AllRead /\ \A h \in Handlers : handlers[h].got = <<>>
    BY DEF PanelInv, HandlersForm, AtRest, AtWork, AllRead
  <2> QED
    BY <2>1 DEF PanelInv, NewestIsFile
<1> QED
  BY <1>1, PanelInductive, PTL

-----------------------------------------------------------------------------
(* Paths.                                                                  *)

LEMMA PrefixIs ==
  ASSUME NEW p \in Path, NEW q \in Path
  PROVE  IsPrefix(p, q) <=> Len(p) <= Len(q) /\ \A i \in 1..Len(p) : p[i] = q[i]
<1>1. SubSeq(p, 1, Len(p)) = p /\ Len(p) \in Nat /\ Len(q) \in Nat
  BY SubSeqFull DEF Path
<1>2. ASSUME Len(p) <= Len(q)
      PROVE  /\ SubSeq(q, 1, Len(p)) \in Path /\ Len(SubSeq(q, 1, Len(p))) = Len(p)
             /\ \A i \in 1..Len(p) : SubSeq(q, 1, Len(p))[i] = q[i]
  <2>1. \A i \in 1..Len(p) : q[i] \in STRING
    BY <1>1, <1>2, ElementOfSeq DEF Path
  <2>2. 1 \in Int /\ Len(p) \in Int
    BY <1>1
  <2>3. /\ SubSeq(q, 1, Len(p)) \in Seq(STRING)
        /\ Len(SubSeq(q, 1, Len(p))) = IF 1 <= Len(p) THEN Len(p) - 1 + 1 ELSE 0
        /\ \A i \in 1..Len(p) - 1 + 1 : SubSeq(q, 1, Len(p))[i] = q[1 + i - 1]
    BY <2>1, <2>2, SubSeqProperties
  <2>4. Len(SubSeq(q, 1, Len(p))) = Len(p)
    BY <1>1, <2>3
  <2>5. \A i \in 1..Len(p) : SubSeq(q, 1, Len(p))[i] = q[i]
    BY <1>1, <2>3
  <2> QED
    BY <2>3, <2>4, <2>5 DEF Path
<1>3. ASSUME Len(p) <= Len(q), \A i \in 1..Len(p) : p[i] = q[i]
      PROVE  p = SubSeq(q, 1, Len(p))
  <2> DEFINE s == SubSeq(q, 1, Len(p))
  <2>1. s \in Seq(STRING) /\ Len(s) = Len(p) /\ \A i \in 1..Len(p) : p[i] = s[i]
    BY <1>2, <1>3 DEF Path
  <2> HIDE DEF s
  <2>2. p = s
    BY <2>1, SeqEqual DEF Path
  <2> QED
    BY <2>2 DEF s
<1>4. ASSUME IsPrefix(p, q)
      PROVE  Len(p) <= Len(q) /\ \A i \in 1..Len(p) : p[i] = q[i]
  <2>1. Len(p) <= Len(q) /\ p = SubSeq(q, 1, Len(p))
    BY <1>1, <1>4 DEF IsPrefix
  <2> QED
    BY <1>2, <2>1
<1>5. ASSUME Len(p) <= Len(q), \A i \in 1..Len(p) : p[i] = q[i]
      PROVE  IsPrefix(p, q)
  BY <1>1, <1>3, <1>5 DEF IsPrefix
<1> QED
  BY <1>4, <1>5

LEMMA AppendIs ==
  ASSUME NEW p \in Path, NEW x \in STRING
  PROVE  /\ Append(p, x) \in Path /\ Len(p) \in Nat /\ Len(Append(p, x)) = Len(p) + 1
         /\ \A i \in 1..Len(p) : Append(p, x)[i] = p[i]
         /\ Append(p, x)[Len(p) + 1] = x /\ Append(p, x) # <<>>
<1>1. p \in Seq(STRING) /\ Len(p) \in Nat
  BY DEF Path
<1>2. Append(p, x) \in Seq(STRING)
  BY <1>1, AppendProperties
<1>3. Append(p, x) # <<>> /\ Len(Append(p, x)) = Len(p) + 1
  BY <1>1, AppendProperties
<1>4. \A i \in 1..Len(p) : Append(p, x)[i] = p[i]
  BY <1>1
<1>5. Append(p, x)[Len(p) + 1] = x
  BY <1>1, AppendProperties
<1> QED
  BY <1>1, <1>2, <1>3, <1>4, <1>5 DEF Path

LEMMA PathEqual ==
  ASSUME NEW p \in Path, NEW q \in Path, Len(p) = Len(q), \A i \in 1..Len(p) : p[i] = q[i]
  PROVE  p = q
BY SeqEqual DEF Path

LEMMA PrefixOrder ==
  ASSUME NEW p \in Path, NEW q \in Path, NEW r \in Path
  PROVE  /\ IsPrefix(p, p)
         /\ IsPrefix(p, q) /\ IsPrefix(q, r) => IsPrefix(p, r)
         /\ IsPrefix(p, q) /\ IsPrefix(q, p) => p = q
         /\ IsPrefix(p, r) /\ IsPrefix(q, r) => Related(p, q)
<1>1. Len(p) \in Nat /\ Len(q) \in Nat /\ Len(r) \in Nat
  BY DEF Path
<1>2. IsPrefix(p, p)
  BY <1>1, PrefixIs
<1>3. ASSUME IsPrefix(p, q), IsPrefix(q, r) PROVE IsPrefix(p, r)
  <2>1. Len(p) <= Len(r)
    BY <1>1, <1>3, PrefixIs
  <2>2. \A i \in 1..Len(p) : p[i] = r[i]
    BY <1>1, <1>3, PrefixIs
  <2> QED
    BY <2>1, <2>2, PrefixIs
<1>4. ASSUME IsPrefix(p, q), IsPrefix(q, p) PROVE p = q
  <2>1. Len(p) = Len(q) /\ \A i \in 1..Len(p) : p[i] = q[i]
    BY <1>1, <1>4, PrefixIs
  <2> QED
    BY <2>1, PathEqual
<1>5. ASSUME IsPrefix(p, r), IsPrefix(q, r) PROVE Related(p, q)
  <2>1. /\ \A i \in 1..Len(p) : p[i] = r[i]
        /\ \A i \in 1..Len(q) : q[i] = r[i]
    BY <1>5, PrefixIs
  <2>2. CASE Len(p) <= Len(q)
    <3>1. \A i \in 1..Len(p) : p[i] = q[i]
      BY <1>1, <2>1, <2>2
    <3> QED
      BY <2>2, <3>1, PrefixIs DEF Related
  <2>3. CASE Len(q) <= Len(p)
    <3>1. \A i \in 1..Len(q) : q[i] = p[i]
      BY <1>1, <2>1, <2>3
    <3> QED
      BY <2>3, <3>1, PrefixIs DEF Related
  <2> QED
    BY <1>1, <2>2, <2>3
<1> QED
  BY <1>2, <1>3, <1>4, <1>5

\* The paths above a child.
LEMMA AboveChild ==
  ASSUME NEW p \in Path, NEW x \in STRING, NEW q \in Path
  PROVE  /\ IsPrefix(q, Append(p, x)) <=> IsPrefix(q, p) \/ q = Append(p, x)
         /\ IsPrefix(p, Append(p, x)) /\ ~IsPrefix(Append(p, x), p)
         /\ \A y \in STRING : Append(q, y) = Append(p, x) => q = p /\ y = x
<1> DEFINE c == Append(p, x)
<1>1. /\ c \in Path /\ Len(p) \in Nat /\ Len(q) \in Nat /\ Len(c) = Len(p) + 1
      /\ \A i \in 1..Len(p) : c[i] = p[i]
      /\ c[Len(p) + 1] = x
  BY AppendIs DEF Path
<1> HIDE DEF c
<1>2. ASSUME IsPrefix(q, c), q # c PROVE IsPrefix(q, p)
  <2>1. Len(q) <= Len(c) /\ \A i \in 1..Len(q) : q[i] = c[i]
    BY <1>1, <1>2, PrefixIs
  <2>2. Len(q) # Len(c)
    BY <1>1, <1>2, <2>1, PathEqual
  <2>3. Len(q) <= Len(p)
    BY <1>1, <2>1, <2>2
  <2>4. \A i \in 1..Len(q) : q[i] = p[i]
    BY <1>1, <2>1, <2>3
  <2> QED
    BY <2>3, <2>4, PrefixIs
<1>3. IsPrefix(p, c) /\ ~IsPrefix(c, p)
  BY <1>1, PrefixIs
<1>4. ASSUME IsPrefix(q, p) PROVE IsPrefix(q, c)
  BY <1>1, <1>3, <1>4, PrefixOrder
<1>5. IsPrefix(c, c)
  BY <1>1, PrefixOrder
<1>6. ASSUME NEW y \in STRING, Append(q, y) = c PROVE q = p /\ y = x
  <2>1. /\ Len(c) = Len(q) + 1 /\ c[Len(q) + 1] = y
        /\ \A i \in 1..Len(q) : c[i] = q[i]
    BY <1>6, AppendIs
  <2>2. Len(p) = Len(q)
    BY <1>1, <2>1
  <2>3. y = x
    BY <1>1, <2>1, <2>2
  <2>4. \A i \in 1..Len(q) : q[i] = p[i]
    BY <1>1, <2>1, <2>2
  <2> QED
    BY <2>2, <2>3, <2>4, PathEqual
<1> QED
  BY <1>2, <1>3, <1>4, <1>5, <1>6 DEF c

\* A path with one part more is a child.
LEMMA LongerIsChild ==
  ASSUME NEW p \in Path, NEW q \in Path
  PROVE  Len(q) = Len(p) + 1 /\ IsPrefix(p, q) <=> \E x \in STRING : q = Append(p, x)
<1>1. ASSUME Len(q) = Len(p) + 1, IsPrefix(p, q) PROVE \E x \in STRING : q = Append(p, x)
  <2> DEFINE x == q[Len(q)]
  <2>1. Len(p) \in Nat /\ Len(q) \in 1..Len(q)
    BY <1>1 DEF Path
  <2>2. x \in STRING
    BY <2>1, ElementOfSeq DEF Path
  <2> HIDE DEF x
  <2>3. \A i \in 1..Len(p) : p[i] = q[i]
    BY <1>1, PrefixIs
  <2> DEFINE c == Append(p, x)
  <2>4. /\ c \in Path /\ Len(c) = Len(p) + 1 /\ c[Len(p) + 1] = x
        /\ \A i \in 1..Len(p) : c[i] = p[i]
    BY <2>2, AppendIs
  <2> HIDE DEF c
  <2>5. q[Len(p) + 1] = x
    BY <1>1 DEF x
  <2>6. \A i \in 1..Len(q) : q[i] = c[i]
    BY <1>1, <2>1, <2>3, <2>4, <2>5
  <2>7. q = c
    BY <1>1, <2>4, <2>6, PathEqual
  <2> QED
    BY <2>2, <2>7 DEF c
<1>2. ASSUME NEW x \in STRING, q = Append(p, x) PROVE Len(q) = Len(p) + 1 /\ IsPrefix(p, q)
  BY <1>2, AppendIs, AboveChild
<1> QED
  BY <1>1, <1>2

-----------------------------------------------------------------------------
(* Trees.                                                                  *)

Counted(d, p, size) == Children(d, p) = {Item(p, n) : n \in 0..(size - 1)}
Fits(d, p) == \E size \in 0..Len(Numerals) : Counted(d, p, size)

IsFunction(d) == d = [p \in DOMAIN d |-> d[p]]
Typed(d) == IsFunction(d) /\ DOMAIN d \subseteq Path /\ \A p \in DOMAIN d : d[p] \in STRING

LEMMA TreeIs ==
  ASSUME NEW d
  PROVE  IsTree(d) <=> /\ Typed(d) /\ <<>> \in DOMAIN d /\ d[<<>>] = "map"
                       /\ \A p \in DOMAIN d : d[p] = "seq" => Fits(d, p)
<1>1. d \in [DOMAIN d -> STRING] <=> IsFunction(d) /\ \A p \in DOMAIN d : d[p] \in STRING
  BY DEF IsFunction
<1> QED
  BY <1>1 DEF IsTree, Typed, Fits, Counted

LEMMA ChildrenAre ==
  ASSUME NEW d, DOMAIN d \subseteq Path, NEW p \in Path
  PROVE  /\ \A q \in Children(d, p) : q \in DOMAIN d /\ \E x \in STRING : q = Append(p, x)
         /\ \A x \in STRING : Append(p, x) \in DOMAIN d => Append(p, x) \in Children(d, p)
BY LongerIsChild DEF Children

LEMMA LiteralsAre ==
  /\ "map" \in STRING /\ "seq" \in STRING /\ "" \in STRING /\ "x" \in STRING
  /\ "name" \in STRING /\ "llm_provider" \in STRING /\ "llm_model" \in STRING /\ "pinned" \in STRING
  /\ "providers" \in STRING /\ "base_url" \in STRING /\ "api_key" \in STRING /\ "protocol" \in STRING
BY ConfigAssumption DEF Literals, Inner

LEMMA SameChildren ==
  ASSUME NEW d, DOMAIN d \subseteq Path, NEW e, DOMAIN e \subseteq Path, NEW p \in Path,
         \A x \in STRING : Append(p, x) \in DOMAIN d <=> Append(p, x) \in DOMAIN e
  PROVE  Children(e, p) = Children(d, p)
<1>1. ASSUME NEW q \in Children(e, p) PROVE q \in Children(d, p)
  <2>1. PICK x \in STRING : q = Append(p, x) /\ q \in DOMAIN e
    BY ChildrenAre
  <2>2. Append(p, x) \in DOMAIN d
    BY <2>1
  <2>3. Append(p, x) \in Children(d, p)
    BY <2>2, ChildrenAre
  <2> QED
    BY <2>1, <2>3
<1>2. ASSUME NEW q \in Children(d, p) PROVE q \in Children(e, p)
  <2>1. PICK x \in STRING : q = Append(p, x) /\ q \in DOMAIN d
    BY ChildrenAre
  <2>2. Append(p, x) \in DOMAIN e
    BY <2>1
  <2>3. Append(p, x) \in Children(e, p)
    BY <2>2, ChildrenAre
  <2> QED
    BY <2>1, <2>3
<1> QED
  BY <1>1, <1>2

LEMMA NumeralsAre ==
  /\ Len(Numerals) \in Nat
  /\ \A n \in 1..Len(Numerals) : Numerals[n] \in STRING /\ IsNumeric(Numerals[n])
  /\ \A m, n \in 1..Len(Numerals) : Numerals[m] = Numerals[n] => m = n
<1>1. Numerals \in Seq(STRING) /\ DOMAIN Numerals = 1..Len(Numerals)
  BY ConfigAssumption, LenProperties DEF Path
<1>2. \A n \in 1..Len(Numerals) : Numerals[n] \in STRING
  BY <1>1, ElementOfSeq
<1>3. \A n \in 1..Len(Numerals) : IsNumeric(Numerals[n])
  BY <1>1 DEF IsNumeric, Range
<1>4. \A m, n \in 1..Len(Numerals) : Numerals[m] = Numerals[n] => m = n
  BY ConfigAssumption
<1>5. Len(Numerals) \in Nat
  BY <1>1
<1> QED
  BY <1>2, <1>3, <1>4, <1>5

LEMMA ItemIs ==
  ASSUME NEW p \in Path, NEW n \in Nat, n < Len(Numerals)
  PROVE  /\ Item(p, n) \in Path /\ Numerals[n + 1] \in STRING /\ Item(p, n) = Append(p, Numerals[n + 1])
         /\ \A m \in Nat : m < Len(Numerals) /\ Item(p, m) = Item(p, n) => m = n
<1>1. /\ n + 1 \in 1..Len(Numerals)
      /\ \A m \in Nat : m < Len(Numerals) => m + 1 \in 1..Len(Numerals)
  BY NumeralsAre
<1>2. Numerals[n + 1] \in STRING
  BY <1>1, NumeralsAre
<1>3. Item(p, n) \in Path
  BY <1>2, AppendIs DEF Item
<1>4. ASSUME NEW m \in Nat, m < Len(Numerals), Item(p, m) = Item(p, n) PROVE m = n
  <2>1. m + 1 \in 1..Len(Numerals) /\ Numerals[m + 1] \in STRING
    BY <1>1, <1>4, NumeralsAre
  <2>2. Numerals[m + 1] = Numerals[n + 1]
    BY <1>2, <1>4, <2>1, AboveChild DEF Item
  <2>3. m + 1 = n + 1
    BY <1>1, <2>1, <2>2, NumeralsAre
  <2> QED
    BY <2>3
<1> QED
  BY <1>2, <1>3, <1>4 DEF Item

\* A sequence has as many items as children.
LEMMA CountIs ==
  ASSUME NEW d, NEW p \in Path, NEW size \in 0..Len(Numerals), Counted(d, p, size)
  PROVE  Cardinality(Children(d, p)) = size
<1> DEFINE S == 0..(size - 1)
           T == {Item(p, n) : n \in S}
           f == [n \in S |-> Item(p, n)]
<1>1. size \in Nat /\ size <= Len(Numerals)
  BY NumeralsAre
<1>2. \A n \in S : n \in Nat /\ n < Len(Numerals)
  BY <1>1, NumeralsAre
<1>3. IsFiniteSet(S) /\ Cardinality(S) = size
  <2>1. 0 \in Int /\ size - 1 \in Int
    BY <1>1
  <2>2. IsFiniteSet(S) /\ Cardinality(S) = IF 0 > size - 1 THEN 0 ELSE (size - 1) - 0 + 1
    BY <2>1, FS_Interval
  <2> QED
    BY <1>1, <2>2
<1>4. f \in Bijection(S, T)
  <2>1. f \in [S -> T]
    OBVIOUS
  <2>2. \A m, n \in S : f[m] = f[n] => m = n
    BY <1>2, ItemIs
  <2>3. \A t \in T : \E n \in S : f[n] = t
    OBVIOUS
  <2> HIDE DEF f, S, T
  <2> QED
    BY <2>1, <2>2, <2>3 DEF Bijection, Injection, Surjection, IsInjective
<1>5. ExistsBijection(S, T)
  BY <1>4 DEF ExistsBijection
<1>6. Cardinality(T) = size
  BY <1>3, <1>5, FS_Bijection
<1> QED
  BY <1>6 DEF Counted

LEMMA PutIs ==
  ASSUME NEW d, DOMAIN d \subseteq Path, NEW p \in Path, NEW node
  PROVE  /\ p \in DOMAIN Put(d, p, node) /\ Put(d, p, node)[p] = node
         /\ \A q \in DOMAIN d : ~IsPrefix(p, q) => q \in DOMAIN Put(d, p, node) /\ Put(d, p, node)[q] = d[q]
         /\ \A q \in DOMAIN Put(d, p, node) : q = p \/ (q \in DOMAIN d /\ ~IsPrefix(p, q))
BY PrefixOrder DEF Put, Under

LEMMA PutTree ==
  ASSUME NEW d, IsTree(d), NEW p \in DOMAIN d, NEW x \in STRING, NEW node \in STRING,
         d[p] = "seq" => Fits(Put(d, Append(p, x), node), p)
  PROVE  IsTree(Put(d, Append(p, x), node))
<1> DEFINE c == Append(p, x)
           e == Put(d, c, node)
<1>1. Typed(d) /\ <<>> \in DOMAIN d /\ d[<<>>] = "map" /\ \A q \in DOMAIN d : d[q] = "seq" => Fits(d, q)
  BY TreeIs
<1>2. p \in Path /\ c \in Path /\ c # <<>> /\ <<>> \in Path
  BY <1>1, AppendIs DEF Typed, Path
<1>3. /\ c \in DOMAIN e /\ e[c] = node
      /\ \A q \in DOMAIN d : ~IsPrefix(c, q) => q \in DOMAIN e /\ e[q] = d[q]
      /\ \A q \in DOMAIN e : q = c \/ (q \in DOMAIN d /\ ~IsPrefix(c, q))
  BY <1>1, <1>2, PutIs DEF Typed
<1>4. d[p] = "seq" => Fits(e, p)
  OBVIOUS
<1>0. IsFunction(e)
  BY DEF Put, IsFunction
<1> HIDE DEF e
<1>5. Typed(e)
  BY <1>0, <1>1, <1>2, <1>3 DEF Typed
<1>6. ~IsPrefix(c, <<>>)
  <2>1. Len(c) = Len(p) + 1 /\ Len(p) \in Nat
    BY <1>2, AppendIs
  <2>2. Len(<<>>) = 0
    OBVIOUS
  <2> QED
    BY <2>1, <2>2 DEF IsPrefix
<1>7. ASSUME NEW q \in DOMAIN e, e[q] = "seq" PROVE Fits(e, q)
  <2>1. q \in Path
    BY <1>5 DEF Typed
  <2>2. CASE q = c
    <3>1. Children(e, q) = {}
      <4> SUFFICES ASSUME NEW r \in Children(e, q) PROVE FALSE
        OBVIOUS
      <4>1. r \in DOMAIN e /\ \E y \in STRING : r = Append(q, y)
        BY <1>5, <2>1, ChildrenAre DEF Typed
      <4>2. IsPrefix(c, r) /\ r # c
        BY <1>2, <2>2, <4>1, AboveChild, PrefixOrder
      <4> QED
        BY <1>3, <4>1, <4>2
    <3>2. 0 \in 0..Len(Numerals) /\ 0..(0 - 1) = {}
      BY NumeralsAre
    <3>3. Counted(e, q, 0)
      BY <3>1, <3>2 DEF Counted
    <3> QED
      BY <3>2, <3>3 DEF Fits
  <2>3. CASE q = p
    <3>1. q # c
      BY <1>2, <2>3, AboveChild, PrefixOrder
    <3>2. d[p] = "seq"
      BY <1>3, <1>7, <2>3, <3>1
    <3> QED
      BY <1>4, <2>3, <3>2
  <2>4. CASE q # c /\ q # p
    <3>1. q \in DOMAIN d /\ ~IsPrefix(c, q) /\ d[q] = "seq"
      BY <1>3, <1>7, <2>4
    <3>2. ASSUME NEW y \in STRING
          PROVE  Append(q, y) \in DOMAIN d <=> Append(q, y) \in DOMAIN e
      <4>1. Append(q, y) # c
        BY <1>2, <2>1, <2>4, AboveChild
      <4>2. Append(q, y) \in Path /\ ~IsPrefix(c, Append(q, y))
        BY <1>2, <2>1, <3>1, <4>1, AboveChild, AppendIs
      <4> QED
        BY <1>3, <4>1, <4>2
    <3>3. Children(e, q) = Children(d, q)
      BY <1>1, <1>5, <2>1, <3>2, SameChildren DEF Typed
    <3> QED
      BY <1>1, <3>1, <3>3 DEF Fits, Counted
  <2> QED
    BY <2>2, <2>3, <2>4
<1>8. IsTree(e)
  BY <1>1, <1>2, <1>3, <1>5, <1>6, <1>7, TreeIs
<1> QED
  BY <1>8 DEF e

LEMMA NumericIs ==
  ASSUME NEW part, IsNumeric(part)
  PROVE  \E n \in 1..Len(Numerals) : Numerals[n] = part
<1>1. DOMAIN Numerals = 1..Len(Numerals)
  BY ConfigAssumption, LenProperties DEF Path
<1> QED
  BY <1>1 DEF IsNumeric, Range

\* A node that is put below another is one of its children.
LEMMA PutChild ==
  ASSUME NEW d, Typed(d), NEW p \in Path, NEW x \in STRING, NEW node
  PROVE  \A q : q \in Children(Put(d, Append(p, x), node), p) <=> q \in Children(d, p) \/ q = Append(p, x)
<1> DEFINE c == Append(p, x)
           e == Put(d, c, node)
<1>0. DOMAIN d \subseteq Path
  BY DEF Typed
<1>1. c \in Path
  BY AppendIs
<1>2. /\ c \in DOMAIN e
      /\ \A q \in DOMAIN d : ~IsPrefix(c, q) => q \in DOMAIN e
      /\ \A q \in DOMAIN e : q = c \/ q \in DOMAIN d
  BY <1>0, <1>1, PutIs
<1> HIDE DEF e
<1>3. DOMAIN e \subseteq Path
  BY <1>0, <1>1, <1>2
<1>4. ASSUME NEW q \in Children(e, p), q # c PROVE q \in Children(d, p)
  <2>1. PICK y \in STRING : q = Append(p, y) /\ q \in DOMAIN e
    BY <1>3, ChildrenAre
  <2>2. Append(p, y) \in DOMAIN d
    BY <1>2, <1>4, <2>1
  <2>3. Append(p, y) \in Children(d, p)
    BY <1>0, <2>2, ChildrenAre
  <2> QED
    BY <2>1, <2>3
<1>5. ASSUME NEW q \in Children(d, p) PROVE q \in Children(e, p)
  <2>1. PICK y \in STRING : q = Append(p, y) /\ q \in DOMAIN d
    BY <1>0, ChildrenAre
  <2>2. q = c \/ ~IsPrefix(c, q)
    BY <1>1, <2>1, AboveChild
  <2>3. Append(p, y) \in DOMAIN e
    BY <1>2, <2>1, <2>2
  <2>4. Append(p, y) \in Children(e, p)
    BY <1>3, <2>3, ChildrenAre
  <2> QED
    BY <2>1, <2>4
<1>6. c \in Children(e, p)
  BY <1>2, <1>3, ChildrenAre
<1>7. \A q : q \in Children(e, p) <=> q \in Children(d, p) \/ q = c
  BY <1>4, <1>5, <1>6
<1> QED
  BY <1>7 DEF e, c

\* An item of a sequence is replaced, or added after the others.
LEMMA PutItem ==
  ASSUME NEW d, IsTree(d), NEW p \in DOMAIN d, NEW size \in 0..Len(Numerals), Counted(d, p, size),
         NEW n \in 0..size, n < Len(Numerals), NEW node \in STRING
  PROVE  /\ IsTree(Put(d, Item(p, n), node))
         /\ n = size => Counted(Put(d, Item(p, n), node), p, size + 1)
<1>1. size \in Nat /\ size <= Len(Numerals) /\ n \in Nat /\ n <= size /\ Len(Numerals) \in Nat
  BY NumeralsAre
<1>2. Typed(d) /\ p \in Path /\ DOMAIN d \subseteq Path
  BY TreeIs DEF Typed
<1>3. PICK x \in STRING : Item(p, n) = Append(p, x)
  BY <1>1, <1>2, ItemIs
<1> DEFINE e == Put(d, Append(p, x), node)
<1>4. Children(e, p) = Children(d, p) \cup {Item(p, n)}
  <2>1. \A q : q \in Children(e, p) <=> q \in Children(d, p) \/ q = Append(p, x)
    BY <1>2, PutChild
  <2> HIDE DEF e
  <2> QED
    BY <1>3, <2>1
<1> HIDE DEF e
<1>5. ASSUME n = size PROVE Counted(e, p, size + 1)
  <2>1. 0..(size + 1 - 1) = 0..(size - 1) \cup {size}
    BY <1>1
  <2> QED
    BY <1>4, <1>5, <2>1 DEF Counted
<1>6. ASSUME n # size PROVE Counted(e, p, size)
  <2>1. n \in 0..(size - 1)
    BY <1>1, <1>6
  <2> QED
    BY <1>4, <2>1 DEF Counted
<1>7. Fits(e, p)
  <2>1. n = size => size + 1 \in 0..Len(Numerals)
    BY <1>1
  <2> QED
    BY <1>5, <1>6, <2>1 DEF Fits
<1>8. IsTree(e)
  BY <1>3, <1>7, PutTree DEF e
<1> QED
  BY <1>3, <1>5, <1>8 DEF e

\* A sequence that is filled up has the item asked for, and its old ones.
LEMMA FillIs ==
  ASSUME NEW d, IsTree(d), NEW p \in DOMAIN d, d[p] = "seq", NEW part, IsNumeric(part)
  PROVE  /\ IsTree(Fill(d, p, part)) /\ DOMAIN d \subseteq DOMAIN Fill(d, p, part)
         /\ \A q \in DOMAIN d : Fill(d, p, part)[q] = d[q]
         /\ \A q \in DOMAIN Fill(d, p, part) \ DOMAIN d :
              Fill(d, p, part)[q] = "map" /\ \E x \in STRING : IsNumeric(x) /\ q = Append(p, x)
         /\ \E size \in 0..Len(Numerals), n \in 0..Len(Numerals) :
              /\ Counted(Fill(d, p, part), p, size) /\ n < size /\ Append(p, part) = Item(p, n)
              /\ Append(p, part) \in DOMAIN Fill(d, p, part)
<1>1. Typed(d) /\ p \in Path /\ <<>> \in DOMAIN d /\ d[<<>>] = "map" /\ \A q \in DOMAIN d : d[q] = "seq" => Fits(d, q)
  BY TreeIs DEF Typed
<1>2. PICK old \in 0..Len(Numerals) : Counted(d, p, old)
  BY <1>1 DEF Fits
<1> DEFINE upTo == CHOOSE n \in 1..Len(Numerals) : Numerals[n] = part
           missing == {Item(p, n) : n \in Cardinality(Children(d, p))..(upTo - 1)}
           e == [q \in DOMAIN d \cup missing |-> IF q \in missing THEN "map" ELSE d[q]]
<1>3. upTo \in 1..Len(Numerals) /\ Numerals[upTo] = part
  BY NumericIs
<1>4. Fill(d, p, part) = e
  BY DEF Fill
<1>5. Cardinality(Children(d, p)) = old
  BY <1>1, <1>2, CountIs
<1>6. missing = {Item(p, n) : n \in old..(upTo - 1)}
  BY <1>5
<1> HIDE DEF upTo, missing
<1>7. Len(Numerals) \in Nat /\ old \in Nat /\ old <= Len(Numerals) /\ upTo \in Nat /\ upTo >= 1 /\ upTo <= Len(Numerals)
  BY <1>3, NumeralsAre
<1>8. \A n \in old..(upTo - 1) : n \in Nat /\ n < Len(Numerals) /\ n + 1 \in 1..Len(Numerals)
  BY <1>7
<1>9. \A q \in missing : \E x \in STRING : IsNumeric(x) /\ q = Append(p, x)
  <2> SUFFICES ASSUME NEW q \in missing PROVE \E x \in STRING : IsNumeric(x) /\ q = Append(p, x)
    OBVIOUS
  <2>1. PICK n \in old..(upTo - 1) : q = Item(p, n)
    BY <1>6
  <2>2. Numerals[n + 1] \in STRING /\ IsNumeric(Numerals[n + 1]) /\ q = Append(p, Numerals[n + 1])
    BY <1>8, <2>1, NumeralsAre DEF Item
  <2> QED
    BY <2>2
<1>10. ASSUME NEW q \in missing PROVE q \in Path /\ q \notin DOMAIN d
  <2>1. PICK n \in old..(upTo - 1) : q = Item(p, n)
    BY <1>6
  <2>2. q \in Path /\ Numerals[n + 1] \in STRING /\ q = Append(p, Numerals[n + 1])
    BY <1>1, <1>8, <2>1, ItemIs
  <2>3. ASSUME q \in DOMAIN d PROVE FALSE
    <3>1. q \in Children(d, p)
      BY <1>1, <2>2, <2>3, ChildrenAre DEF Typed
    <3>2. PICK m \in 0..(old - 1) : q = Item(p, m)
      BY <1>2, <3>1 DEF Counted
    <3>3. m \in Nat /\ m < Len(Numerals)
      BY <1>7
    <3>4. m = n
      BY <1>1, <1>8, <2>1, <3>2, <3>3, ItemIs
    <3> QED
      BY <1>7, <3>4
  <2> QED
    BY <2>2, <2>3
<1>11. /\ DOMAIN e = DOMAIN d \cup missing
       /\ \A q \in DOMAIN d : e[q] = d[q]
       /\ \A q \in missing : e[q] = "map"
  BY <1>10
<1>0. IsFunction(e)
  BY DEF IsFunction
<1> HIDE DEF e
<1>12. Typed(e) /\ <<>> \in DOMAIN e /\ e[<<>>] = "map"
  BY <1>0, <1>1, <1>10, <1>11 DEF Typed
<1> DEFINE size == IF old >= upTo THEN old ELSE upTo
<1>13. size \in 0..Len(Numerals) /\ 0..(size - 1) = 0..(old - 1) \cup old..(upTo - 1) /\ upTo - 1 < size /\ upTo - 1 \in 0..(size - 1)
  BY <1>7
<1> HIDE DEF size
<1>14. Children(e, p) = Children(d, p) \cup missing
  <2>1. ASSUME NEW q \in Children(e, p), q \notin missing PROVE q \in Children(d, p)
    BY <1>11, <2>1 DEF Children
  <2>2. Children(d, p) \subseteq Children(e, p)
    BY <1>11 DEF Children
  <2>3. ASSUME NEW q \in missing PROVE q \in Children(e, p)
    <3>1. PICK x \in STRING : q = Append(p, x)
      BY <1>9
    <3>2. Append(p, x) \in DOMAIN e
      BY <1>11, <3>1
    <3>3. Append(p, x) \in Children(e, p)
      BY <1>1, <1>12, <3>2, ChildrenAre DEF Typed
    <3> QED
      BY <3>1, <3>3
  <2> QED
    BY <2>1, <2>2, <2>3
<1>15. Counted(e, p, size)
  BY <1>2, <1>6, <1>13, <1>14 DEF Counted
<1>16. ASSUME NEW q \in DOMAIN e, e[q] = "seq" PROVE Fits(e, q)
  <2>1. q \in DOMAIN d /\ d[q] = "seq" /\ q \in Path
    BY <1>11, <1>12, <1>16 DEF Typed
  <2>2. CASE q = p
    BY <1>13, <1>15, <2>2 DEF Fits
  <2>3. CASE q # p
    <3>1. ASSUME NEW x \in STRING PROVE Append(q, x) \notin missing
      <4>1. ASSUME Append(q, x) \in missing PROVE FALSE
        <5>1. PICK y \in STRING : Append(q, x) = Append(p, y)
          BY <1>9, <4>1
        <5> QED
          BY <1>1, <2>1, <2>3, <5>1, AboveChild
      <4> QED
        BY <4>1
    <3>2. \A x \in STRING : Append(q, x) \in DOMAIN d <=> Append(q, x) \in DOMAIN e
      BY <1>11, <3>1
    <3>3. Children(e, q) = Children(d, q)
      BY <1>1, <1>12, <2>1, <3>2, SameChildren DEF Typed
    <3> QED
      BY <1>1, <2>1, <3>3 DEF Fits, Counted
  <2> QED
    BY <2>2, <2>3
<1>17. IsTree(e)
  BY <1>12, <1>16, TreeIs
<1>18. Append(p, part) = Item(p, upTo - 1)
  <2>1. upTo - 1 + 1 = upTo
    BY <1>7
  <2> QED
    BY <1>3, <2>1 DEF Item
<1>19. Item(p, upTo - 1) \in DOMAIN e
  <2>1. Item(p, upTo - 1) \in Children(e, p)
    BY <1>13, <1>15 DEF Counted
  <2> QED
    BY <2>1 DEF Children
<1>20. upTo - 1 \in 0..Len(Numerals)
  BY <1>7
<1>21. \E s \in 0..Len(Numerals), n \in 0..Len(Numerals) :
         /\ Counted(e, p, s) /\ n < s /\ Append(p, part) = Item(p, n)
         /\ Append(p, part) \in DOMAIN e
  BY <1>13, <1>15, <1>18, <1>19, <1>20
<1> QED
  BY <1>4, <1>9, <1>11, <1>17, <1>21

-----------------------------------------------------------------------------
(* Recursive functions of numbers.                                         *)

\* A set of numbers that is not empty has a first one.
LEMMA FirstOf ==
  ASSUME NEW S \in SUBSET Nat, S # {}
  PROVE  \E n \in S : n = 0 \/ (n - 1 \in Nat /\ n - 1 \notin S)
<1>1. PICK n \in S : \A m \in S : <<m, n>> \notin OpToRel(<, Nat)
  BY NatLessThanWellFounded, WFMin
<1>2. \A m \in S : ~(m < n)
  BY <1>1 DEF OpToRel
<1>3. n \in Nat
  OBVIOUS
<1> QED
  BY <1>2, <1>3

\* There is a function that begins with a value and goes on by a step.
Closed(N, D, base, step) == N \in Nat /\ base \in D /\ \A x \in D, n \in 1..N : step[<<x, n>>] \in D

Recursive(f, N, D, base, step) ==
  f \in [0..N -> D] /\ f[0] = base /\ \A n \in 1..N : f[n] = step[<<f[n - 1], n>>]

LEMMA Recursion ==
  ASSUME NEW N, NEW D, NEW base, NEW step, Closed(N, D, base, step)
  PROVE  \E f : Recursive(f, N, D, base, step)
<1> USE DEF Closed, Recursive
<1> DEFINE Goes(f, m) == f[0] = base /\ \A n \in 1..m : f[n] = step[<<f[n - 1], n>>]
           Bad == {m \in 0..N : \A f \in [0..m -> D] : ~Goes(f, m)}
<1>1. Bad = {}
  <2> SUFFICES ASSUME Bad # {} PROVE FALSE
    OBVIOUS
  <2>1. PICK m \in Bad : m = 0 \/ (m - 1 \in Nat /\ m - 1 \notin Bad)
    <3>1. Bad \in SUBSET Nat
      OBVIOUS
    <3> HIDE DEF Bad
    <3> QED
      BY <3>1, FirstOf
  <2>2. CASE m = 0
    <3> DEFINE g == [n \in 0..0 |-> base]
    <3>1. g \in [0..0 -> D] /\ Goes(g, 0)
      OBVIOUS
    <3> QED
      BY <2>1, <2>2, <3>1
  <2>3. CASE m # 0
    <3>1. m \in 1..N /\ m - 1 \in 0..N /\ m \notin 0..m - 1
      BY <2>1, <2>3
    <3>2. PICK f \in [0..m - 1 -> D] : Goes(f, m - 1)
      BY <2>1, <2>3, <3>1
    <3> DEFINE g == [n \in 0..m |-> IF n = m THEN step[<<f[m - 1], m>>] ELSE f[n]]
    <3>3. f[m - 1] \in D /\ step[<<f[m - 1], m>>] \in D
      BY <3>1, <3>2
    <3>4. \A n \in 0..m - 1 : g[n] = f[n] /\ f[n] \in D
      BY <3>1, <3>2
    <3>5. g[m] = step[<<f[m - 1], m>>]
      BY <3>1
    <3>6. g \in [0..m -> D]
      BY <3>1, <3>3, <3>4
    <3> HIDE DEF g
    <3>7. ASSUME NEW n \in 1..m PROVE g[n] = step[<<g[n - 1], n>>]
      <4>1. CASE n = m
        <5>1. g[m - 1] = f[m - 1]
          BY <3>1, <3>4
        <5> QED
          BY <3>5, <4>1, <5>1
      <4>2. CASE n # m
        <5>1. n \in 1..m - 1 /\ n \in 0..m - 1 /\ n - 1 \in 0..m - 1
          BY <3>1, <4>2
        <5> QED
          BY <3>2, <3>4, <5>1
      <4> QED
        BY <4>1, <4>2
    <3>8. Goes(g, m)
      BY <3>1, <3>2, <3>4, <3>7
    <3> QED
      BY <2>1, <3>6, <3>8
  <2> QED
    BY <2>2, <2>3
<1> QED
  BY <1>1


\* What holds at 0 and goes from each number to the next holds up to a bound.
LEMMA UpTo ==
  ASSUME NEW N \in Nat, NEW S, 0 \in S, \A n \in 1..N : n - 1 \in S => n \in S
  PROVE  \A n \in 0..N : n \in S
<1> DEFINE Bad == {n \in 0..N : n \notin S}
<1>1. Bad = {}
  <2> SUFFICES ASSUME Bad # {} PROVE FALSE
    OBVIOUS
  <2>1. PICK n \in Bad : n = 0 \/ (n - 1 \in Nat /\ n - 1 \notin Bad)
    <3>1. Bad \in SUBSET Nat
      OBVIOUS
    <3> HIDE DEF Bad
    <3> QED
      BY <3>1, FirstOf
  <2>2. n \in 1..N /\ n - 1 \in S
    BY <2>1
  <2> QED
    BY <2>1, <2>2
<1> QED
  BY <1>1

-----------------------------------------------------------------------------
(* Writes keep the tree.                                                   *)

LEMMA FrontIs ==
  ASSUME NEW p \in Path, NEW x \in STRING
  PROVE  SubSeq(Append(p, x), 1, Len(p)) = p /\ Len(Append(p, x)) - 1 = Len(p) /\ Len(p) \in Nat
<1>1. IsPrefix(p, Append(p, x)) /\ Len(Append(p, x)) = Len(p) + 1 /\ Len(p) \in Nat
  BY AppendIs, AboveChild
<1>2. SubSeq(p, 1, Len(p)) = p
  BY SubSeqFull DEF Path
<1> QED
  BY <1>1, <1>2 DEF IsPrefix

LEMMA RootIsAbove ==
  ASSUME NEW p \in Path, p # <<>>
  PROVE  ~IsPrefix(p, <<>>)
<1>1. Len(p) \in Nat \ {0} /\ Len(<<>>) = 0
  BY EmptySeq DEF Path
<1> QED
  BY <1>1 DEF IsPrefix

LEMMA DeleteIs ==
  ASSUME NEW d, IsTree(d), NEW parts \in Path, parts # <<>>, CanDelete(d, parts)
  PROVE  /\ IsTree(deletePath(d, parts))
         /\ \A q : q \in DOMAIN deletePath(d, parts) <=> q \in DOMAIN d /\ ~IsPrefix(parts, q)
         /\ \A q \in DOMAIN deletePath(d, parts) : deletePath(d, parts)[q] = d[q]
<1> DEFINE e == deletePath(d, parts)
<1>1. Typed(d) /\ DOMAIN d \subseteq Path /\ <<>> \in DOMAIN d /\ d[<<>>] = "map" /\ \A q \in DOMAIN d : d[q] = "seq" => Fits(d, q)
  BY TreeIs DEF Typed
<1>2. /\ \A q : q \in DOMAIN e <=> q \in DOMAIN d /\ ~IsPrefix(parts, q)
      /\ \A q \in DOMAIN e : e[q] = d[q]
  BY DEF deletePath, Under
<1>0. IsFunction(e)
  BY DEF deletePath, IsFunction
<1> HIDE DEF e
<1>3. Typed(e) /\ DOMAIN e \subseteq Path
  BY <1>0, <1>1, <1>2 DEF Typed
<1>4. <<>> \in DOMAIN e /\ e[<<>>] = "map"
  BY <1>1, <1>2, RootIsAbove
<1>5. ASSUME NEW q \in DOMAIN e, e[q] = "seq" PROVE Fits(e, q)
  <2>1. q \in DOMAIN d /\ d[q] = "seq" /\ q \in Path /\ ~IsPrefix(parts, q)
    BY <1>1, <1>2, <1>5
  <2>2. ASSUME NEW x \in STRING, Append(q, x) \in DOMAIN d PROVE ~IsPrefix(parts, Append(q, x))
    <3> SUFFICES ASSUME IsPrefix(parts, Append(q, x)) PROVE FALSE
      OBVIOUS
    <3>1. parts = Append(q, x)
      BY <2>1, AboveChild
    <3>2. Len(q) \in 0..Len(parts) - 1 /\ SubSeq(parts, 1, Len(q)) = q
      BY <2>1, <3>1, FrontIs
    <3>3. d[SubSeq(parts, 1, Len(q))] = "map"
      BY <3>2 DEF CanDelete
    <3> QED
      BY <2>1, <3>2, <3>3
  <2>3. \A x \in STRING : Append(q, x) \in DOMAIN d <=> Append(q, x) \in DOMAIN e
    BY <1>2, <2>2
  <2>4. Children(e, q) = Children(d, q)
    BY <1>1, <1>3, <2>1, <2>3, SameChildren
  <2> QED
    BY <1>1, <2>1, <2>4 DEF Fits, Counted
<1>6. IsTree(e)
  BY <1>3, <1>4, <1>5, TreeIs
<1> QED
  BY <1>2, <1>6 DEF e

\* A place in a tree.
Trees == UNION {[S -> STRING] : S \in SUBSET Path}
Places == {w \in [doc : Trees, at : Path] : IsTree(w.doc) /\ w.at \in DOMAIN w.doc}

LEMMA PlaceIs ==
  ASSUME NEW d, IsTree(d), NEW p \in DOMAIN d
  PROVE  [doc |-> d, at |-> p] \in Places
<1>1. p \in Path /\ DOMAIN d \in SUBSET Path /\ d \in [DOMAIN d -> STRING]
  BY DEF IsTree
<1>2. d \in Trees
  BY <1>1 DEF Trees
<1> QED
  BY <1>1, <1>2 DEF Places

LEMMA IntoPlaces ==
  ASSUME NEW w \in Places, NEW part \in STRING, NEW next
  PROVE  Into(w, part, next) \in Places
<1> DEFINE d == w.doc
           p == w.at
           child == Append(p, part)
           node == IF IsNumeric(next) THEN "seq" ELSE "map"
<1>1. w = [doc |-> d, at |-> p] /\ IsTree(d) /\ p \in DOMAIN d
  BY DEF Places
<1>2. p \in Path /\ child \in Path /\ node \in STRING
  <2>1. p \in Path
    BY <1>1 DEF IsTree
  <2>2. node \in STRING
    BY LiteralsAre
  <2> QED
    BY <2>1, <2>2, AppendIs
<1>3. CASE d[p] = "seq" /\ IsNumeric(part)
  <2>1. Into(w, part, next) = [doc |-> Fill(d, p, part), at |-> child]
    BY <1>3 DEF Into
  <2>2. IsTree(Fill(d, p, part)) /\ child \in DOMAIN Fill(d, p, part)
    BY <1>1, <1>3, FillIs
  <2> QED
    BY <2>1, <2>2, PlaceIs
<1>4. CASE d[p] = "map" /\ child \in DOMAIN d /\ d[child] \in Inner
  <2>1. Into(w, part, next) = [doc |-> d, at |-> child]
    BY <1>4 DEF Into
  <2> QED
    BY <1>1, <1>4, <2>1, PlaceIs
<1>5. CASE d[p] = "map" /\ ~(child \in DOMAIN d /\ d[child] \in Inner)
  <2>1. Into(w, part, next) = [doc |-> Put(d, child, node), at |-> child]
    BY <1>5 DEF Into
  <2>2. IsTree(Put(d, child, node))
    BY <1>1, <1>2, <1>5, PutTree
  <2>3. child \in DOMAIN Put(d, child, node)
    BY DEF Put
  <2> QED
    BY <2>1, <2>2, <2>3, PlaceIs
<1>6. CASE d[p] # "map" /\ ~(d[p] = "seq" /\ IsNumeric(part))
  BY <1>6 DEF Into
<1> QED
  BY <1>3, <1>4, <1>5, <1>6

\* The way goes on from place to place.
LEMMA WayIs ==
  ASSUME NEW d, [doc |-> d, at |-> <<>>] \in Places, NEW parts \in Path, parts # <<>>
  PROVE  /\ Len(parts) - 1 \in Nat
         /\ Way(d, parts)[0] = [doc |-> d, at |-> <<>>]
         /\ \A n \in 0..Len(parts) - 1 : Way(d, parts)[n] \in Places
         /\ \A n \in 1..Len(parts) - 1 :
              n - 1 \in 0..Len(parts) - 1 /\ Way(d, parts)[n] = Into(Way(d, parts)[n - 1], parts[n], parts[n + 1])
<1> DEFINE N == Len(parts) - 1
           base == [doc |-> d, at |-> <<>>]
           Step(w, n) == Into(w, parts[n], parts[n + 1])
           step == [x \in Places \X (1..N) |-> Step(x[1], x[2])]
           Is(f) == f = [n \in 0..N |-> IF n = 0 THEN base ELSE Step(f[n - 1], n)]
           g == CHOOSE f : Is(f)
<1>1. N \in Nat /\ Len(parts) \in Nat
  BY EmptySeq DEF Path
<1>2. \A n \in 1..N : parts[n] \in STRING
  BY <1>1, ElementOfSeq DEF Path
<1>3. \A w \in Places, n \in 1..N : step[<<w, n>>] = Step(w, n) /\ Step(w, n) \in Places
  <2> SUFFICES ASSUME NEW w \in Places, NEW n \in 1..N
               PROVE  step[<<w, n>>] = Step(w, n) /\ Step(w, n) \in Places
    OBVIOUS
  <2>1. Step(w, n) \in Places
    BY <1>2, IntoPlaces
  <2> HIDE DEF N
  <2>2. step[<<w, n>>] = Step(w, n)
    OBVIOUS
  <2> QED
    BY <2>1, <2>2
<1> HIDE DEF Step
<1>4. PICK f \in [0..N -> Places] : f[0] = base /\ \A n \in 1..N : f[n] = step[<<f[n - 1], n>>]
  <2>1. \A w \in Places, n \in 1..N : step[<<w, n>>] \in Places
    BY <1>3
  <2> HIDE DEF step, N, base
  <2>2. Closed(N, Places, base, step)
    BY <1>1, <2>1 DEF Closed, base
  <2>3. PICK f : Recursive(f, N, Places, base, step)
    BY <2>2, Recursion
  <2> QED
    BY <2>3 DEF Recursive
<1> HIDE DEF step, N, base
<1>5. \A n \in 1..N : n - 1 \in 0..N
  BY <1>1
<1>6. Is(f)
  <2>1. \A n \in 1..N : f[n] = Step(f[n - 1], n)
    BY <1>3, <1>4, <1>5
  <2>2. \A n \in 0..N : f[n] = IF n = 0 THEN base ELSE Step(f[n - 1], n)
    BY <1>1, <1>4, <2>1
  <2> QED
    BY <1>4, <2>2
<1>7. Is(g)
  BY <1>6
<1>8. Way(d, parts) = g
  BY DEF Way, g, Is, Step, N, base
<1> HIDE DEF g
<1>9. g[0] = base /\ \A n \in 1..N : g[n] = Step(g[n - 1], n)
  BY <1>1, <1>5, <1>7
<1>10. \A n \in 0..N : g[n] \in Places
  <2> DEFINE S == {n \in 0..N : g[n] \in Places}
  <2>1. 0 \in S
    BY <1>1, <1>9 DEF base
  <2>2. ASSUME NEW n \in 1..N, n - 1 \in S PROVE n \in S
    <3>1. g[n - 1] \in Places
      BY <2>2
    <3>2. g[n] = Step(g[n - 1], n) /\ Step(g[n - 1], n) \in Places
      BY <1>3, <1>9, <3>1
    <3> QED
      BY <1>1, <3>2
  <2> HIDE DEF S
  <2>3. \A n \in 0..N : n \in S
    BY <1>1, <2>1, <2>2, UpTo
  <2> QED
    BY <2>3 DEF S
<1> QED
  BY <1>1, <1>5, <1>8, <1>9, <1>10 DEF N, base, Step

LEMMA SetTree ==
  ASSUME NEW d, IsTree(d), NEW parts \in Path, parts # <<>>, NEW value \in STRING
  PROVE  IsTree(setPath(d, parts, value))
<1> DEFINE end == Way(d, parts)[Len(parts) - 1]
           part == parts[Len(parts)]
           child == Append(end.at, part)
<1>1. [doc |-> d, at |-> <<>>] \in Places
  BY PlaceIs DEF IsTree
<1>2. Len(parts) \in 1..Len(parts) /\ Len(parts) - 1 \in 0..Len(parts) - 1
  BY EmptySeq DEF Path
<1>3. end \in Places
  BY <1>1, <1>2, WayIs
<1>4. part \in STRING
  BY <1>2, ElementOfSeq DEF Path
<1>5. IsTree(end.doc) /\ end.at \in DOMAIN end.doc
  BY <1>3 DEF Places
<1>6. setPath(d, parts, value) =
        CASE end.doc[end.at] = "seq" /\ IsNumeric(part) -> Put(Fill(end.doc, end.at, part), child, value)
          [] end.doc[end.at] = "map" -> Put(end.doc, child, value)
          [] OTHER -> end.doc
  BY DEF setPath
<1> HIDE DEF end, part
<1>7. CASE end.doc[end.at] = "seq" /\ IsNumeric(part)
  <2> DEFINE e == Fill(end.doc, end.at, part)
  <2>1. setPath(d, parts, value) = Put(e, child, value)
    BY <1>6, <1>7
  <2>2. PICK size \in 0..Len(Numerals), n \in 0..Len(Numerals) :
          Counted(e, end.at, size) /\ n < size /\ child = Item(end.at, n)
    <3>1. PICK t, at : t = end.doc /\ at = end.at
      OBVIOUS
    <3>2. IsTree(t) /\ at \in DOMAIN t /\ t[at] = "seq" /\ IsNumeric(part)
      BY <1>5, <1>7, <3>1
    <3>3. \E size \in 0..Len(Numerals), n \in 0..Len(Numerals) :
            Counted(Fill(t, at, part), at, size) /\ n < size /\ Append(at, part) = Item(at, n)
      BY <3>2, FillIs
    <3> QED
      BY <3>1, <3>3
  <2>3. IsTree(e) /\ end.at \in DOMAIN e
    BY <1>5, <1>7, FillIs
  <2>4. n \in 0..size /\ n < Len(Numerals)
    BY <2>2, NumeralsAre
  <2> HIDE DEF e, child
  <2>5. IsTree(Put(e, Item(end.at, n), value))
    BY <2>2, <2>3, <2>4, PutItem
  <2> QED
    BY <2>1, <2>2, <2>5
<1>8. CASE end.doc[end.at] = "map"
  BY <1>4, <1>5, <1>6, <1>8, PutTree
<1>9. CASE end.doc[end.at] # "map" /\ ~(end.doc[end.at] = "seq" /\ IsNumeric(part))
  BY <1>5, <1>6, <1>9
<1> QED
  BY <1>7, <1>8, <1>9

-----------------------------------------------------------------------------
(* An item is removed.                                                     *)

LEMMA AboveItem ==
  ASSUME NEW p \in Path, NEW k \in Nat, k < Len(Numerals), NEW r \in Path
  PROVE  /\ IsPrefix(Item(p, k), r) <=>
              IsPrefix(p, r) /\ Len(p) + 1 <= Len(r) /\ r[Len(p) + 1] = Numerals[k + 1]
         /\ IsPrefix(Item(p, k), r) => Len(p) + 1 \in 1..Len(r) /\ \A i \in 1..Len(p) : i \in 1..Len(r) /\ p[i] = r[i]
<1> DEFINE c == Item(p, k)
<1>1. /\ c \in Path /\ Len(p) \in Nat /\ Len(c) = Len(p) + 1 /\ Len(r) \in Nat
      /\ \A i \in 1..Len(p) : c[i] = p[i]
      /\ c[Len(p) + 1] = Numerals[k + 1]
  <2>1. Numerals[k + 1] \in STRING /\ c = Append(p, Numerals[k + 1])
    BY ItemIs
  <2>2. Len(r) \in Nat
    BY DEF Path
  <2> HIDE DEF c
  <2> QED
    BY <2>1, <2>2, AppendIs
<1> HIDE DEF c
<1>2. ASSUME IsPrefix(c, r)
      PROVE  /\ IsPrefix(p, r) /\ Len(p) + 1 <= Len(r) /\ r[Len(p) + 1] = Numerals[k + 1]
             /\ \A i \in 1..Len(p) : p[i] = r[i]
  <2>1. Len(c) <= Len(r) /\ \A i \in 1..Len(c) : c[i] = r[i]
    BY <1>1, <1>2, PrefixIs
  <2>2. \A i \in 1..Len(p) : p[i] = r[i]
    BY <1>1, <2>1
  <2>3. Len(p) + 1 \in 1..Len(c)
    BY <1>1
  <2>4. Len(p) <= Len(r)
    BY <1>1, <2>1
  <2> QED
    BY <1>1, <2>1, <2>2, <2>3, <2>4, PrefixIs
<1>3. ASSUME IsPrefix(p, r), Len(p) + 1 <= Len(r), r[Len(p) + 1] = Numerals[k + 1] PROVE IsPrefix(c, r)
  <2>1. \A i \in 1..Len(p) : p[i] = r[i]
    BY <1>3, PrefixIs
  <2>2. \A i \in 1..Len(c) : c[i] = r[i]
    BY <1>1, <1>3, <2>1
  <2> QED
    BY <1>1, <1>3, <2>2, PrefixIs
<1>4. IsPrefix(c, r) => Len(p) + 1 \in 1..Len(r) /\ \A i \in 1..Len(p) : i \in 1..Len(r) /\ p[i] = r[i]
  BY <1>1, <1>2
<1> QED
  BY <1>2, <1>3, <1>4 DEF c

\* A path under an item, and the same path under the item before.
Up(p, k, r) == [r EXCEPT ![Len(p) + 1] = Numerals[k]]

LEMMA UpIs ==
  ASSUME NEW p \in Path, NEW k \in Nat \ {0}, k < Len(Numerals), NEW r \in Path, IsPrefix(Item(p, k), r)
  PROVE  /\ Up(p, k, r) \in Path /\ Len(Up(p, k, r)) = Len(r)
         /\ IsPrefix(Item(p, k - 1), Up(p, k, r))
         /\ Up(p, k, r)[Len(p) + 1] = Numerals[k]
         /\ \A i \in 1..Len(r) : i # Len(p) + 1 => Up(p, k, r)[i] = r[i]
<1> DEFINE u == Up(p, k, r)
           at == Len(p) + 1
<1>1. Len(p) \in Nat /\ Len(r) \in Nat /\ at \in 1..Len(r) /\ \A i \in 1..Len(p) : i \in 1..Len(r) /\ p[i] = r[i]
  BY AboveItem DEF Path
<1>2. k - 1 \in Nat /\ k - 1 < Len(Numerals) /\ k \in 1..Len(Numerals) /\ k - 1 + 1 = k
  BY NumeralsAre
<1>3. Numerals[k] \in STRING
  BY <1>2, NumeralsAre
<1> HIDE DEF at
<1>4. /\ u \in Path /\ Len(u) = Len(r)
      /\ \A j \in 1..Len(r) : u[j] = IF j = at THEN Numerals[k] ELSE r[j]
  BY <1>1, <1>3, ExceptSeq DEF Path, Up, at
<1> HIDE DEF u
<1>5. u[at] = Numerals[k] /\ \A i \in 1..Len(r) : i # at => u[i] = r[i]
  BY <1>1, <1>4
<1>6. IsPrefix(p, u)
  <2>1. \A i \in 1..Len(p) : p[i] = u[i]
    BY <1>1, <1>5 DEF at
  <2>2. Len(p) <= Len(u)
    BY <1>1, <1>4 DEF at
  <2> QED
    BY <1>4, <2>1, <2>2, PrefixIs
<1>7. IsPrefix(Item(p, k - 1), u)
  <2>1. Len(p) + 1 <= Len(u) /\ u[Len(p) + 1] = Numerals[k - 1 + 1]
    BY <1>1, <1>2, <1>4, <1>5 DEF at
  <2> QED
    BY <1>2, <1>4, <1>6, <2>1, AboveItem
<1> QED
  BY <1>4, <1>5, <1>7 DEF u, at

LEMMA OneItem ==
  ASSUME NEW p \in Path, NEW r \in Path, NEW j \in Nat, j < Len(Numerals), NEW k \in Nat, k < Len(Numerals),
         IsPrefix(Item(p, j), r), IsPrefix(Item(p, k), r)
  PROVE  j = k
<1>1. Numerals[j + 1] = Numerals[k + 1]
  BY AboveItem
<1>2. j + 1 \in 1..Len(Numerals) /\ k + 1 \in 1..Len(Numerals)
  BY NumeralsAre
<1>3. j + 1 = k + 1
  BY <1>1, <1>2, NumeralsAre
<1> QED
  BY <1>3

LEMMA UpOnce ==
  ASSUME NEW p \in Path, NEW j \in Nat \ {0}, j < Len(Numerals), NEW k \in Nat \ {0}, k < Len(Numerals),
         NEW r \in Path, IsPrefix(Item(p, j), r), NEW s \in Path, IsPrefix(Item(p, k), s),
         Up(p, j, r) = Up(p, k, s)
  PROVE  j = k /\ r = s
<1>1. Numerals[j] = Numerals[k]
  BY UpIs
<1>2. j = k
  <2>1. j \in 1..Len(Numerals) /\ k \in 1..Len(Numerals)
    BY NumeralsAre
  <2> QED
    BY <1>1, <2>1, NumeralsAre
<1>3. Len(r) = Len(s) /\ Len(r) \in Nat
  BY UpIs DEF Path
<1>4. r[Len(p) + 1] = s[Len(p) + 1]
  BY <1>2, AboveItem
<1>5. ASSUME NEW i \in 1..Len(r), i # Len(p) + 1 PROVE r[i] = s[i]
  <2>1. Up(p, j, r)[i] = r[i]
    BY <1>5, UpIs
  <2>2. Up(p, k, s)[i] = s[i]
    BY <1>3, <1>5, UpIs
  <2> QED
    BY <2>1, <2>2
<1>6. r = s
  BY <1>3, <1>4, <1>5, PathEqual
<1> QED
  BY <1>2, <1>6

LEMMA UpAppend ==
  ASSUME NEW p \in Path, NEW k \in Nat \ {0}, k < Len(Numerals), NEW r \in Path, IsPrefix(Item(p, k), r),
         NEW x \in STRING
  PROVE  IsPrefix(Item(p, k), Append(r, x)) /\ Up(p, k, Append(r, x)) = Append(Up(p, k, r), x)
<1> DEFINE c == Append(r, x)
           u == Up(p, k, r)
           v == Up(p, k, c)
           a == Append(u, x)
<1>1. /\ c \in Path /\ Len(r) \in Nat /\ Len(c) = Len(r) + 1
      /\ \A i \in 1..Len(r) : c[i] = r[i]
      /\ c[Len(r) + 1] = x
  BY AppendIs
<1>2. k \in Nat /\ Item(p, k) \in Path
  BY ItemIs
<1>3. IsPrefix(Item(p, k), c)
  BY <1>2, AboveChild
<1>4. /\ u \in Path /\ Len(u) = Len(r) /\ u[Len(p) + 1] = Numerals[k]
      /\ \A i \in 1..Len(r) : i # Len(p) + 1 => u[i] = r[i]
  BY UpIs
<1> HIDE DEF c, u
<1>5. /\ v \in Path /\ Len(v) = Len(c) /\ v[Len(p) + 1] = Numerals[k]
      /\ \A i \in 1..Len(c) : i # Len(p) + 1 => v[i] = c[i]
  BY <1>1, <1>3, UpIs
<1>6. /\ a \in Path /\ Len(a) = Len(u) + 1
      /\ \A i \in 1..Len(u) : a[i] = u[i]
      /\ a[Len(u) + 1] = x
  BY <1>4, AppendIs
<1> HIDE DEF v, a
<1>7. Len(p) + 1 \in 1..Len(r)
  BY AboveItem
<1>8. ASSUME NEW i \in 1..Len(v) PROVE v[i] = a[i]
  <2>1. CASE i = Len(r) + 1
    <3>1. i # Len(p) + 1 /\ i \in 1..Len(c)
      BY <1>1, <1>7, <2>1
    <3> QED
      BY <1>1, <1>4, <1>5, <1>6, <2>1, <3>1
  <2>2. CASE i = Len(p) + 1
    BY <1>4, <1>5, <1>6, <1>7, <2>2
  <2>3. CASE i # Len(r) + 1 /\ i # Len(p) + 1
    <3>1. i \in 1..Len(r) /\ i \in 1..Len(c) /\ i \in 1..Len(u)
      BY <1>1, <1>4, <1>5, <2>3
    <3> QED
      BY <1>1, <1>4, <1>5, <1>6, <2>3, <3>1
  <2> QED
    BY <2>1, <2>2, <2>3
<1>9. v = a
  <2>1. Len(v) = Len(a)
    BY <1>1, <1>4, <1>5, <1>6
  <2> QED
    BY <1>5, <1>6, <1>8, <2>1, PathEqual
<1> QED
  BY <1>3, <1>9 DEF c, u, v, a

LEMMA RemoveIs ==
  ASSUME NEW d, IsTree(d), NEW p \in DOMAIN d, d[p] = "seq",
         NEW size \in 0..Len(Numerals), Counted(d, p, size), NEW n \in 0..(size - 1)
  PROVE  /\ \A q \in DOMAIN d : (\A k \in n..(size - 1) : ~IsPrefix(Item(p, k), q)) =>
              q \in DOMAIN RemoveItem(d, p, n) /\ RemoveItem(d, p, n)[q] = d[q]
         /\ \A k \in (n + 1)..(size - 1) : \A r \in DOMAIN d : IsPrefix(Item(p, k), r) =>
              Up(p, k, r) \in DOMAIN RemoveItem(d, p, n) /\ RemoveItem(d, p, n)[Up(p, k, r)] = d[r]
         /\ \A q \in DOMAIN RemoveItem(d, p, n) :
              \/ q \in DOMAIN d /\ \A k \in n..(size - 1) : ~IsPrefix(Item(p, k), q)
              \/ \E k \in (n + 1)..(size - 1) : \E r \in DOMAIN d : IsPrefix(Item(p, k), r) /\ q = Up(p, k, r)
         /\ IsFunction(RemoveItem(d, p, n))
<1> DEFINE e == RemoveItem(d, p, n)
           stay == {q \in DOMAIN d : \A k \in n..(size - 1) : ~IsPrefix(Item(p, k), q)}
           after == UNION {Under(d, Item(p, k)) : k \in (n + 1)..(size - 1)}
           up(q) == [q EXCEPT ![Len(p) + 1] = Numerals[(CHOOSE k \in (n + 1)..(size - 1) : IsPrefix(Item(p, k), q))]]
<1>1. Typed(d) /\ DOMAIN d \subseteq Path /\ p \in Path
  BY TreeIs DEF Typed
<1>2. Cardinality(Children(d, p)) = size
  BY <1>1, CountIs
<1>3. size \in Nat /\ size <= Len(Numerals) /\ n \in Nat /\ n < size /\ Len(Numerals) \in Nat
  BY NumeralsAre
<1>4. \A k \in n..(size - 1) : k \in Nat /\ k < Len(Numerals)
  BY <1>3
<1>5. \A k \in (n + 1)..(size - 1) : k \in Nat \ {0} /\ k < Len(Numerals) /\ k - 1 \in n..(size - 1) /\ k \in n..(size - 1)
  BY <1>3
<1>6. e = [q \in stay \cup {up(r) : r \in after} |-> IF q \in stay THEN d[q] ELSE d[CHOOSE r \in after : up(r) = q]]
  BY <1>2 DEF RemoveItem
<1>7. ASSUME NEW k \in (n + 1)..(size - 1), NEW r \in DOMAIN d, IsPrefix(Item(p, k), r)
      PROVE  r \in after /\ up(r) = Up(p, k, r) /\ up(r) \notin stay
  <2>1. r \in Under(d, Item(p, k))
    BY <1>7 DEF Under
  <2>2. r \in after
    BY <2>1
  <2>3. r \in Path
    BY <1>1
  <2>4. \A j \in (n + 1)..(size - 1) : IsPrefix(Item(p, j), r) => j = k
    BY <1>1, <1>5, <1>7, <2>3, OneItem
  <2>5. (CHOOSE j \in (n + 1)..(size - 1) : IsPrefix(Item(p, j), r)) = k
    BY <1>7, <2>4
  <2>6. up(r) = Up(p, k, r)
    BY <2>5 DEF Up
  <2>7. IsPrefix(Item(p, k - 1), Up(p, k, r))
    BY <1>1, <1>5, <1>7, <2>3, UpIs
  <2>8. up(r) \notin stay
    BY <1>5, <2>6, <2>7
  <2> QED
    BY <2>2, <2>6, <2>8
<1>8. ASSUME NEW r \in after
      PROVE  r \in DOMAIN d /\ \E k \in (n + 1)..(size - 1) : IsPrefix(Item(p, k), r)
  BY DEF Under
<1> HIDE DEF after, up, stay
<1>9. ASSUME NEW k \in (n + 1)..(size - 1), NEW r \in DOMAIN d, IsPrefix(Item(p, k), r)
      PROVE  Up(p, k, r) \in DOMAIN e /\ e[Up(p, k, r)] = d[r]
  <2>1. r \in after /\ up(r) = Up(p, k, r) /\ up(r) \notin stay
    BY <1>7, <1>9
  <2>2. ASSUME NEW s \in after, up(s) = up(r) PROVE s = r
    <3>1. PICK j \in (n + 1)..(size - 1) : s \in DOMAIN d /\ IsPrefix(Item(p, j), s)
      BY <1>8
    <3>2. up(s) = Up(p, j, s)
      BY <1>7, <3>1
    <3>3. s \in Path /\ r \in Path
      BY <1>1, <3>1
    <3> QED
      BY <1>1, <1>5, <1>9, <2>1, <2>2, <3>1, <3>2, <3>3, UpOnce
  <2>3. (CHOOSE s \in after : up(s) = up(r)) = r
    BY <2>1, <2>2
  <2> QED
    BY <1>6, <2>1, <2>3
<1>10. ASSUME NEW q \in DOMAIN e, q \notin stay
       PROVE  \E k \in (n + 1)..(size - 1) : \E r \in DOMAIN d : IsPrefix(Item(p, k), r) /\ q = Up(p, k, r)
  <2>1. PICK r \in after : q = up(r)
    BY <1>6, <1>10
  <2>2. PICK k \in (n + 1)..(size - 1) : r \in DOMAIN d /\ IsPrefix(Item(p, k), r)
    BY <1>8
  <2>3. up(r) = Up(p, k, r)
    BY <1>7, <2>2
  <2> QED
    BY <2>1, <2>2, <2>3
<1>11. \A q \in stay : q \in DOMAIN e /\ e[q] = d[q]
  BY <1>6
<1>12. \A q : q \in stay <=> q \in DOMAIN d /\ \A k \in n..(size - 1) : ~IsPrefix(Item(p, k), q)
  BY DEF stay
<1>13. IsFunction(e)
  BY <1>6 DEF IsFunction
<1> HIDE DEF e
<1>14. /\ \A q \in DOMAIN d : (\A k \in n..(size - 1) : ~IsPrefix(Item(p, k), q)) => q \in DOMAIN e /\ e[q] = d[q]
       /\ \A q \in DOMAIN e :
              \/ q \in DOMAIN d /\ \A k \in n..(size - 1) : ~IsPrefix(Item(p, k), q)
              \/ \E k \in (n + 1)..(size - 1) : \E r \in DOMAIN d : IsPrefix(Item(p, k), r) /\ q = Up(p, k, r)
  BY <1>10, <1>11, <1>12
<1> QED
  BY <1>9, <1>13, <1>14 DEF e

LEMMA RemoveTree ==
  ASSUME NEW d, IsTree(d), NEW p \in DOMAIN d, d[p] = "seq",
         NEW size \in 0..Len(Numerals), Counted(d, p, size), NEW n \in 0..(size - 1)
  PROVE  /\ IsTree(RemoveItem(d, p, n)) /\ Counted(RemoveItem(d, p, n), p, size - 1)
         /\ p \in DOMAIN RemoveItem(d, p, n) /\ RemoveItem(d, p, n)[p] = "seq"
         /\ \A k \in 0..(n - 1) : RemoveItem(d, p, n)[Item(p, k)] = d[Item(p, k)] /\ Item(p, k) \in DOMAIN d
         /\ \A k \in (n + 1)..(size - 1) : RemoveItem(d, p, n)[Item(p, k - 1)] = d[Item(p, k)] /\ Item(p, k) \in DOMAIN d
<1> DEFINE e == RemoveItem(d, p, n)
           Stays(q) == \A k \in n..(size - 1) : ~IsPrefix(Item(p, k), q)
<1>1. Typed(d) /\ DOMAIN d \subseteq Path /\ p \in Path /\ <<>> \in DOMAIN d /\ d[<<>>] = "map" /\ \A q \in DOMAIN d : d[q] = "seq" => Fits(d, q)
  BY TreeIs DEF Typed
<1>2. size \in Nat /\ size <= Len(Numerals) /\ n \in Nat /\ n < size /\ Len(Numerals) \in Nat
  BY NumeralsAre
<1>3. \A k \in 0..(size - 1) : k \in Nat /\ k < Len(Numerals)
  BY <1>2
<1>4. \A k \in (n + 1)..(size - 1) : k \in Nat \ {0} /\ k < Len(Numerals) /\ k - 1 \in n..(size - 1) /\ k \in n..(size - 1)
  BY <1>2
<1>5. \A k \in n..(size - 1) : k \in Nat /\ k < Len(Numerals) /\ k \in 0..(size - 1)
  BY <1>2
<1>6. \A q \in DOMAIN d : Stays(q) => q \in DOMAIN e /\ e[q] = d[q]
  BY RemoveIs
<1>7. ASSUME NEW k \in (n + 1)..(size - 1), NEW r \in DOMAIN d, IsPrefix(Item(p, k), r)
      PROVE  Up(p, k, r) \in DOMAIN e /\ e[Up(p, k, r)] = d[r]
  BY <1>7, RemoveIs
<1>8. ASSUME NEW q \in DOMAIN e
      PROVE  \/ q \in DOMAIN d /\ Stays(q)
             \/ \E k \in (n + 1)..(size - 1) : \E r \in DOMAIN d : IsPrefix(Item(p, k), r) /\ q = Up(p, k, r)
  BY RemoveIs
<1>9. IsFunction(e)
  BY RemoveIs
<1> HIDE DEF e
<1>10. ASSUME NEW k \in (n + 1)..(size - 1), NEW r \in DOMAIN d, IsPrefix(Item(p, k), r)
       PROVE  Up(p, k, r) \in Path /\ IsPrefix(Item(p, k - 1), Up(p, k, r)) /\ ~Stays(Up(p, k, r))
  <2>1. Up(p, k, r) \in Path /\ IsPrefix(Item(p, k - 1), Up(p, k, r))
    BY <1>1, <1>4, <1>10, UpIs
  <2> QED
    BY <1>4, <2>1
<1>11. Typed(e)
  <2>1. ASSUME NEW q \in DOMAIN e PROVE q \in Path /\ e[q] \in STRING
    <3>1. CASE q \in DOMAIN d /\ Stays(q)
      BY <1>1, <1>6, <3>1 DEF Typed
    <3>2. CASE \E k \in (n + 1)..(size - 1) : \E r \in DOMAIN d : IsPrefix(Item(p, k), r) /\ q = Up(p, k, r)
      BY <1>1, <1>7, <1>10, <3>2 DEF Typed
    <3> QED
      BY <1>8, <3>1, <3>2
  <2> QED
    BY <1>9, <2>1 DEF Typed
<1>12. Stays(<<>>)
  <2> SUFFICES ASSUME NEW k \in n..(size - 1) PROVE ~IsPrefix(Item(p, k), <<>>)
    OBVIOUS
  <2>1. Item(p, k) \in Path /\ Item(p, k) # <<>>
    BY <1>1, <1>5, ItemIs, AppendIs
  <2> QED
    BY <2>1, RootIsAbove
<1>13. Stays(p)
  <2> SUFFICES ASSUME NEW k \in n..(size - 1) PROVE ~IsPrefix(Item(p, k), p)
    OBVIOUS
  <2>1. Numerals[k + 1] \in STRING /\ Item(p, k) = Append(p, Numerals[k + 1])
    BY <1>1, <1>5, ItemIs
  <2>2. ~IsPrefix(Append(p, Numerals[k + 1]), p)
    BY <1>1, <2>1, AboveChild
  <2> QED
    BY <2>1, <2>2
<1>14. <<>> \in DOMAIN e /\ e[<<>>] = "map" /\ p \in DOMAIN e /\ e[p] = "seq"
  BY <1>1, <1>6, <1>12, <1>13
<1>15. ASSUME NEW k \in 0..(size - 1)
       PROVE  Item(p, k) \in DOMAIN d /\ Item(p, k) \in Path /\ Len(Item(p, k)) = Len(p) + 1 /\ IsPrefix(Item(p, k), Item(p, k))
  <2>1. Item(p, k) \in DOMAIN d
    BY DEF Counted, Children
  <2>2. Item(p, k) \in Path
    BY <1>1, <2>1
  <2>3. Len(Item(p, k)) = Len(p) + 1
    BY <1>1, <1>3, ItemIs, AppendIs
  <2>4. IsPrefix(Item(p, k), Item(p, k))
    BY <2>2, PrefixOrder
  <2> QED
    BY <2>1, <2>2, <2>3, <2>4
<1>16. ASSUME NEW k \in 0..(n - 1) PROVE k \in 0..(size - 1) /\ Stays(Item(p, k)) /\ Item(p, k) \in DOMAIN e /\ e[Item(p, k)] = d[Item(p, k)]
  <2>1. k \in 0..(size - 1) /\ k \in Nat /\ k < Len(Numerals)
    BY <1>2
  <2>2. Item(p, k) \in DOMAIN d /\ Item(p, k) \in Path /\ IsPrefix(Item(p, k), Item(p, k))
    BY <1>15, <2>1
  <2>3. ASSUME NEW j \in n..(size - 1), IsPrefix(Item(p, j), Item(p, k)) PROVE FALSE
    <3>1. j = k
      BY <1>1, <1>5, <2>1, <2>2, <2>3, OneItem
    <3> QED
      BY <1>2, <3>1
  <2>4. Stays(Item(p, k))
    BY <2>3
  <2> QED
    BY <1>6, <2>1, <2>2, <2>4
<1>17. ASSUME NEW k \in (n + 1)..(size - 1)
       PROVE  /\ k \in 0..(size - 1) /\ Up(p, k, Item(p, k)) = Item(p, k - 1)
              /\ Item(p, k - 1) \in DOMAIN e /\ e[Item(p, k - 1)] = d[Item(p, k)]
  <2>1. k \in 0..(size - 1) /\ k - 1 \in 0..(size - 1)
    BY <1>2
  <2>2. /\ Item(p, k) \in DOMAIN d /\ Item(p, k) \in Path /\ IsPrefix(Item(p, k), Item(p, k)) /\ Len(Item(p, k)) = Len(p) + 1
        /\ Item(p, k - 1) \in Path /\ Len(Item(p, k - 1)) = Len(p) + 1
    BY <1>15, <2>1
  <2> DEFINE u == Up(p, k, Item(p, k))
             b == Item(p, k - 1)
  <2>3. u \in Path /\ Len(u) = Len(p) + 1 /\ IsPrefix(b, u)
    BY <1>1, <1>4, <2>2, UpIs
  <2> HIDE DEF u, b
  <2>4. b \in Path /\ Len(b) = Len(p) + 1
    BY <2>2 DEF b
  <2>5. \A i \in 1..Len(b) : b[i] = u[i]
    BY <2>3, <2>4, PrefixIs
  <2>6. u = b
    BY <2>3, <2>4, <2>5, PathEqual
  <2>7. u \in DOMAIN e /\ e[u] = d[Item(p, k)]
    BY <1>7, <2>2 DEF u
  <2> QED
    BY <2>1, <2>6, <2>7 DEF u, b
<1>18. Counted(e, p, size - 1)
  <2>1. ASSUME NEW q \in Children(e, p) PROVE \E k \in 0..(size - 1 - 1) : q = Item(p, k)
    <3>1. q \in DOMAIN e /\ Len(q) = Len(p) + 1 /\ IsPrefix(p, q)
      BY DEF Children
    <3>2. CASE q \in DOMAIN d /\ Stays(q)
      <4>1. q \in Children(d, p)
        BY <3>1, <3>2 DEF Children
      <4>2. PICK k \in 0..(size - 1) : q = Item(p, k)
        BY <4>1 DEF Counted
      <4>3. k \notin n..(size - 1)
        BY <1>15, <3>2, <4>2
      <4>4. k \in 0..(size - 1 - 1)
        BY <1>2, <4>3
      <4> QED
        BY <4>2, <4>4
    <3>3. ASSUME NEW k \in (n + 1)..(size - 1), NEW r \in DOMAIN d, IsPrefix(Item(p, k), r), q = Up(p, k, r)
          PROVE  \E j \in 0..(size - 1 - 1) : q = Item(p, j)
      <4>1. Len(r) = Len(p) + 1 /\ r \in Path
        BY <1>1, <1>4, <3>1, <3>3, UpIs
      <4>2. r = Item(p, k)
        <5>1. k \in 0..(size - 1)
          BY <1>2
        <5>2. Item(p, k) \in Path /\ Len(Item(p, k)) = Len(r)
          BY <1>15, <4>1, <5>1
        <5>3. \A i \in 1..Len(Item(p, k)) : Item(p, k)[i] = r[i]
          BY <3>3, <4>1, <5>2, PrefixIs
        <5> QED
          BY <4>1, <5>2, <5>3, PathEqual
      <4>3. q = Item(p, k - 1)
        BY <1>17, <3>3, <4>2
      <4>4. k - 1 \in 0..(size - 1 - 1)
        BY <1>2
      <4> QED
        BY <4>3, <4>4
    <3> QED
      BY <1>8, <3>1, <3>2, <3>3
  <2>2. ASSUME NEW k \in 0..(size - 1 - 1) PROVE Item(p, k) \in Children(e, p)
    <3>1. Item(p, k) \in DOMAIN e
      <4>1. CASE k < n
        <5>1. k \in 0..(n - 1)
          BY <1>2, <4>1
        <5> QED
          BY <1>16, <5>1
      <4>2. CASE k >= n
        <5>1. k + 1 \in (n + 1)..(size - 1) /\ k + 1 - 1 = k
          BY <1>2, <4>2
        <5>2. \A j \in (n + 1)..(size - 1) : Item(p, j - 1) \in DOMAIN e
          BY <1>17
        <5>3. Item(p, (k + 1) - 1) \in DOMAIN e
          BY <5>1, <5>2
        <5> QED
          BY <5>1, <5>3
      <4> QED
        BY <1>2, <4>1, <4>2
    <3>2. k \in Nat /\ k < Len(Numerals)
      BY <1>2
    <3>3. Numerals[k + 1] \in STRING /\ Item(p, k) = Append(p, Numerals[k + 1])
      BY <1>1, <3>2, ItemIs
    <3>4. DOMAIN e \subseteq Path
      BY <1>11 DEF Typed
    <3>5. Append(p, Numerals[k + 1]) \in DOMAIN e
      BY <3>1, <3>3
    <3>6. Append(p, Numerals[k + 1]) \in Children(e, p)
      BY <1>1, <3>3, <3>4, <3>5, ChildrenAre
    <3> QED
      BY <3>3, <3>6
  <2>3. Children(e, p) = {Item(p, k) : k \in 0..(size - 1 - 1)}
    BY <2>1, <2>2
  <2> QED
    BY <2>3 DEF Counted
<1>19. ASSUME NEW q \in DOMAIN e, e[q] = "seq", q # p PROVE Fits(e, q)
  <2>1. q \in Path /\ DOMAIN e \subseteq Path
    BY <1>11 DEF Typed
  <2>2. CASE q \in DOMAIN d /\ Stays(q)
    <3>1. ASSUME NEW x \in STRING PROVE Stays(Append(q, x))
      <4> SUFFICES ASSUME NEW k \in n..(size - 1), IsPrefix(Item(p, k), Append(q, x)) PROVE FALSE
        OBVIOUS
      <4>1. Numerals[k + 1] \in STRING /\ Item(p, k) = Append(p, Numerals[k + 1]) /\ Item(p, k) \in Path
        BY <1>1, <1>5, ItemIs
      <4>2. IsPrefix(Item(p, k), q) \/ Item(p, k) = Append(q, x)
        BY <2>1, <4>1, AboveChild
      <4>3. Item(p, k) # Append(q, x)
        BY <1>1, <1>19, <2>1, <4>1, AboveChild
      <4> QED
        BY <2>2, <4>2, <4>3
    <3>2. ASSUME NEW x \in STRING PROVE Append(q, x) \in DOMAIN d <=> Append(q, x) \in DOMAIN e
      <4>1. ASSUME Append(q, x) \in DOMAIN d PROVE Append(q, x) \in DOMAIN e
        BY <1>6, <3>1, <4>1
      <4>2. ASSUME Append(q, x) \in DOMAIN e PROVE Append(q, x) \in DOMAIN d
        BY <1>8, <1>10, <3>1, <4>2
      <4> QED
        BY <4>1, <4>2
    <3>3. Children(e, q) = Children(d, q)
      BY <1>1, <2>1, <3>2, SameChildren
    <3>4. d[q] = "seq"
      BY <1>6, <1>19, <2>2
    <3> QED
      BY <1>1, <2>2, <3>3, <3>4 DEF Fits, Counted
  <2>3. ASSUME NEW k \in (n + 1)..(size - 1), NEW r \in DOMAIN d, IsPrefix(Item(p, k), r), q = Up(p, k, r)
        PROVE  Fits(e, q)
    <3>1. d[r] = "seq" /\ r \in Path
      BY <1>1, <1>7, <1>19, <2>3
    <3>2. PICK s \in 0..Len(Numerals) : Counted(d, r, s)
      BY <1>1, <3>1 DEF Fits
    <3>3. ASSUME NEW x \in STRING PROVE Append(r, x) \in DOMAIN d <=> Append(q, x) \in DOMAIN e
      <4>1. IsPrefix(Item(p, k), Append(r, x)) /\ Up(p, k, Append(r, x)) = Append(q, x)
        BY <1>1, <1>4, <2>3, <3>1, UpAppend
      <4>2. ASSUME Append(r, x) \in DOMAIN d PROVE Append(q, x) \in DOMAIN e
        BY <1>7, <4>1, <4>2
      <4>3. ASSUME Append(q, x) \in DOMAIN e PROVE Append(r, x) \in DOMAIN d
        <5>1. ~Stays(Append(q, x))
          <6>1. k - 1 \in n..(size - 1) /\ k - 1 \in Nat /\ k - 1 < Len(Numerals)
            BY <1>2, <1>4
          <6>2. IsPrefix(Item(p, k - 1), q) /\ Item(p, k - 1) \in Path
            BY <1>1, <1>10, <2>3, <6>1, ItemIs
          <6>3. IsPrefix(Item(p, k - 1), Append(q, x))
            BY <2>1, <6>2, AboveChild
          <6> QED
            BY <6>1, <6>3
        <5>2. PICK j \in (n + 1)..(size - 1), t \in DOMAIN d : IsPrefix(Item(p, j), t) /\ Append(q, x) = Up(p, j, t)
          BY <1>8, <4>3, <5>1
        <5>3. t \in Path /\ Append(r, x) \in Path
          BY <1>1, <3>1, AppendIs
        <5>4. /\ j \in Nat \ {0} /\ j < Len(Numerals) /\ k \in Nat \ {0} /\ k < Len(Numerals)
              /\ IsPrefix(Item(p, j), t) /\ IsPrefix(Item(p, k), Append(r, x))
              /\ Up(p, j, t) = Up(p, k, Append(r, x))
          BY <1>4, <4>1, <5>2
        <5>5. t = Append(r, x)
          BY <1>1, <5>3, <5>4, UpOnce
        <5> QED
          BY <5>2, <5>5
      <4> QED
        BY <4>2, <4>3
    <3>4. \A j \in 0..(s - 1) : j \in Nat /\ j < Len(Numerals)
      BY <1>2
    <3>5. ASSUME NEW c \in Children(e, q) PROVE \E j \in 0..(s - 1) : c = Item(q, j)
      <4>1. PICK x \in STRING : c = Append(q, x) /\ c \in DOMAIN e
        BY <2>1, ChildrenAre
      <4>2. Append(r, x) \in Children(d, r)
        BY <1>1, <3>1, <3>3, <4>1, ChildrenAre
      <4>3. PICK j \in 0..(s - 1) : Append(r, x) = Item(r, j)
        BY <3>2, <4>2 DEF Counted
      <4>4. Numerals[j + 1] \in STRING /\ Item(r, j) = Append(r, Numerals[j + 1])
        BY <3>1, <3>4, ItemIs
      <4>5. x = Numerals[j + 1]
        BY <3>1, <4>3, <4>4, AboveChild
      <4> QED
        BY <4>1, <4>5 DEF Item
    <3>6. ASSUME NEW j \in 0..(s - 1) PROVE Item(q, j) \in Children(e, q)
      <4>1. Numerals[j + 1] \in STRING /\ Item(r, j) = Append(r, Numerals[j + 1])
        BY <3>1, <3>4, ItemIs
      <4>2. Item(r, j) \in DOMAIN d
        BY <3>2 DEF Counted, Children
      <4>3. Append(q, Numerals[j + 1]) \in DOMAIN e
        BY <3>3, <4>1, <4>2
      <4> QED
        BY <2>1, <4>1, <4>3, ChildrenAre DEF Item
    <3>7. Children(e, q) = {Item(q, j) : j \in 0..(s - 1)}
      BY <3>5, <3>6
    <3> QED
      BY <3>7 DEF Fits, Counted
  <2> QED
    BY <1>8, <2>2, <2>3
<1>20. Fits(e, p)
  <2>1. size - 1 \in 0..Len(Numerals)
    BY <1>2
  <2> QED
    BY <1>18, <2>1 DEF Fits
<1>21. IsTree(e)
  BY <1>11, <1>14, <1>19, <1>20, TreeIs
<1>22. \A k \in 0..(n - 1) : e[Item(p, k)] = d[Item(p, k)] /\ Item(p, k) \in DOMAIN d
  BY <1>15, <1>16
<1>23. \A k \in (n + 1)..(size - 1) : e[Item(p, k - 1)] = d[Item(p, k)] /\ Item(p, k) \in DOMAIN d
  BY <1>15, <1>17
<1> QED
  BY <1>14, <1>18, <1>21, <1>22, <1>23 DEF e

-----------------------------------------------------------------------------
(* The file stays a tree.                                                  *)

Requests == [op : {"set"}, key : Path, value : STRING] \cup [op : {"delete"}, key : Path]

IsTodo(todo) == todo \in Seq(Requests)

TreeInv ==
  /\ IsTree(doc) /\ PanelForm /\ HandlersForm
  /\ \A h \in Handlers : IsTodo(handlers[h].todo)
  /\ DOMAIN panel.shown.providers \subseteq Providers
  /\ \A h \in Handlers : handlers[h].got # <<>> => DOMAIN handlers[h].got[1].providers \subseteq Providers
  /\ setup = [todo |-> setup.todo, busy |-> setup.busy, done |-> setup.done]
  /\ IsTodo(setup.todo)

LEMMA RequestIs ==
  /\ \A key \in Path, value \in STRING : Set(key, value) \in Requests
  /\ \A key \in Path : Delete(key) \in Requests
BY DEF Requests, Set, Delete

LEMMA AsStringIs ==
  ASSUME NEW d, IsTree(d), NEW p
  PROVE  asString(d, p) \in STRING /\ asString(d, p) \notin Inner
<1>1. "" \notin Inner /\ "" \in STRING
  BY LiteralsAre DEF Inner
<1>2. CASE p \in DOMAIN d /\ d[p] \notin Inner
  <2>1. d[p] \in STRING
    BY <1>2 DEF IsTree
  <2> QED
    BY <1>2, <2>1 DEF asString
<1>3. CASE ~(p \in DOMAIN d /\ d[p] \notin Inner)
  BY <1>1, <1>3 DEF asString
<1> QED
  BY <1>2, <1>3

LEMMA LoadIs ==
  ASSUME NEW d, IsTree(d)
  PROVE  DOMAIN loadConfig(d).providers \subseteq Providers /\ loadConfig(d).llm_provider \in STRING \ Inner
<1>1. loadConfig(d).llm_provider = asString(d, <<"llm_provider">>)
  BY DEF loadConfig
<1>2. DOMAIN loadConfig(d).providers = normalizeProviders(d)
  BY DEF loadConfig
<1>3. normalizeProviders(d) \subseteq Providers
  BY DEF normalizeProviders
<1> QED
  BY <1>1, <1>2, <1>3, AsStringIs

LEMMA ApplyTree ==
  ASSUME IsTree(doc), NEW who, NEW w \in Requests, w.key # <<>>, w.op = "delete" => CanDelete(doc, w.key),
         Apply(who, w)
  PROVE  IsTree(doc')
<1>1. w.key \in Path
  BY DEF Requests
<1>2. CASE w.op = "set"
  <2>1. w.value \in STRING
    BY <1>2 DEF Requests
  <2>2. doc' = setPath(doc, w.key, w.value)
    BY <1>2 DEF Apply, Write
  <2> QED
    BY <1>1, <2>1, <2>2, SetTree
<1>3. CASE w.op # "set"
  <2>1. w.op = "delete"
    BY <1>3 DEF Requests
  <2>2. doc' = deletePath(doc, w.key)
    BY <1>3 DEF Apply, Write
  <2> QED
    BY <1>1, <2>1, <2>2, DeleteIs
<1> QED
  BY <1>2, <1>3

LEMMA AcceptedTree ==
  ASSUME IsTree(doc), NEW who, NEW w \in Requests, Accepted(w), Apply(who, w)
  PROVE  IsTree(doc')
<1>1. w.op \in {"set", "delete"}
  BY DEF Requests
<1>2. w.key # <<>> /\ (w.op = "delete" => CanDelete(doc, w.key))
  BY <1>1 DEF Accepted
<1> QED
  BY <1>2, ApplyTree

\* The request at the head of what is to be done.
LEMMA TodoIs ==
  ASSUME NEW todo, IsTodo(todo)
  PROVE  IsTodo(<<>>) /\ (todo # <<>> => Head(todo) \in Requests /\ IsTodo(Tail(todo)))
BY HeadTailProperties, EmptySeq DEF IsTodo

LEMMA ConcatTodo ==
  ASSUME NEW s, IsTodo(s), NEW t, IsTodo(t)
  PROVE  IsTodo(s \o t)
BY ConcatProperties DEF IsTodo

LEMMA TuplesAre ==
  ASSUME NEW S
  PROVE  /\ \A a \in S : <<a>> \in Seq(S)
         /\ \A a, b \in S : <<a, b>> \in Seq(S)
         /\ \A a, b, c \in S : <<a, b, c>> \in Seq(S)
OBVIOUS

LEMMA KeysArePaths ==
  /\ <<"pinned">> \in Path /\ <<"name">> \in Path /\ <<"llm_provider">> \in Path /\ <<"llm_model">> \in Path
  /\ <<"providers">> \in Path
  /\ \A p \in STRING : /\ <<"providers", p>> \in Path
                       /\ \A field \in {"base_url", "protocol", "api_key"} : Field(p, field) \in Path
<1>1. /\ \A a \in STRING : <<a>> \in Path
      /\ \A a, b \in STRING : <<a, b>> \in Path
      /\ \A a, b, c \in STRING : <<a, b, c>> \in Path
  BY TuplesAre DEF Path
<1>2. /\ <<"pinned">> \in Path /\ <<"name">> \in Path /\ <<"llm_provider">> \in Path /\ <<"llm_model">> \in Path
      /\ <<"providers">> \in Path
  BY <1>1, LiteralsAre
<1>3. ASSUME NEW p \in STRING
      PROVE  /\ <<"providers", p>> \in Path
             /\ \A field \in {"base_url", "protocol", "api_key"} : Field(p, field) \in Path
  BY <1>1, LiteralsAre DEF Field
<1> QED
  BY <1>2, <1>3

LEMMA ActTodo ==
  ASSUME DOMAIN panel.shown.providers \subseteq Providers,
         NEW todo \in handleSet \cup handleAddProvider \cup handleDeleteProvider \cup Reset
  PROVE  IsTodo(todo)
<1>1. Providers \subseteq STRING /\ "" \in STRING /\ "x" \in STRING
  BY ConfigAssumption, LiteralsAre
<1>2. \A w \in Requests : IsTodo(<<w>>)
  BY DEF IsTodo
<1>3. \A p \in Providers : p \in STRING /\ <<"providers", p>> \in Path /\ Field(p, "base_url") \in Path /\ Field(p, "protocol") \in Path /\ Field(p, "api_key") \in Path
  BY <1>1, KeysArePaths
<1>4. CASE todo \in handleSet
  <2>1. CASE todo \in {<<Set(<<"name">>, v)>> : v \in {"", "x"} \ {panel.shown.name}}
    <3>1. PICK v \in {"", "x"} : todo = <<Set(<<"name">>, v)>>
      BY <2>1
    <3>2. v \in STRING
      BY <1>1
    <3> QED
      BY <1>2, <3>1, <3>2, KeysArePaths, RequestIs
  <2>2. CASE todo \in {<<Set(<<"llm_provider">>, p)>> : p \in DOMAIN panel.shown.providers \cup {""}}
    <3>1. PICK p \in DOMAIN panel.shown.providers \cup {""} : todo = <<Set(<<"llm_provider">>, p)>>
      BY <2>2
    <3>2. p \in STRING
      BY <1>1
    <3> QED
      BY <1>2, <3>1, <3>2, KeysArePaths, RequestIs
  <2>3. CASE todo \in {<<Set(Field(p, "api_key"), "x")>> : p \in DOMAIN panel.shown.providers}
    <3>1. PICK p \in Providers : todo = <<Set(Field(p, "api_key"), "x")>>
      BY <2>3
    <3> QED
      BY <1>1, <1>2, <1>3, <3>1, RequestIs
  <2> QED
    BY <1>4, <2>1, <2>2, <2>3 DEF handleSet
<1>5. CASE todo \in handleAddProvider
  <2>1. PICK p \in Providers : todo = <<Set(Field(p, "base_url"), "x"), Set(Field(p, "protocol"), "x"), Set(Field(p, "api_key"), "")>>
    BY <1>5 DEF handleAddProvider
  <2>2. Set(Field(p, "base_url"), "x") \in Requests /\ Set(Field(p, "protocol"), "x") \in Requests /\ Set(Field(p, "api_key"), "") \in Requests
    BY <1>1, <1>3, RequestIs
  <2>3. \A a, b, c \in Requests : <<a, b, c>> \in Seq(Requests)
    OBVIOUS
  <2> QED
    BY <2>1, <2>2, <2>3 DEF IsTodo
<1>6. CASE todo \in handleDeleteProvider
  <2>1. PICK p \in Providers :
          todo = <<Delete(<<"providers", p>>)>> \o
                   (IF panel.shown.llm_provider = p THEN <<Set(<<"llm_provider">>, "")>> ELSE <<>>)
    BY <1>6 DEF handleDeleteProvider
  <2>2. IsTodo(<<Delete(<<"providers", p>>)>>)
    BY <1>2, <1>3, RequestIs
  <2>3. IsTodo(<<Set(<<"llm_provider">>, "")>>)
    BY <1>1, <1>2, KeysArePaths, RequestIs
  <2>4. IsTodo(<<>>)
    BY DEF IsTodo
  <2>5. IsTodo(IF panel.shown.llm_provider = p THEN <<Set(<<"llm_provider">>, "")>> ELSE <<>>)
    BY <2>3, <2>4
  <2> QED
    BY <2>1, <2>2, <2>5, ConcatTodo
<1>7. CASE todo \in Reset
  <2>1. todo = <<Delete(<<>>)>> /\ <<>> \in Path
    BY <1>7 DEF Reset, Path
  <2> QED
    BY <1>2, <2>1, RequestIs
<1> QED
  BY <1>4, <1>5, <1>6, <1>7

LEMMA SetupTodo ==
  ASSUME NEW p \in STRING, NEW renamed \in BOOLEAN
  PROVE  IsTodo(SetupWrites(p) \o (IF renamed THEN <<Set(<<"name">>, "x")>> ELSE <<>>))
<1>1. "x" \in STRING /\ "" \in STRING
  BY LiteralsAre
<1>2. \A value \in STRING : /\ Set(Field(p, "base_url"), value) \in Requests /\ Set(Field(p, "api_key"), value) \in Requests
                            /\ Set(Field(p, "protocol"), value) \in Requests /\ Set(<<"llm_provider">>, value) \in Requests
                            /\ Set(<<"llm_model">>, value) \in Requests /\ Set(<<"name">>, value) \in Requests
  BY KeysArePaths, RequestIs
<1>3. (IF p \in Presets THEN "x" ELSE "") \in STRING
  BY <1>1
<1>4. IsTodo(SetupWrites(p))
  <2> DEFINE a == Set(Field(p, "base_url"), IF p \in Presets THEN "x" ELSE "")
             b == Set(Field(p, "api_key"), "x")
             c == Set(Field(p, "protocol"), "x")
             e == Set(<<"llm_provider">>, p)
             f == Set(<<"llm_model">>, "x")
  <2>1. a \in Requests /\ b \in Requests /\ c \in Requests /\ e \in Requests /\ f \in Requests
    BY <1>1, <1>2, <1>3
  <2>2. SetupWrites(p) = <<a, b, c, e, f>>
    BY DEF SetupWrites
  <2> HIDE DEF a, b, c, e, f
  <2>3. <<a, b, c, e, f>> \in Seq(Requests)
    BY <2>1
  <2> QED
    BY <2>2, <2>3 DEF IsTodo
<1>5. IsTodo(IF renamed THEN <<Set(<<"name">>, "x")>> ELSE <<>>)
  <2>1. \A w \in Requests : IsTodo(<<w>>)
    BY DEF IsTodo
  <2>2. Set(<<"name">>, "x") \in Requests
    BY <1>1, <1>2
  <2>3. IsTodo(<<>>)
    BY DEF IsTodo
  <2> QED
    BY <2>1, <2>2, <2>3
<1> QED
  BY <1>4, <1>5, ConcatTodo

-----------------------------------------------------------------------------
(* The texts of the pinned sequence.                                       *)

\* The texts gathered from the first n items, for every n.
Gathers(T, items, size) ==
  /\ T \in [0..size -> Seq(STRING)] /\ T[0] = <<>>
  /\ \A n \in 1..size : T[n] = IF items[n] = "" THEN T[n - 1] ELSE Append(T[n - 1], items[n])

Agree(items, others, size) == \A n \in 1..size : items[n] = others[n]
Strings(items, size) == \A n \in 1..size : items[n] \in STRING
First(items, j) == \A n \in 1..(j - 1) : items[n] # items[j]
Follow(items, others, j, size) == \A n \in (j + 1)..size : others[n - 1] = items[n]
Text(text) == text \in STRING /\ text # ""

LEMMA GatherAlike ==
  ASSUME NEW l \in Nat, NEW size \in Nat, NEW more \in Nat, l <= size, l <= more,
         NEW T, NEW items, Gathers(T, items, size), NEW U, NEW others, Gathers(U, others, more),
         Agree(items, others, l)
  PROVE  \A n \in 0..l : T[n] = U[n]
<1> DEFINE S == {n \in 0..l : T[n] = U[n]}
<1>1. 0 \in S
  <2>1. T[0] = U[0]
    BY Zenon DEF Gathers
  <2> QED
    BY <2>1
<1>2. ASSUME NEW n \in 1..l, n - 1 \in S PROVE n \in S
  <2>1. n \in 1..size /\ n \in 1..more /\ T[n - 1] = U[n - 1] /\ n \in 0..l
    BY <1>2
  <2>2. items[n] = others[n]
    BY DEF Agree
  <2>3. T[n] = U[n]
    BY <2>1, <2>2 DEF Gathers
  <2> QED
    BY <2>1, <2>3
<1> HIDE DEF S
<1>3. \A n \in 0..l : n \in S
  BY <1>1, <1>2, UpTo
<1> QED
  BY <1>3 DEF S

LEMMA GatherAdd ==
  ASSUME NEW size \in Nat, NEW T, NEW items, Gathers(T, items, size),
         NEW U, NEW others, Gathers(U, others, size + 1),
         Agree(items, others, size), Text(others[size + 1])
  PROVE  U[size + 1] = Append(T[size], others[size + 1])
<1>1. T[size] = U[size]
  BY GatherAlike
<1>2. PICK n \in 1..(size + 1) : n = size + 1 /\ n - 1 = size
  OBVIOUS
<1>3. U[n] = IF others[n] = "" THEN U[n - 1] ELSE Append(U[n - 1], others[n])
  BY Zenon DEF Gathers
<1>4. others[n] # ""
  BY <1>2 DEF Text
<1>5. U[n] = Append(U[n - 1], others[n])
  BY <1>3, <1>4, Zenon
<1> QED
  BY <1>1, <1>2, <1>5

LEMMA GatherMembers ==
  ASSUME NEW size \in Nat, NEW T, NEW items, Gathers(T, items, size), Strings(items, size), NEW clip, Text(clip)
  PROVE  \A n \in 0..size : Contains(T[n], clip) <=> \E k \in 1..n : items[k] = clip
<1> DEFINE Same(n) == Contains(T[n], clip) <=> \E k \in 1..n : items[k] = clip
           S == {n \in 0..size : Same(n)}
<1>1. 0 \in S
  <2>1. T[0] = <<>>
    BY Zenon DEF Gathers
  <2>2. Len(<<>>) = 0 /\ 1..0 = {}
    OBVIOUS
  <2>3. Same(0)
    BY <2>1, <2>2 DEF Contains
  <2> QED
    BY <2>3
<1>2. ASSUME NEW n \in 1..size, n - 1 \in S PROVE n \in S
  <2>1. n \in 0..size /\ n - 1 \in 0..size /\ Same(n - 1) /\ 1..n = 1..(n - 1) \cup {n}
    BY <1>2
  <2>2. T[n - 1] \in Seq(STRING) /\ items[n] \in STRING
    BY <2>1 DEF Gathers, Strings
  <2>3. CASE items[n] = ""
    <3>1. T[n] = T[n - 1]
      BY <2>3 DEF Gathers
    <3> QED
      BY <2>1, <2>3, <3>1 DEF Text
  <2>4. CASE items[n] # ""
    <3> DEFINE t == T[n - 1]
               s == Append(t, items[n])
    <3>1. T[n] = s
      BY <2>4 DEF Gathers
    <3>2. Len(t) \in Nat /\ Len(s) = Len(t) + 1 /\ s[Len(t) + 1] = items[n] /\ \A i \in 1..Len(t) : s[i] = t[i]
      BY <2>2, AppendProperties
    <3> HIDE DEF s, t
    <3>3. 1..Len(s) = 1..Len(t) \cup {Len(t) + 1}
      BY <3>2
    <3>4. Contains(s, clip) <=> Contains(t, clip) \/ items[n] = clip
      BY <3>2, <3>3 DEF Contains
    <3> QED
      BY <2>1, <3>1, <3>4 DEF t
  <2> QED
    BY <2>3, <2>4
<1> HIDE DEF S
<1>3. \A n \in 0..size : n \in S
  BY <1>1, <1>2, UpTo
<1> QED
  BY <1>3 DEF S

LEMMA RemoveAtAppend ==
  ASSUME NEW S, NEW s \in Seq(S), NEW x \in S
  PROVE  /\ RemoveAt(Append(s, x), Len(s) + 1) = s
         /\ \A i \in 1..Len(s) : RemoveAt(Append(s, x), i) = Append(RemoveAt(s, i), x)
<1> DEFINE t == Append(s, x)
<1>1. t \in Seq(S) /\ Len(s) \in Nat /\ Len(t) = Len(s) + 1 /\ t[Len(s) + 1] = x /\ \A i \in 1..Len(s) : t[i] = s[i]
  BY AppendProperties
<1> HIDE DEF t
<1>2. \A i \in 1..Len(s) : s[i] \in S
  BY ElementOfSeq
<1>3. \A i \in 1..Len(t) : t[i] \in S
  BY <1>1, ElementOfSeq
<1>4. ASSUME NEW i \in 1..Len(t)
      PROVE  /\ RemoveAt(t, i) \in Seq(S) /\ Len(RemoveAt(t, i)) = Len(s)
             /\ \A k \in 1..Len(s) : RemoveAt(t, i)[k] = IF k < i THEN t[k] ELSE t[k + 1]
  <2> DEFINE a == SubSeq(t, 1, i - 1)
             b == SubSeq(t, i + 1, Len(t))
  <2>1. a \in Seq(S) /\ Len(a) = i - 1 /\ \A k \in 1..(i - 1) : a[k] = t[k]
    <3>1. 1 \in Int /\ i - 1 \in Int /\ \A k \in 1..(i - 1) : t[k] \in S
      BY <1>1, <1>3
    <3>2. /\ a \in Seq(S) /\ Len(a) = IF 1 <= i - 1 THEN i - 1 - 1 + 1 ELSE 0
          /\ \A k \in 1..(i - 1 - 1 + 1) : a[k] = t[1 + k - 1]
      BY <3>1, SubSeqProperties
    <3> QED
      BY <1>1, <3>2
  <2>2. b \in Seq(S) /\ Len(b) = Len(t) - i /\ \A k \in 1..(Len(t) - i) : b[k] = t[i + k]
    <3>1. i + 1 \in Int /\ Len(t) \in Int /\ \A k \in (i + 1)..Len(t) : t[k] \in S
      BY <1>1, <1>3
    <3>2. /\ b \in Seq(S) /\ Len(b) = IF i + 1 <= Len(t) THEN Len(t) - (i + 1) + 1 ELSE 0
          /\ \A k \in 1..(Len(t) - (i + 1) + 1) : b[k] = t[i + 1 + k - 1]
      BY <3>1, SubSeqProperties
    <3> QED
      BY <1>1, <3>2
  <2>3. RemoveAt(t, i) = a \o b
    BY DEF RemoveAt
  <2> HIDE DEF a, b
  <2>4. /\ a \o b \in Seq(S) /\ Len(a \o b) = Len(a) + Len(b)
        /\ \A k \in 1..Len(a) + Len(b) : (a \o b)[k] = IF k <= Len(a) THEN a[k] ELSE b[k - Len(a)]
    BY <2>1, <2>2, ConcatProperties
  <2>5. Len(a) + Len(b) = Len(s)
    BY <1>1, <2>1, <2>2
  <2>6. ASSUME NEW k \in 1..Len(s) PROVE (a \o b)[k] = IF k < i THEN t[k] ELSE t[k + 1]
    <3>1. CASE k < i
      <4>1. k <= Len(a) /\ k \in 1..(i - 1)
        BY <2>1, <3>1
      <4> QED
        BY <2>1, <2>4, <2>5, <3>1, <4>1
    <3>2. CASE ~(k < i)
      <4>1. ~(k <= Len(a)) /\ k - Len(a) \in 1..(Len(t) - i) /\ i + (k - Len(a)) = k + 1
        BY <1>1, <2>1, <3>2
      <4>2. (a \o b)[k] = b[k - Len(a)]
        BY <2>4, <2>5, <4>1
      <4>3. b[k - Len(a)] = t[i + (k - Len(a))]
        BY <2>2, <4>1
      <4> QED
        BY <3>2, <4>1, <4>2, <4>3
    <3> QED
      BY <3>1, <3>2
  <2> QED
    BY <2>3, <2>4, <2>5, <2>6
<1>5. RemoveAt(t, Len(s) + 1) = s
  <2> DEFINE r == RemoveAt(t, Len(s) + 1)
  <2>1. Len(s) + 1 \in 1..Len(t)
    BY <1>1
  <2>2. r \in Seq(S) /\ Len(r) = Len(s) /\ \A k \in 1..Len(s) : r[k] = IF k < Len(s) + 1 THEN t[k] ELSE t[k + 1]
    BY <1>4, <2>1
  <2> HIDE DEF r
  <2>3. \A k \in 1..Len(s) : r[k] = s[k]
    BY <1>1, <2>2
  <2>4. r = s
    BY <2>2, <2>3, SeqEqual
  <2> QED
    BY <2>4 DEF r
<1> QED
  <2> SUFFICES ASSUME NEW i \in 1..Len(s) PROVE RemoveAt(t, i) = Append(RemoveAt(s, i), x)
    BY <1>5 DEF t
  <2> DEFINE a == SubSeq(s, 1, i - 1)
             b == SubSeq(s, i + 1, Len(s))
             r == RemoveAt(t, i)
             q == RemoveAt(s, i)
             u == Append(q, x)
  <2>1. i \in 1..Len(t)
    BY <1>1
  <2>2. r \in Seq(S) /\ Len(r) = Len(s) /\ \A k \in 1..Len(s) : r[k] = IF k < i THEN t[k] ELSE t[k + 1]
    BY <1>4, <2>1
  <2>3. a \in Seq(S) /\ Len(a) = i - 1 /\ \A k \in 1..(i - 1) : a[k] = s[k]
    <3>1. 1 \in Int /\ i - 1 \in Int /\ \A k \in 1..(i - 1) : s[k] \in S
      BY <1>1, <1>2
    <3>2. /\ a \in Seq(S) /\ Len(a) = IF 1 <= i - 1 THEN i - 1 - 1 + 1 ELSE 0
          /\ \A k \in 1..(i - 1 - 1 + 1) : a[k] = s[1 + k - 1]
      BY <3>1, SubSeqProperties
    <3> QED
      BY <1>1, <3>2
  <2>4. b \in Seq(S) /\ Len(b) = Len(s) - i /\ \A k \in 1..(Len(s) - i) : b[k] = s[i + k]
    <3>1. i + 1 \in Int /\ Len(s) \in Int /\ \A k \in (i + 1)..Len(s) : s[k] \in S
      BY <1>1, <1>2
    <3>2. /\ b \in Seq(S) /\ Len(b) = IF i + 1 <= Len(s) THEN Len(s) - (i + 1) + 1 ELSE 0
          /\ \A k \in 1..(Len(s) - (i + 1) + 1) : b[k] = s[i + 1 + k - 1]
      BY <3>1, SubSeqProperties
    <3> QED
      BY <1>1, <3>2
  <2>5. q = a \o b
    BY DEF RemoveAt
  <2> HIDE DEF a, b, q, r
  <2>6. /\ q \in Seq(S) /\ Len(q) = Len(s) - 1
        /\ \A k \in 1..(Len(s) - 1) : q[k] = IF k <= Len(a) THEN a[k] ELSE b[k - Len(a)]
    <3>1. /\ a \o b \in Seq(S) /\ Len(a \o b) = Len(a) + Len(b)
          /\ \A k \in 1..Len(a) + Len(b) : (a \o b)[k] = IF k <= Len(a) THEN a[k] ELSE b[k - Len(a)]
      BY <2>3, <2>4, ConcatProperties
    <3>2. Len(a) + Len(b) = Len(s) - 1
      BY <1>1, <2>3, <2>4
    <3> QED
      BY <2>5, <3>1, <3>2
  <2>7. u \in Seq(S) /\ Len(u) = Len(q) + 1 /\ u[Len(q) + 1] = x /\ \A k \in 1..Len(q) : u[k] = q[k]
    BY <2>6, AppendProperties
  <2> HIDE DEF u
  <2>8. ASSUME NEW k \in 1..Len(r) PROVE r[k] = u[k]
    <3>1. CASE k = Len(s)
      <4>1. ~(k < i) /\ k = Len(q) + 1
        BY <1>1, <2>6, <3>1
      <4> QED
        BY <1>1, <2>2, <2>7, <3>1, <4>1
    <3>2. CASE k < i
      <4>1. k \in 1..(Len(s) - 1) /\ k <= Len(a) /\ k \in 1..(i - 1) /\ k \in 1..Len(q) /\ k \in 1..Len(s)
        BY <1>1, <2>2, <2>3, <2>6, <3>2
      <4> QED
        BY <1>1, <2>2, <2>3, <2>6, <2>7, <3>2, <4>1
    <3>3. CASE ~(k < i) /\ k # Len(s)
      <4>1. /\ k \in 1..(Len(s) - 1) /\ ~(k <= Len(a)) /\ k \in 1..Len(q) /\ k \in 1..Len(s) /\ k + 1 \in 1..Len(s)
            /\ k - Len(a) \in 1..(Len(s) - i) /\ i + (k - Len(a)) = k + 1
        BY <1>1, <2>2, <2>3, <2>6, <3>3
      <4>2. r[k] = s[k + 1]
        BY <1>1, <2>2, <3>3, <4>1
      <4>3. q[k] = b[k - Len(a)]
        BY <2>6, <4>1
      <4>4. b[k - Len(a)] = s[i + (k - Len(a))]
        BY <2>4, <4>1
      <4> QED
        BY <2>7, <4>1, <4>2, <4>3, <4>4
    <3> QED
      BY <3>1, <3>2, <3>3
  <2>9. Len(r) = Len(u)
    BY <1>1, <2>2, <2>6, <2>7
  <2>10. r = u
    BY <2>2, <2>7, <2>8, <2>9, SeqEqual
  <2> QED
    BY <2>10 DEF r, u, q

LEMMA GatherRemove ==
  ASSUME NEW size \in Nat \ {0}, NEW T, NEW items, Gathers(T, items, size), Strings(items, size),
         NEW U, NEW others, Gathers(U, others, size - 1),
         NEW j \in 1..size, Text(items[j]), First(items, j), Agree(items, others, j - 1), Follow(items, others, j, size)
  PROVE  \E i \in 1..Len(T[size]) :
           /\ T[size][i] = items[j] /\ \A k \in 1..(i - 1) : T[size][k] # items[j]
           /\ U[size - 1] = RemoveAt(T[size], i)
<1> DEFINE i == Len(T[j - 1]) + 1
           clip == items[j]
           Good(n) == /\ i \in 1..Len(T[n]) /\ T[n][i] = clip
                      /\ \A k \in 1..(i - 1) : T[n][k] # clip
                      /\ U[n - 1] = RemoveAt(T[n], i)
           S == {n \in 0..(size - j) : Good(j + n)}
<1>1. \A n \in 0..size : T[n] \in Seq(STRING) /\ Len(T[n]) \in Nat
  <2>1. T \in [0..size -> Seq(STRING)]
    BY Zenon DEF Gathers
  <2> QED
    BY <2>1
<1>2. j \in Nat /\ j - 1 \in Nat /\ j - 1 \in 0..size /\ j - 1 <= size - 1 /\ size - 1 \in Nat /\ size - j \in Nat
  OBVIOUS
<1>3. T[j - 1] = U[j - 1]
  BY <1>2, GatherAlike
<1>4. i \in Nat /\ i >= 1 /\ i - 1 = Len(T[j - 1])
  BY <1>1, <1>2
<1>5. 0 \in S
  <2>1. T[j] = Append(T[j - 1], clip)
    BY DEF Gathers, Text
  <2>2. T[j - 1] \in Seq(STRING) /\ clip \in STRING
    BY <1>1, <1>2 DEF Text
  <2>3. Len(T[j]) = i /\ T[j][i] = clip /\ \A k \in 1..(i - 1) : T[j][k] = T[j - 1][k]
    BY <1>2, <1>4, <2>1, <2>2, AppendProperties
  <2>4. RemoveAt(T[j], i) = T[j - 1]
    BY <1>2, <2>1, <2>2, RemoveAtAppend
  <2>5. ASSUME NEW k \in 1..(i - 1) PROVE T[j - 1][k] # clip
    <3>1. Contains(T[j - 1], clip) <=> \E m \in 1..(j - 1) : items[m] = clip
      BY <1>2, GatherMembers
    <3>2. ~Contains(T[j - 1], clip)
      BY <3>1 DEF First
    <3> QED
      BY <1>4, <3>2 DEF Contains
  <2>6. Good(j)
    BY <1>3, <1>4, <2>3, <2>4, <2>5
  <2>7. j + 0 = j /\ 0 \in 0..(size - j)
    BY <1>2
  <2> QED
    BY <2>6, <2>7
<1> HIDE DEF i
<1>6. ASSUME NEW n \in 1..(size - j), n - 1 \in S PROVE n \in S
  <2> DEFINE m == j + n
  <2>1. m \in 1..size /\ m - 1 \in 1..size /\ j + (n - 1) = m - 1 /\ m \in (j + 1)..size /\ m - 1 \in 1..(size - 1) /\ m - 1 \in 0..size /\ n \in 0..(size - j)
    BY <1>2
  <2>2. Good(m - 1)
    BY <1>6, <2>1
  <2>3. T[m] = IF items[m] = "" THEN T[m - 1] ELSE Append(T[m - 1], items[m])
    BY <2>1 DEF Gathers
  <2>4. U[m - 1] = IF others[m - 1] = "" THEN U[m - 1 - 1] ELSE Append(U[m - 1 - 1], others[m - 1])
    BY <2>1 DEF Gathers
  <2>5. others[m - 1] = items[m]
    BY <2>1 DEF Follow
  <2>6. items[m] \in STRING /\ T[m - 1] \in Seq(STRING)
    BY <1>1, <2>1 DEF Strings
  <2> HIDE DEF m
  <2>7. ASSUME items[m] = "" PROVE Good(m)
    <3>1. T[m] = T[m - 1] /\ U[m - 1] = U[m - 1 - 1]
      BY <2>3, <2>4, <2>5, <2>7, Zenon
    <3> QED
      BY <2>2, <3>1, Zenon
  <2>8. ASSUME items[m] # "" PROVE Good(m)
    <3> DEFINE t == T[m - 1]
    <3>1. T[m] = Append(t, items[m]) /\ U[m - 1] = Append(RemoveAt(t, i), items[m])
      BY <2>2, <2>3, <2>4, <2>5, <2>8
    <3>2. Len(t) \in Nat /\ Len(T[m]) = Len(t) + 1 /\ \A k \in 1..Len(t) : T[m][k] = t[k]
      BY <2>6, <3>1, AppendProperties
    <3>3. i \in 1..Len(t) /\ t[i] = clip /\ \A k \in 1..(i - 1) : t[k] # clip
      BY <2>2
    <3>4. RemoveAt(T[m], i) = Append(RemoveAt(t, i), items[m])
      BY <2>6, <3>1, <3>3, RemoveAtAppend
    <3> HIDE DEF t
    <3>5. i \in 1..Len(T[m]) /\ T[m][i] = clip
      BY <3>2, <3>3
    <3>6. ASSUME NEW k \in 1..(i - 1) PROVE T[m][k] # clip
      <4>1. k \in 1..Len(t)
        BY <1>4, <3>2, <3>3
      <4> QED
        BY <3>2, <3>3, <4>1
    <3> QED
      BY <3>1, <3>4, <3>5, <3>6, Zenon
  <2>9. Good(m)
    BY <2>7, <2>8, Zenon
  <2> QED
    BY <2>1, <2>9 DEF m
<1> HIDE DEF S
<1>7. \A n \in 0..(size - j) : n \in S
  BY <1>2, <1>5, <1>6, UpTo
<1>8. size - j \in 0..(size - j) /\ j + (size - j) = size
  BY <1>2
<1>9. Good(j + (size - j))
  BY <1>7, <1>8 DEF S
<1>10. Good(size)
  BY <1>8, <1>9
<1> QED
  BY <1>10

Items(d, size) == [n \in 1..size |-> asString(d, Item(<<"pinned">>, n - 1))]

LEMMA PinnedIs ==
  ASSUME NEW d, IsTree(d), <<"pinned">> \in DOMAIN d, d[<<"pinned">>] = "seq",
         NEW size \in 0..Len(Numerals), Counted(d, <<"pinned">>, size)
  PROVE  /\ Strings(Items(d, size), size)
         /\ \E T : Gathers(T, Items(d, size), size) /\ normalizedPinned(d) = T[size]
<1> DEFINE items == Items(d, size)
           Step(x, n) == IF items[n] = "" THEN x ELSE Append(x, items[n])
           D == Seq(STRING)
           step == [y \in D \X (1..size) |-> Step(y[1], y[2])]
           Is(f) == f = [n \in 0..size |-> IF n = 0 THEN <<>> ELSE Step(f[n - 1], n)]
           g == CHOOSE f : Is(f)
<1>1. size \in Nat /\ <<>> \in D
  BY NumeralsAre
<1>2. Cardinality(Children(d, <<"pinned">>)) = size
  BY CountIs, KeysArePaths
<1>3. ASSUME NEW n \in 1..size PROVE items[n] \in STRING
  <2>1. asString(d, Item(<<"pinned">>, n - 1)) \in STRING
    BY AsStringIs
  <2> QED
    BY <2>1 DEF Items
<1>4. normalizedPinned(d) = NonEmpty(items)
  BY <1>2 DEF normalizedPinned, Items
<1>15. Strings(items, size)
  BY <1>3 DEF Strings
<1>16. Len(items) = size
  BY <1>1 DEF Items
<1> HIDE DEF items
<1>17. NonEmpty(items) = g[size]
  BY <1>16, Zenon DEF NonEmpty, g, Is, Step
<1>5. \A x \in D, n \in 1..size : step[<<x, n>>] = Step(x, n) /\ Step(x, n) \in D
  <2> SUFFICES ASSUME NEW x \in D, NEW n \in 1..size
               PROVE  step[<<x, n>>] = Step(x, n) /\ Step(x, n) \in D
    OBVIOUS
  <2>1. Append(x, items[n]) \in D
    BY <1>3, AppendProperties
  <2>2. Step(x, n) \in D
    BY <2>1, Zenon
  <2> HIDE DEF Step
  <2>3. step[<<x, n>>] = Step(x, n)
    OBVIOUS
  <2> QED
    BY <2>2, <2>3
<1> HIDE DEF Step
<1>6. PICK f \in [0..size -> D] : f[0] = <<>> /\ \A n \in 1..size : f[n] = step[<<f[n - 1], n>>]
  <2>1. \A x \in D, n \in 1..size : step[<<x, n>>] \in D
    BY <1>5
  <2> HIDE DEF step, D
  <2>2. Closed(size, D, <<>>, step)
    BY <1>1, <2>1 DEF Closed
  <2>3. PICK f : Recursive(f, size, D, <<>>, step)
    BY <2>2, Recursion
  <2> QED
    BY <2>3 DEF Recursive
<1> HIDE DEF step, D
<1>7. \A n \in 1..size : n - 1 \in 0..size
  BY <1>1
<1>8. Is(f)
  <2>1. \A n \in 1..size : f[n] = Step(f[n - 1], n)
    BY <1>5, <1>6, <1>7
  <2>2. \A n \in 0..size : f[n] = IF n = 0 THEN <<>> ELSE Step(f[n - 1], n)
    BY <1>1, <1>6, <2>1
  <2> QED
    BY <1>6, <2>2
<1>9. Is(g)
  BY <1>8
<1> HIDE DEF g
<1>10. g[0] = <<>> /\ \A n \in 1..size : g[n] = Step(g[n - 1], n)
  BY <1>1, <1>7, <1>9
<1>11. \A n \in 0..size : g[n] \in D
  <2> DEFINE S == {n \in 0..size : g[n] \in D}
  <2>1. 0 \in S
    BY <1>1, <1>10
  <2>2. ASSUME NEW n \in 1..size, n - 1 \in S PROVE n \in S
    <3>1. g[n - 1] \in D
      BY <2>2
    <3>2. g[n] = Step(g[n - 1], n) /\ Step(g[n - 1], n) \in D
      BY <1>5, <1>10, <3>1
    <3> QED
      BY <1>1, <3>2
  <2> HIDE DEF S
  <2>3. \A n \in 0..size : n \in S
    BY <1>1, <2>1, <2>2, UpTo
  <2> QED
    BY <2>3 DEF S
<1>12. g \in [0..size -> D]
  BY <1>9, <1>11
<1>13. \A n \in 1..size : g[n] = IF items[n] = "" THEN g[n - 1] ELSE Append(g[n - 1], items[n])
  BY <1>10, Zenon DEF Step
<1>14. Gathers(g, items, size)
  BY <1>10, <1>12, <1>13, Zenon DEF Gathers, D
<1> QED
  BY <1>4, <1>17, <1>14, <1>15, Zenon DEF items

LEMMA PinnedMembers ==
  ASSUME NEW d, IsTree(d), <<"pinned">> \in DOMAIN d, d[<<"pinned">>] = "seq", NEW clip, Text(clip)
  PROVE  IsPinned(d, clip) <=> Contains(normalizedPinned(d), clip)
<1>1. PICK size \in 0..Len(Numerals) : Counted(d, <<"pinned">>, size)
  BY TreeIs DEF Fits
<1>2. PICK T : Gathers(T, Items(d, size), size) /\ normalizedPinned(d) = T[size]
  BY <1>1, PinnedIs
<1>3. Strings(Items(d, size), size)
  BY <1>1, PinnedIs
<1>4. size \in Nat /\ size \in 0..size
  BY NumeralsAre
<1>5. Contains(T[size], clip) <=> \E k \in 1..size : Items(d, size)[k] = clip
  BY <1>2, <1>3, <1>4, GatherMembers
<1>6. Cardinality(Children(d, <<"pinned">>)) = size
  BY <1>1, CountIs, KeysArePaths
<1>7. Positions(d, clip) = {n \in 0..(size - 1) : asString(d, Item(<<"pinned">>, n)) = clip}
  BY <1>6 DEF Positions
<1>8. ASSUME NEW k \in 1..size, Items(d, size)[k] = clip PROVE Positions(d, clip) # {}
  <2>1. k - 1 \in 0..(size - 1)
    BY <1>4
  <2>2. asString(d, Item(<<"pinned">>, k - 1)) = clip
    BY <1>8 DEF Items
  <2> QED
    BY <1>7, <2>1, <2>2
<1>9. ASSUME NEW n \in Positions(d, clip) PROVE \E k \in 1..size : Items(d, size)[k] = clip
  <2>1. n + 1 \in 1..size /\ (n + 1) - 1 = n /\ asString(d, Item(<<"pinned">>, n)) = clip
    BY <1>4, <1>7
  <2>2. Items(d, size)[n + 1] = asString(d, Item(<<"pinned">>, (n + 1) - 1))
    BY <2>1 DEF Items
  <2> QED
    BY <2>1, <2>2
<1> QED
  BY <1>2, <1>5, <1>8, <1>9 DEF IsPinned

\* Items of the sequence "pinned" that two trees have alike.
ItemsAlike(d, e, size) == \A k \in 0..(size - 1) : asString(e, Item(<<"pinned">>, k)) = asString(d, Item(<<"pinned">>, k))

LEMMA AlikeAgree ==
  ASSUME NEW d, NEW e, NEW size \in Nat, NEW more \in Nat, NEW l \in Nat, l <= size, l <= more, ItemsAlike(d, e, l)
  PROVE  Agree(Items(d, size), Items(e, more), l)
<1>1. ASSUME NEW n \in 1..l PROVE Items(d, size)[n] = Items(e, more)[n]
  <2>1. n - 1 \in 0..(l - 1) /\ n \in 1..size /\ n \in 1..more
    OBVIOUS
  <2>2. asString(e, Item(<<"pinned">>, n - 1)) = asString(d, Item(<<"pinned">>, n - 1))
    BY <2>1 DEF ItemsAlike
  <2> QED
    BY <2>1, <2>2 DEF Items
<1> QED
  BY <1>1 DEF Agree

\* The tree that a clip is added to has the sequence.
Pinnable(d, size) ==
  /\ IsTree(d) /\ <<"pinned">> \in DOMAIN d /\ d[<<"pinned">>] = "seq"
  /\ size \in 0..Len(Numerals) /\ Counted(d, <<"pinned">>, size)

LEMMA PinnableIs ==
  ASSUME NEW d, IsTree(d), <<"pinned">> \in DOMAIN d, d[<<"pinned">>] = "seq"
  PROVE  \E size : Pinnable(d, size) /\ Cardinality(Children(d, <<"pinned">>)) = size
<1>1. PICK size \in 0..Len(Numerals) : Counted(d, <<"pinned">>, size)
  BY TreeIs DEF Fits
<1>2. Cardinality(Children(d, <<"pinned">>)) = size
  BY <1>1, CountIs, KeysArePaths
<1> QED
  BY <1>1, <1>2 DEF Pinnable

LEMMA MadePinnable ==
  ASSUME NEW d, IsTree(d), ~(<<"pinned">> \in DOMAIN d /\ d[<<"pinned">>] = "seq")
  PROVE  Pinnable(Put(d, <<"pinned">>, "seq"), 0) /\ normalizedPinned(Put(d, <<"pinned">>, "seq")) = normalizedPinned(d)
<1> DEFINE e == Put(d, <<"pinned">>, "seq")
<1>1. Typed(d) /\ <<>> \in DOMAIN d /\ d[<<>>] = "map"
  BY TreeIs
<1>2. <<"pinned">> = Append(<<>>, "pinned") /\ <<"pinned">> \in Path /\ "pinned" \in STRING /\ "seq" \in STRING
  <2>1. \A a : <<a>> = Append(<<>>, a)
    OBVIOUS
  <2> QED
    BY <2>1, KeysArePaths, LiteralsAre
<1>3. IsTree(e)
  BY <1>1, <1>2, PutTree
<1>4. /\ <<"pinned">> \in DOMAIN e /\ e[<<"pinned">>] = "seq"
      /\ \A q \in DOMAIN e : q = <<"pinned">> \/ (q \in DOMAIN d /\ ~IsPrefix(<<"pinned">>, q))
  BY <1>1, <1>2, PutIs DEF Typed
<1>5. DOMAIN e \subseteq Path
  BY <1>3, TreeIs DEF Typed
<1> HIDE DEF e
<1>6. ASSUME NEW q \in Children(e, <<"pinned">>) PROVE FALSE
  <2> DEFINE at == <<"pinned">>
  <2>3. at \in Path /\ q \in Children(e, at)
    BY <1>2, <1>6
  <2> HIDE DEF at
  <2>4. q \in DOMAIN e /\ \E x \in STRING : q = Append(at, x)
    BY <1>5, <2>3, ChildrenAre
  <2>5. PICK x \in STRING : q = Append(at, x)
    BY <2>4
  <2>6. IsPrefix(at, q) /\ ~IsPrefix(q, at)
    BY <2>3, <2>5, AboveChild
  <2>7. IsPrefix(at, at)
    BY <2>3, PrefixOrder
  <2>1. q \in DOMAIN e
    BY <2>4
  <2>2. IsPrefix(<<"pinned">>, q) /\ q # <<"pinned">>
    BY <2>6, <2>7 DEF at
  <2> QED
    BY <1>4, <2>1, <2>2
<1>7. Len(Numerals) \in Nat /\ 0 \in 0..Len(Numerals)
  BY NumeralsAre
<1>8. Counted(e, <<"pinned">>, 0)
  BY <1>6 DEF Counted
<1>9. PICK T : Gathers(T, Items(e, 0), 0) /\ normalizedPinned(e) = T[0]
  BY <1>3, <1>4, <1>7, <1>8, PinnedIs
<1>10. normalizedPinned(e) = <<>>
  BY <1>9 DEF Gathers
<1>11. normalizedPinned(d) = <<>>
  BY DEF normalizedPinned
<1>12. Pinnable(e, 0)
  BY <1>3, <1>4, <1>7, <1>8 DEF Pinnable
<1> QED
  BY <1>10, <1>11, <1>12 DEF e

\* A clip put behind the items comes last in what is read.
LEMMA PutPinned ==
  ASSUME NEW d, NEW size, Pinnable(d, size), size < Len(Numerals), NEW clip \in Clips
  PROVE  /\ IsTree(Put(d, Item(<<"pinned">>, size), clip))
         /\ normalizedPinned(Put(d, Item(<<"pinned">>, size), clip)) = Append(normalizedPinned(d), clip)
<1> DEFINE at == <<"pinned">>
           e == Put(d, Item(at, size), clip)
<1>1. IsTree(d) /\ at \in DOMAIN d /\ d[at] = "seq" /\ size \in 0..Len(Numerals) /\ Counted(d, at, size) /\ Typed(d)
  BY TreeIs DEF Pinnable
<1>2. at \in Path /\ Text(clip) /\ clip \notin Inner /\ clip \in STRING
  BY KeysArePaths, ConfigAssumption DEF Text, Inner
<1>3. size \in Nat /\ Len(Numerals) \in Nat /\ size \in 0..size /\ size + 1 \in 0..Len(Numerals)
  BY <1>1, NumeralsAre
<1>4. IsTree(e) /\ Counted(e, at, size + 1)
  BY <1>1, <1>2, <1>3, PutItem
<1> HIDE DEF at
<1>5. /\ Item(at, size) \in Path /\ Item(at, size) \in DOMAIN e /\ e[Item(at, size)] = clip
      /\ \A q \in DOMAIN d : ~IsPrefix(Item(at, size), q) => q \in DOMAIN e /\ e[q] = d[q]
  <2>1. Item(at, size) \in Path
    BY <1>2, <1>3, ItemIs
  <2>2. DOMAIN d \subseteq Path
    BY <1>1 DEF Typed
  <2> QED
    BY <2>1, <2>2, PutIs
<1>6. ~IsPrefix(Item(at, size), at)
  <2>1. PICK x \in STRING : Item(at, size) = Append(at, x)
    BY <1>2, <1>3, ItemIs
  <2>2. at \in Path
    BY <1>2
  <2>3. ~IsPrefix(Append(at, x), at)
    BY <2>2, AboveChild
  <2> QED
    BY <2>1, <2>3
<1>7. at \in DOMAIN e /\ e[at] = "seq"
  BY <1>1, <1>5, <1>6
<1> HIDE DEF e
<1>8. ASSUME NEW k \in 0..(size - 1) PROVE asString(e, Item(at, k)) = asString(d, Item(at, k))
  <2>1. k \in Nat /\ k < Len(Numerals) /\ k # size
    BY <1>3
  <2>2. Item(at, k) \in Path /\ IsPrefix(Item(at, k), Item(at, k))
    BY <1>2, <2>1, ItemIs, PrefixOrder
  <2>3. ~IsPrefix(Item(at, size), Item(at, k))
    BY <1>2, <1>3, <2>1, <2>2, OneItem
  <2>4. Item(at, k) \in DOMAIN d
    BY <1>1, <2>1 DEF Counted, Children
  <2> QED
    BY <1>5, <2>3, <2>4 DEF asString
<1>9. ItemsAlike(d, e, size)
  BY <1>8 DEF ItemsAlike, at
<1>10. asString(e, Item(at, size)) = clip
  BY <1>2, <1>5 DEF asString
<1>11. Items(e, size + 1)[size + 1] = clip
  <2>1. size + 1 \in 1..(size + 1) /\ (size + 1) - 1 = size
    BY <1>3
  <2> QED
    BY <1>10, <2>1 DEF Items, at
<1>12. PICK T : Gathers(T, Items(d, size), size) /\ normalizedPinned(d) = T[size]
  BY <1>1, PinnedIs DEF at
<1>13. PICK U : Gathers(U, Items(e, size + 1), size + 1) /\ normalizedPinned(e) = U[size + 1]
  BY <1>3, <1>4, <1>7, PinnedIs DEF at
<1>14. size <= size /\ size <= size + 1 /\ size + 1 \in Nat
  BY <1>3
<1>15. Agree(Items(d, size), Items(e, size + 1), size)
  BY <1>3, <1>9, <1>14, AlikeAgree
<1>16. U[size + 1] = Append(T[size], clip)
  BY <1>2, <1>3, <1>11, <1>12, <1>13, <1>15, GatherAdd
<1> QED
  BY <1>4, <1>12, <1>13, <1>16 DEF e, at

LEMMA AddIs ==
  ASSUME NEW d, IsTree(d), NEW clip \in Clips, Cardinality(Children(d, <<"pinned">>)) < Len(Numerals)
  PROVE  /\ IsTree(addPinnedClip(d, clip))
         /\ normalizedPinned(addPinnedClip(d, clip)) = Append(normalizedPinned(d), clip)
<1>1. CASE <<"pinned">> \in DOMAIN d /\ d[<<"pinned">>] = "seq"
  <2>1. PICK size : Pinnable(d, size) /\ Cardinality(Children(d, <<"pinned">>)) = size
    BY <1>1, PinnableIs
  <2>2. addPinnedClip(d, clip) = Put(d, Item(<<"pinned">>, size), clip)
    BY <1>1, <2>1 DEF addPinnedClip
  <2> QED
    BY <2>1, <2>2, PutPinned
<1>2. ASSUME ~(<<"pinned">> \in DOMAIN d /\ d[<<"pinned">>] = "seq")
      PROVE  /\ IsTree(addPinnedClip(d, clip))
             /\ normalizedPinned(addPinnedClip(d, clip)) = Append(normalizedPinned(d), clip)
  <2> DEFINE e == Put(d, <<"pinned">>, "seq")
  <2>1. Pinnable(e, 0) /\ normalizedPinned(e) = normalizedPinned(d)
    BY <1>2, MadePinnable
  <2>2. addPinnedClip(d, clip) = Put(e, Item(<<"pinned">>, Cardinality(Children(e, <<"pinned">>))), clip)
    BY <1>2 DEF addPinnedClip
  <2> HIDE DEF e
  <2>3. 0 < Len(Numerals)
    <3>1. Numerals \in Seq(STRING) /\ Numerals # <<>>
      BY ConfigAssumption DEF Path
    <3> QED
      BY <3>1, EmptySeq
  <2>4. Cardinality(Children(e, <<"pinned">>)) = 0
    BY <2>1, CountIs, KeysArePaths DEF Pinnable
  <2> QED
    BY <2>1, <2>2, <2>3, <2>4, PutPinned
<1> QED
  BY <1>1, <1>2

\* The first of a clip's positions.
FirstPosition(d, clip, n) == n \in Positions(d, clip) /\ \A k \in Positions(d, clip) : n <= k

\* The first place of a clip in a list.
FirstIn(list, clip, i) == i \in 1..Len(list) /\ list[i] = clip /\ \A k \in 1..(i - 1) : list[k] # clip

\* Without its first position, a clip is gone from its first place in what is read.
LEMMA UnpinIs ==
  ASSUME NEW d, IsTree(d), NEW clip \in Clips, IsPinned(d, clip), NEW n, FirstPosition(d, clip, n)
  PROVE  /\ IsTree(RemoveItem(d, <<"pinned">>, n))
         /\ \E i : /\ FirstIn(normalizedPinned(d), clip, i)
                   /\ normalizedPinned(RemoveItem(d, <<"pinned">>, n)) = RemoveAt(normalizedPinned(d), i)
<1> DEFINE at == <<"pinned">>
           e == RemoveItem(d, at, n)
<1>1. at \in DOMAIN d /\ d[at] = "seq"
  BY DEF IsPinned
<1>2. PICK size : Pinnable(d, size) /\ Cardinality(Children(d, at)) = size
  BY <1>1, PinnableIs
<1>3. IsTree(d) /\ size \in 0..Len(Numerals) /\ Counted(d, at, size)
  BY <1>2 DEF Pinnable
<1>4. Text(clip) /\ at \in Path
  BY KeysArePaths, ConfigAssumption DEF Text, Inner
<1>5. Positions(d, clip) = {k \in 0..(size - 1) : asString(d, Item(at, k)) = clip}
  BY <1>2 DEF Positions
<1>6. n \in 0..(size - 1) /\ asString(d, Item(at, n)) = clip
  BY <1>5 DEF FirstPosition
<1>7. ASSUME NEW k \in 0..(n - 1) PROVE asString(d, Item(at, k)) # clip
  <2>1. size \in Nat /\ n \in Nat
    BY <1>3, <1>6, NumeralsAre
  <2>2. k \in 0..(size - 1) /\ ~(n <= k)
    BY <1>6, <2>1
  <2>3. k \notin Positions(d, clip)
    BY <2>2 DEF FirstPosition
  <2> QED
    BY <1>5, <2>2, <2>3
<1>8. size \in Nat \ {0} /\ n \in Nat /\ Len(Numerals) \in Nat /\ size - 1 \in 0..Len(Numerals) /\ size <= Len(Numerals)
  BY <1>3, <1>6, NumeralsAre
<1> HIDE DEF at
<1>9. /\ IsTree(e) /\ Counted(e, at, size - 1) /\ at \in DOMAIN e /\ e[at] = "seq"
      /\ \A k \in 0..(n - 1) : e[Item(at, k)] = d[Item(at, k)] /\ Item(at, k) \in DOMAIN d
      /\ \A k \in (n + 1)..(size - 1) : e[Item(at, k - 1)] = d[Item(at, k)] /\ Item(at, k) \in DOMAIN d
  BY <1>1, <1>3, <1>6, RemoveTree
<1> HIDE DEF e
<1>10. ASSUME NEW k \in 0..(size - 2) PROVE Item(at, k) \in DOMAIN e
  BY <1>8, <1>9 DEF Counted, Children
<1>11. ASSUME NEW k \in 0..(n - 1) PROVE asString(e, Item(at, k)) = asString(d, Item(at, k))
  <2>1. k \in 0..(size - 2)
    BY <1>6, <1>8
  <2> QED
    BY <1>9, <1>10, <2>1 DEF asString
<1>12. ASSUME NEW k \in (n + 1)..(size - 1) PROVE asString(e, Item(at, k - 1)) = asString(d, Item(at, k))
  <2>1. k - 1 \in 0..(size - 2)
    BY <1>6, <1>8
  <2>2. Item(at, k - 1) \in DOMAIN e
    BY <1>10, <2>1
  <2> QED
    BY <1>9, <2>2 DEF asString
<1> DEFINE j == n + 1
           items == Items(d, size)
           others == Items(e, size - 1)
<1>13. j \in 1..size /\ j - 1 = n /\ j - 1 \in Nat /\ size - 1 \in Nat /\ j - 1 <= size /\ j - 1 <= size - 1
  BY <1>6, <1>8
<1>14. items[j] = clip
  BY <1>6, <1>13 DEF Items, at
<1>15. First(items, j)
  <2>1. ASSUME NEW m \in 1..(j - 1) PROVE items[m] # clip
    <3>1. m - 1 \in 0..(n - 1) /\ m \in 1..size
      BY <1>8, <1>13
    <3>2. items[m] = asString(d, Item(at, m - 1))
      BY <3>1 DEF Items, at
    <3> QED
      BY <1>7, <3>1, <3>2
  <2> QED
    BY <1>14, <2>1 DEF First
<1>16. Agree(items, others, j - 1)
  <2>1. ItemsAlike(d, e, j - 1)
    BY <1>11, <1>13 DEF ItemsAlike, at
  <2> QED
    BY <1>8, <1>13, <2>1, AlikeAgree
<1>17. Follow(items, others, j, size)
  <2>1. ASSUME NEW m \in (j + 1)..size PROVE others[m - 1] = items[m]
    <3>1. /\ m - 1 \in (n + 1)..(size - 1) /\ m \in 1..size /\ m - 1 \in 1..(size - 1)
      BY <1>8, <1>13
    <3>2. items[m] = asString(d, Item(at, m - 1))
      BY <3>1 DEF Items, at
    <3>3. others[m - 1] = asString(e, Item(at, (m - 1) - 1))
      BY <3>1 DEF Items, at
    <3> QED
      BY <1>12, <3>1, <3>2, <3>3
  <2> QED
    BY <2>1 DEF Follow
<1>18. Strings(items, size) /\ \E T : Gathers(T, items, size) /\ normalizedPinned(d) = T[size]
  BY <1>1, <1>3, PinnedIs DEF at
<1>19. \E T : Gathers(T, others, size - 1) /\ normalizedPinned(e) = T[size - 1]
  BY <1>8, <1>9, PinnedIs DEF at
<1> HIDE DEF j, items, others
<1>20. PICK T : Gathers(T, items, size) /\ normalizedPinned(d) = T[size]
  BY <1>18
<1>21. PICK U : Gathers(U, others, size - 1) /\ normalizedPinned(e) = U[size - 1]
  BY <1>19
<1>22. Text(items[j])
  BY <1>4, <1>14
<1>23. \E i \in 1..Len(T[size]) :
         /\ T[size][i] = items[j] /\ \A k \in 1..(i - 1) : T[size][k] # items[j]
         /\ U[size - 1] = RemoveAt(T[size], i)
  BY <1>8, <1>13, <1>15, <1>16, <1>17, <1>18, <1>20, <1>21, <1>22, GatherRemove
<1>24. \E i : FirstIn(normalizedPinned(d), clip, i) /\ normalizedPinned(e) = RemoveAt(normalizedPinned(d), i)
  BY <1>14, <1>20, <1>21, <1>23 DEF FirstIn
<1> QED
  BY <1>9, <1>24 DEF e, at

LEMMA FirstIsOne ==
  ASSUME NEW S \in SUBSET Int, NEW m \in S, NEW n \in S, \A k \in S : m <= k, \A k \in S : n <= k
  PROVE  m = n
<1>1. m <= n /\ n <= m /\ m \in Int /\ n \in Int
  OBVIOUS
<1> QED
  BY <1>1

LEMMA FirstInIsOne ==
  ASSUME NEW list, Len(list) \in Nat, NEW clip, NEW i, FirstIn(list, clip, i), NEW k, FirstIn(list, clip, k)
  PROVE  i = k
<1>1. i \in Nat /\ k \in Nat /\ list[i] = clip /\ list[k] = clip
  BY DEF FirstIn
<1>2. ~(i < k)
  <2>1. ASSUME i < k PROVE FALSE
    <3>1. i \in 1..(k - 1)
      BY <1>1, <2>1 DEF FirstIn
    <3> QED
      BY <1>1, <3>1 DEF FirstIn
  <2> QED
    BY <2>1
<1>3. ~(k < i)
  <2>1. ASSUME k < i PROVE FALSE
    <3>1. k \in 1..(i - 1)
      BY <1>1, <2>1 DEF FirstIn
    <3> QED
      BY <1>1, <3>1 DEF FirstIn
  <2> QED
    BY <2>1
<1> QED
  BY <1>1, <1>2, <1>3

\* A pinned clip has a first position, and it is the one that pkgUnpin takes.
LEMMA TheFirstPosition ==
  ASSUME NEW d, IsTree(d), NEW clip, IsPinned(d, clip)
  PROVE  FirstPosition(d, clip, CHOOSE n \in Positions(d, clip) : \A k \in Positions(d, clip) : n <= k)
<1> DEFINE S == Positions(d, clip)
<1>1. S \in SUBSET Nat /\ S # {}
  <2>1. PICK size : Pinnable(d, size) /\ Cardinality(Children(d, <<"pinned">>)) = size
    BY PinnableIs DEF IsPinned
  <2>2. size \in Nat
    BY <2>1, NumeralsAre DEF Pinnable
  <2>3. 0..(size - 1) \subseteq Nat
    BY <2>2
  <2> QED
    BY <2>1, <2>3 DEF Positions, IsPinned
<1>2. \E n \in S : \A k \in S : n <= k
  <2> HIDE DEF S
  <2>1. PICK n \in S : TRUE
    BY <1>1
  <2> DEFINE T == {m \in 0..n : ~\E k \in S : k < m}
  <2>2. SUFFICES ASSUME ~\E m \in S : \A k \in S : m <= k PROVE FALSE
    OBVIOUS
  <2>3. n \in Nat
    BY <1>1, <2>1
  <2>4. 0 \in T
    BY <1>1, <2>3
  <2>5. ASSUME NEW m \in 1..n, m - 1 \in T PROVE m \in T
    <3>1. ASSUME NEW k \in S, k < m PROVE FALSE
      <4>1. k \in Nat /\ m - 1 \in Nat
        BY <1>1, <2>3
      <4>2. ~(k < m - 1)
        BY <2>5, <3>1
      <4>3. k = m - 1
        BY <2>3, <3>1, <4>1, <4>2
      <4>4. PICK l \in S : ~(k <= l)
        BY <2>2, <3>1
      <4>5. l < m - 1
        BY <1>1, <4>1, <4>3, <4>4
      <4> QED
        BY <2>5, <4>5
    <3> QED
      BY <2>3, <3>1
  <2> HIDE DEF T
  <2>6. \A m \in 0..n : m \in T
    BY <2>3, <2>4, <2>5, UpTo
  <2>7. n \in T
    BY <2>3, <2>6
  <2>8. PICK l \in S : ~(n <= l)
    BY <2>1, <2>2
  <2>9. l < n
    BY <1>1, <2>3, <2>8
  <2> QED
    BY <2>7, <2>9 DEF T
<1>3. (CHOOSE n \in S : \A k \in S : n <= k) \in S /\ \A k \in S : (CHOOSE n \in S : \A m \in S : n <= m) <= k
  BY <1>2
<1> QED
  BY <1>3 DEF FirstPosition

-----------------------------------------------------------------------------
(* The file is a tree.                                                     *)

LEMMA FirstTree == ConfigInit => TreeInv
<1> SUFFICES ASSUME ConfigInit PROVE TreeInv
  OBVIOUS
<1>1. IsTree(doc)
  BY ConfigAssumption DEF ConfigInit
<1>2. IsTodo(<<>>)
  BY DEF IsTodo
<1>3. PICK cfg : cfg = loadConfig(doc)
  OBVIOUS
<1>4. DOMAIN cfg.providers \subseteq Providers
  BY <1>1, <1>3, LoadIs
<1>5. PanelForm /\ panel.shown = cfg
  BY <1>3 DEF ConfigInit, PanelForm
<1>6. HandlersForm
  BY NoTaskIs DEF ConfigInit, HandlersForm
<1>7. \A h \in Handlers : handlers[h].todo = <<>> /\ handlers[h].got = <<>>
  BY NoTaskIs DEF ConfigInit
<1>8. setup = [todo |-> setup.todo, busy |-> setup.busy, done |-> setup.done] /\ setup.todo = <<>>
  BY DEF ConfigInit
<1> QED
  BY <1>1, <1>2, <1>4, <1>5, <1>6, <1>7, <1>8 DEF TreeInv

\* A request of who that is answered, or lost, leaves a tree.
LEMMA SentTree ==
  ASSUME IsTree(doc), NEW who, NEW w \in Requests, Sent(who, w)
  PROVE  IsTree(doc')
<1>1. CASE Accepted(w) /\ Apply(who, w)
  BY <1>1, AcceptedTree
<1>2. CASE UNCHANGED <<doc, last, alone>>
  BY <1>2
<1> QED
  BY <1>1, <1>2 DEF Sent

LEMMA CommandTree ==
  ASSUME TreeInv, runConfig
  PROVE  IsTree(doc')
<1>1. IsTree(doc) /\ Keys \subseteq Path \ {<<>>} /\ "" \in STRING /\ "x" \in STRING
  BY ConfigAssumption, LiteralsAre DEF TreeInv
<1>2. ASSUME NEW key \in Keys, NEW value \in {"", "x"}, Apply("command", Set(key, value)) PROVE IsTree(doc')
  <2>1. Set(key, value) \in Requests
    BY <1>1, RequestIs
  <2>2. Set(key, value).key = key /\ Set(key, value).op = "set"
    BY DEF Set
  <2>3. Set(key, value).key # <<>> /\ (Set(key, value).op = "delete" => CanDelete(doc, Set(key, value).key))
    BY <1>1, <2>2
  <2> QED
    BY <1>1, <1>2, <2>1, <2>3, ApplyTree
<1>3. ASSUME NEW key \in Keys, CanDelete(doc, key), Apply("command", Delete(key)) PROVE IsTree(doc')
  <2>1. Delete(key) \in Requests
    BY <1>1, RequestIs
  <2>2. Delete(key).key = key
    BY DEF Delete
  <2>3. Delete(key).key # <<>> /\ (Delete(key).op = "delete" => CanDelete(doc, Delete(key).key))
    BY <1>1, <1>3, <2>2
  <2> QED
    BY <1>1, <1>3, <2>1, <2>3, ApplyTree
<1>4. ASSUME Write("command", Delete(<<>>), Seed) PROVE IsTree(doc')
  BY <1>4, ConfigAssumption DEF Write
<1> QED
  BY <1>2, <1>3, <1>4 DEF runConfig

\* What a run does with the file.
LEMMA PinSteps ==
  ASSUME IsTree(doc), NEW clip \in Clips
  PROVE  /\ /\ Cardinality(Children(doc, <<"pinned">>)) < Len(Numerals)
            /\ Write("run", Set(<<"pinned">>, clip), addPinnedClip(doc, clip))
            => IsTree(doc') /\ normalizedPinned(doc') = Append(normalizedPinned(doc), clip)
         /\ /\ IsPinned(doc, clip)
            /\ Write("run", Delete(<<"pinned">>),
                     RemoveItem(doc, <<"pinned">>, CHOOSE n \in Positions(doc, clip) : \A k \in Positions(doc, clip) : n <= k))
            => /\ IsTree(doc')
               /\ \E i : FirstIn(normalizedPinned(doc), clip, i) /\ normalizedPinned(doc') = RemoveAt(normalizedPinned(doc), i)
<1>1. ASSUME Cardinality(Children(doc, <<"pinned">>)) < Len(Numerals),
             Write("run", Set(<<"pinned">>, clip), addPinnedClip(doc, clip))
      PROVE  IsTree(doc') /\ normalizedPinned(doc') = Append(normalizedPinned(doc), clip)
  <2> DEFINE e == addPinnedClip(doc, clip)
  <2>1. doc' = e
    BY <1>1 DEF Write
  <2>2. IsTree(e) /\ normalizedPinned(e) = Append(normalizedPinned(doc), clip)
    BY <1>1, AddIs
  <2> HIDE DEF e
  <2> QED
    BY <2>1, <2>2
<1>2. ASSUME IsPinned(doc, clip),
             Write("run", Delete(<<"pinned">>),
                   RemoveItem(doc, <<"pinned">>, CHOOSE n \in Positions(doc, clip) : \A k \in Positions(doc, clip) : n <= k))
      PROVE  /\ IsTree(doc')
             /\ \E i : FirstIn(normalizedPinned(doc), clip, i) /\ normalizedPinned(doc') = RemoveAt(normalizedPinned(doc), i)
  <2> DEFINE first == CHOOSE n \in Positions(doc, clip) : \A k \in Positions(doc, clip) : n <= k
             e == RemoveItem(doc, <<"pinned">>, first)
  <2>1. doc' = e
    BY <1>2 DEF Write
  <2>2. FirstPosition(doc, clip, first)
    BY <1>2, TheFirstPosition
  <2> HIDE DEF first
  <2>3. /\ IsTree(e)
        /\ \E i : FirstIn(normalizedPinned(doc), clip, i) /\ normalizedPinned(e) = RemoveAt(normalizedPinned(doc), i)
    BY <1>2, <2>2, UnpinIs
  <2> HIDE DEF e
  <2> QED
    BY <2>1, <2>3
<1> QED
  BY <1>1, <1>2

SetupForm == setup = [todo |-> setup.todo, busy |-> setup.busy, done |-> setup.done]

\* What a handler has to ask for gets shorter, is given up or is new.
LEMMA TodoSteps ==
  ASSUME PanelForm, HandlersForm, PanelNext, NEW k \in Handlers
  PROVE  \/ handlers'[k].todo = handlers[k].todo
         \/ handlers'[k].todo = <<>>
         \/ handlers[k].todo # <<>> /\ handlers'[k].todo = Tail(handlers[k].todo)
         \/ handlers'[k].todo \in handleSet \cup handleAddProvider \cup handleDeleteProvider \cup Reset
<1>1. CASE OpenPanel
  <2>1. PICK h \in Handlers : handlers' = [handlers EXCEPT ![h].loads = TRUE]
    BY <1>1 DEF OpenPanel
  <2> QED
    BY <2>1 DEF HandlersForm
<1>2. CASE ClosePanel
  BY <1>2 DEF ClosePanel
<1>3. CASE Act
  <2>1. PICK h \in Handlers, todo \in handleSet \cup handleAddProvider \cup handleDeleteProvider \cup Reset :
          handlers' = [handlers EXCEPT ![h].todo = todo]
    BY <1>3 DEF Act
  <2> QED
    BY <2>1 DEF HandlersForm
<1>4. ASSUME NEW h \in Handlers, PanelRequest(h) PROVE handlers'[k].todo = handlers[k].todo
  <2>1. PICK reply : handlers' = [handlers EXCEPT ![h].reply = reply]
    BY <1>4 DEF PanelRequest
  <2> QED
    BY <2>1 DEF HandlersForm
<1>5. ASSUME NEW h \in Handlers, PanelReply(h)
      PROVE  \/ handlers'[k].todo = handlers[k].todo
             \/ handlers'[k].todo = <<>>
             \/ handlers[k].todo # <<>> /\ handlers'[k].todo = Tail(handlers[k].todo)
  <2>1. PICK rest : rest = Tail(handlers[h].todo)
    OBVIOUS
  <2>2. PICK next : next = [NoTask EXCEPT !.todo = rest, !.loads = (rest = <<>>)]
    OBVIOUS
  <2>3. handlers' = [handlers EXCEPT ![h] = next] \/ handlers' = [handlers EXCEPT ![h] = NoTask]
    BY <1>5, <2>1, <2>2 DEF PanelReply
  <2>4. next.todo = rest
    BY <2>2 DEF NoTask
  <2>5. handlers[h].todo # <<>>
    BY <1>5 DEF PanelReply, HandlersForm
  <2> QED
    BY <2>1, <2>3, <2>4, <2>5, NoTaskIs DEF HandlersForm
<1>6. ASSUME NEW h \in Handlers, PanelLoad(h) PROVE handlers'[k].todo = handlers[k].todo
  <2>1. PICK got : handlers' = [handlers EXCEPT ![h].got = got]
    BY <1>6 DEF PanelLoad
  <2> QED
    BY <2>1 DEF HandlersForm
<1>7. ASSUME NEW h \in Handlers, PanelShows(h) \/ PanelLoses(h)
      PROVE  handlers'[k].todo = handlers[k].todo \/ handlers'[k].todo = <<>>
  <2>1. handlers' = [handlers EXCEPT ![h] = NoTask]
    BY <1>7 DEF PanelShows, PanelLoses
  <2> QED
    BY <2>1, NoTaskIs DEF HandlersForm
<1> QED
  BY <1>1, <1>2, <1>3, <1>4, <1>5, <1>6, <1>7 DEF PanelNext

\* The panel writes what a handler asks for, or nothing.
LEMMA PanelWrites ==
  ASSUME PanelNext
  PROVE  /\ setup' = setup /\ page' = page
         /\ \/ \E h \in Handlers : /\ handlers[h].todo # <<>> /\ Accepted(Head(handlers[h].todo))
                                  /\ Apply("panel", Head(handlers[h].todo))
            \/ UNCHANGED <<doc, last>> /\ (alone' = alone \/ alone' = alone \cup {"panel"})
<1>1. CASE OpenPanel \/ ClosePanel \/ Act
  BY <1>1 DEF OpenPanel, ClosePanel, Act
<1>2. ASSUME NEW h \in Handlers, PanelRequest(h)
      PROVE  /\ setup' = setup /\ page' = page
             /\ \/ /\ handlers[h].todo # <<>> /\ Accepted(Head(handlers[h].todo))
                   /\ Apply("panel", Head(handlers[h].todo))
                \/ UNCHANGED <<doc, last, alone>>
  BY <1>2 DEF PanelRequest, Sent
<1>3. ASSUME NEW h \in Handlers, PanelReply(h) \/ PanelLoad(h) \/ PanelShows(h) \/ PanelLoses(h)
      PROVE  setup' = setup /\ page' = page /\ UNCHANGED <<doc, last>> /\ (alone' = alone \/ alone' = alone \cup {"panel"})
  BY <1>3 DEF PanelReply, PanelLoad, PanelShows, PanelLoses
<1> QED
  BY <1>1, <1>2, <1>3 DEF PanelNext

\* What the panel shows and what is on its way to it are configurations.
LEMMA ProvidersShown ==
  ASSUME TreeInv, PanelNext
  PROVE  /\ DOMAIN panel'.shown.providers \subseteq Providers
         /\ \A k \in Handlers : handlers'[k].got # <<>> => DOMAIN handlers'[k].got[1].providers \subseteq Providers
<1> DEFINE Listed(cfg) == DOMAIN cfg.providers \subseteq Providers
<1>1. /\ PanelForm /\ HandlersForm /\ Listed(panel.shown)
      /\ \A k \in Handlers : handlers[k].got # <<>> => Listed(handlers[k].got[1])
  BY DEF TreeInv
<1>2. PICK cfg : cfg = loadConfig(doc)
  OBVIOUS
<1>3. Listed(cfg)
  BY <1>2, LoadIs DEF TreeInv
<1> HIDE DEF Listed
<1>4. \/ UNCHANGED panel.shown /\ \A k \in Handlers : handlers'[k].got = handlers[k].got \/ handlers'[k].got = <<>>
      \/ UNCHANGED panel.shown /\ \A k \in Handlers : handlers'[k].got = handlers[k].got \/ handlers'[k].got = <<cfg>>
      \/ \E h \in Handlers : /\ handlers[h].got # <<>> /\ panel'.shown = handlers[h].got[1]
                             /\ \A k \in Handlers : handlers'[k].got = handlers[k].got \/ handlers'[k].got = <<>>
  <2>1. CASE OpenPanel
    <3>1. PICK h \in Handlers : handlers' = [handlers EXCEPT ![h].loads = TRUE]
      BY <2>1 DEF OpenPanel
    <3>2. panel'.shown = panel.shown
      BY <1>1, <2>1 DEF OpenPanel, PanelForm
    <3> QED
      BY <1>1, <3>1, <3>2 DEF HandlersForm
  <2>2. CASE ClosePanel
    BY <1>1, <2>2 DEF ClosePanel, PanelForm
  <2>3. CASE Act
    <3>1. PICK h \in Handlers, todo \in handleSet \cup handleAddProvider \cup handleDeleteProvider \cup Reset :
            handlers' = [handlers EXCEPT ![h].todo = todo]
      BY <2>3 DEF Act
    <3> QED
      BY <1>1, <2>3, <3>1 DEF Act, HandlersForm
  <2>4. ASSUME NEW h \in Handlers, PanelRequest(h)
        PROVE  UNCHANGED panel.shown /\ \A k \in Handlers : handlers'[k].got = handlers[k].got
    <3>1. PICK reply : handlers' = [handlers EXCEPT ![h].reply = reply]
      BY <2>4 DEF PanelRequest
    <3> QED
      BY <1>1, <2>4, <3>1 DEF PanelRequest, HandlersForm
  <2>5. ASSUME NEW h \in Handlers, PanelReply(h)
        PROVE  UNCHANGED panel.shown /\ \A k \in Handlers : handlers'[k].got = handlers[k].got \/ handlers'[k].got = <<>>
    <3>1. PICK rest : rest = Tail(handlers[h].todo)
      OBVIOUS
    <3>2. PICK next : next = [NoTask EXCEPT !.todo = rest, !.loads = (rest = <<>>)]
      OBVIOUS
    <3>3. handlers' = [handlers EXCEPT ![h] = next] \/ handlers' = [handlers EXCEPT ![h] = NoTask]
      BY <2>5, <3>1, <3>2 DEF PanelReply
    <3>4. next.got = <<>>
      BY <3>2 DEF NoTask
    <3>5. PICK error : panel' = [panel EXCEPT !.error = error]
      BY <2>5 DEF PanelReply
    <3>6. panel'.shown = panel.shown
      BY <1>1, <3>5 DEF PanelForm
    <3> QED
      BY <1>1, <3>3, <3>4, <3>6, NoTaskIs DEF HandlersForm
  <2>6. ASSUME NEW h \in Handlers, PanelLoad(h)
        PROVE  UNCHANGED panel.shown /\ \A k \in Handlers : handlers'[k].got = handlers[k].got \/ handlers'[k].got = <<cfg>>
    <3>1. handlers' = [handlers EXCEPT ![h].got = <<cfg>>] /\ panel' = [panel EXCEPT !.newest = {h}]
      BY <1>2, <2>6 DEF PanelLoad
    <3>2. panel'.shown = panel.shown
      BY <1>1, <3>1 DEF PanelForm
    <3> QED
      BY <1>1, <3>1, <3>2 DEF HandlersForm
  <2>7. ASSUME NEW h \in Handlers, PanelShows(h)
        PROVE  /\ handlers[h].got # <<>> /\ panel'.shown = handlers[h].got[1]
               /\ \A k \in Handlers : handlers'[k].got = handlers[k].got \/ handlers'[k].got = <<>>
    <3>1. handlers[h].got # <<>> /\ handlers' = [handlers EXCEPT ![h] = NoTask]
      BY <2>7 DEF PanelShows
    <3>2. panel'.shown = handlers[h].got[1]
      BY <1>1, <2>7 DEF PanelShows, PanelForm
    <3> QED
      BY <1>1, <3>1, <3>2, NoTaskIs DEF HandlersForm
  <2>8. ASSUME NEW h \in Handlers, PanelLoses(h)
        PROVE  UNCHANGED panel.shown /\ \A k \in Handlers : handlers'[k].got = handlers[k].got \/ handlers'[k].got = <<>>
    <3>1. handlers' = [handlers EXCEPT ![h] = NoTask] /\ panel' = [panel EXCEPT !.error = TRUE]
      BY <2>8 DEF PanelLoses
    <3>2. panel'.shown = panel.shown
      BY <1>1, <3>1 DEF PanelForm
    <3> QED
      BY <1>1, <3>1, <3>2, NoTaskIs DEF HandlersForm
  <2> QED
    BY <2>1, <2>2, <2>3, <2>4, <2>5, <2>6, <2>7, <2>8 DEF PanelNext
<1>5. Listed(panel'.shown) /\ \A k \in Handlers : handlers'[k].got # <<>> => Listed(handlers'[k].got[1])
  <2>1. <<cfg>>[1] = cfg
    OBVIOUS
  <2>2. PICK answer : answer = <<cfg>> /\ answer[1] = cfg
    BY <2>1
  <2> QED
    BY <1>1, <1>3, <1>4, <2>2
<1> QED
  BY <1>5 DEF Listed

LEMMA PanelTree ==
  ASSUME TreeInv, PanelNext
  PROVE  TreeInv'
<1>1. IsTree(doc) /\ PanelForm /\ HandlersForm /\ \A h \in Handlers : IsTodo(handlers[h].todo)
  BY DEF TreeInv
<1>2. PanelForm' /\ HandlersForm'
  BY <1>1, PanelForms
<1>3. ASSUME NEW k \in Handlers PROVE IsTodo(handlers'[k].todo)
  <2>1. IsTodo(<<>>) /\ (handlers[k].todo # <<>> => IsTodo(Tail(handlers[k].todo)))
    BY <1>1, TodoIs
  <2>2. handlers'[k].todo \in handleSet \cup handleAddProvider \cup handleDeleteProvider \cup Reset => IsTodo(handlers'[k].todo)
    BY ActTodo DEF TreeInv
  <2> QED
    BY <1>1, <2>1, <2>2, TodoSteps
<1>4. IsTree(doc')
  <2>1. CASE UNCHANGED <<doc, last>>
    BY <1>1, <2>1
  <2>2. ASSUME NEW h \in Handlers, handlers[h].todo # <<>>, Accepted(Head(handlers[h].todo)),
               Apply("panel", Head(handlers[h].todo))
        PROVE  IsTree(doc')
    <3>1. Head(handlers[h].todo) \in Requests
      BY <1>1, <2>2, TodoIs
    <3> QED
      BY <1>1, <2>2, <3>1, AcceptedTree
  <2> QED
    BY <2>1, <2>2, PanelWrites
<1>5. setup' = setup
  BY PanelWrites
<1> QED
  BY <1>2, <1>3, <1>4, <1>5, ProvidersShown DEF TreeInv

LEMMA SetupTree ==
  ASSUME TreeInv, Submit \/ SetupRequest \/ SetupLoses \/ SetupDone
  PROVE  TreeInv'
<1>1. IsTree(doc) /\ SetupForm /\ IsTodo(setup.todo)
  BY DEF TreeInv, SetupForm
<1> DEFINE Rest == panel' = panel /\ handlers' = handlers
           Good == IsTree(doc') /\ SetupForm' /\ IsTodo(setup'.todo)
<1>2. CASE Submit
  <2>1. PICK p \in Presets \cup ({loadConfig(doc).llm_provider} \ {""}), renamed \in BOOLEAN :
          setup' = [setup EXCEPT !.todo = SetupWrites(p) \o (IF renamed THEN <<Set(<<"name">>, "x")>> ELSE <<>>),
                                 !.busy = TRUE]
    BY <1>2 DEF Submit
  <2>2. p \in STRING
    <3>1. loadConfig(doc).llm_provider \in STRING
      BY <1>1, LoadIs
    <3> QED
      BY <3>1, ConfigAssumption
  <2> DEFINE todo == SetupWrites(p) \o (IF renamed THEN <<Set(<<"name">>, "x")>> ELSE <<>>)
  <2>3. IsTodo(todo)
    BY <2>2, SetupTodo
  <2>4. setup' = [setup EXCEPT !.todo = todo, !.busy = TRUE]
    BY <2>1
  <2> HIDE DEF todo
  <2>5. doc' = doc /\ Rest
    BY <1>2 DEF Submit
  <2>6. Good
    BY <1>1, <2>3, <2>4, <2>5 DEF SetupForm
  <2> QED
    BY <2>5, <2>6 DEF TreeInv, SetupForm, PanelForm, HandlersForm
<1>3. CASE SetupRequest
  <2>1. IsTodo(<<>>) /\ Head(setup.todo) \in Requests /\ IsTodo(Tail(setup.todo))
    BY <1>1, <1>3, TodoIs DEF SetupRequest
  <2>2. Sent("setup", Head(setup.todo))
    BY <1>3 DEF SetupRequest
  <2>3. IsTree(doc')
    BY <1>1, <2>1, <2>2, SentTree
  <2>4. \/ setup' = [setup EXCEPT !.todo = Tail(@)]
        \/ setup' = [setup EXCEPT !.todo = <<>>, !.busy = FALSE]
    BY <1>3 DEF SetupRequest
  <2>5. SetupForm' /\ IsTodo(setup'.todo)
    BY <1>1, <2>1, <2>4 DEF SetupForm
  <2>6. Rest
    BY <1>3 DEF SetupRequest
  <2> QED
    BY <2>3, <2>5, <2>6 DEF TreeInv, SetupForm, PanelForm, HandlersForm
<1>4. CASE SetupLoses
  <2>1. IsTodo(<<>>) /\ (setup.todo # <<>> => Head(setup.todo) \in Requests)
    BY <1>1, TodoIs
  <2>2. IsTree(doc')
    <3>1. CASE setup.todo # <<>> /\ Accepted(Head(setup.todo)) /\ Apply("setup", Head(setup.todo))
      BY <1>1, <2>1, <3>1, AcceptedTree
    <3>2. CASE UNCHANGED <<doc, last, alone>>
      BY <1>1, <3>2
    <3> QED
      BY <1>4, <3>1, <3>2 DEF SetupLoses
  <2>3. setup' = [setup EXCEPT !.todo = <<>>, !.busy = FALSE] /\ Rest
    BY <1>4 DEF SetupLoses
  <2>4. Good
    BY <1>1, <2>1, <2>2, <2>3 DEF SetupForm
  <2> QED
    BY <2>3, <2>4 DEF TreeInv, SetupForm, PanelForm, HandlersForm
<1>5. CASE SetupDone
  <2>1. doc' = doc /\ Rest /\ setup' = [setup EXCEPT !.busy = FALSE, !.done = "setup" \in alone]
    BY <1>5 DEF SetupDone
  <2>2. Good
    BY <1>1, <2>1 DEF SetupForm
  <2> QED
    BY <2>1, <2>2 DEF TreeInv, SetupForm, PanelForm, HandlersForm
<1> QED
  BY <1>2, <1>3, <1>4, <1>5

LEMMA RunTree ==
  ASSUME TreeInv, pkgPin \/ pkgUnpin
  PROVE  IsTree(doc')
<1>1. IsTree(doc)
  BY DEF TreeInv
<1>2. CASE pkgPin
  <2>1. PICK clip \in Clips :
          IF IsPinned(doc, clip) THEN UNCHANGED <<doc, last, alone>>
          ELSE /\ Cardinality(Children(doc, <<"pinned">>)) < Len(Numerals)
               /\ Write("run", Set(<<"pinned">>, clip), addPinnedClip(doc, clip))
    BY <1>2 DEF pkgPin
  <2> QED
    BY <1>1, <2>1, PinSteps
<1>3. CASE pkgUnpin
  <2>1. PICK clip \in Clips :
          /\ IsPinned(doc, clip)
          /\ Write("run", Delete(<<"pinned">>),
                   RemoveItem(doc, <<"pinned">>, CHOOSE n \in Positions(doc, clip) : \A k \in Positions(doc, clip) : n <= k))
    BY <1>3 DEF pkgUnpin
  <2> QED
    BY <1>1, <2>1, PinSteps
<1> QED
  BY <1>2, <1>3

\* Whatever is written, the file is a tree, what is asked for is a list of
\* requests, and the panel shows no providers but those there are.
LEMMA TreeInductive == ConfigSpec => []TreeInv
<1>1. ConfigInit => TreeInv
  BY FirstTree
<1>2. TreeInv /\ [ConfigNext]_configVars => TreeInv'
  <2> SUFFICES ASSUME TreeInv, [ConfigNext]_configVars PROVE TreeInv'
    OBVIOUS
  <2>1. CASE UNCHANGED configVars
    BY <2>1 DEF configVars, TreeInv, PanelForm, HandlersForm
  <2>2. CASE runConfig
    <3>1. IsTree(doc')
      BY <2>2, CommandTree
    <3>2. UNCHANGED <<panel, handlers, setup>>
      BY <2>2 DEF runConfig
    <3> QED
      BY <3>1, <3>2 DEF TreeInv, PanelForm, HandlersForm
  <2>3. CASE BeginRun
    BY <2>3 DEF BeginRun, TreeInv, PanelForm, HandlersForm
  <2>4. CASE pkgPin \/ pkgUnpin
    <3>1. IsTree(doc')
      BY <2>4, RunTree
    <3>2. UNCHANGED <<panel, handlers, setup>>
      BY <2>4 DEF pkgPin, pkgUnpin
    <3> QED
      BY <3>1, <3>2 DEF TreeInv, PanelForm, HandlersForm
  <2>5. CASE PanelNext
    BY <2>5, PanelTree
  <2>6. CASE Submit \/ SetupRequest \/ SetupLoses \/ SetupDone
    BY <2>6, SetupTree
  <2> QED
    BY <2>1, <2>2, <2>3, <2>4, <2>5, <2>6 DEF ConfigNext
<1> QED
  BY <1>1, <1>2, PTL DEF ConfigSpec

\* Whatever the writers do, the file stays a tree: its root is a map and the
\* items of each of its sequences are numbered from 0 on (config.ts:310-403).
THEOREM FileIsTree == ConfigSpec => []IsTree(doc)
<1>1. TreeInv => IsTree(doc)
  BY DEF TreeInv
<1> QED
  BY <1>1, TreeInductive, PTL

-----------------------------------------------------------------------------
(* What a run has pinned.                                                  *)

LEMMA PinnedList ==
  ASSUME NEW d, IsTree(d)
  PROVE  normalizedPinned(d) \in Seq(STRING) /\ Len(normalizedPinned(d)) \in Nat
<1>1. CASE <<"pinned">> \in DOMAIN d /\ d[<<"pinned">>] = "seq"
  <2>1. PICK size : Pinnable(d, size)
    BY <1>1, PinnableIs
  <2>2. PICK T : Gathers(T, Items(d, size), size) /\ normalizedPinned(d) = T[size]
    BY <2>1, PinnedIs DEF Pinnable
  <2>3. size \in 0..size
    BY <2>1, NumeralsAre DEF Pinnable
  <2>4. T \in [0..size -> Seq(STRING)]
    BY <2>2 DEF Gathers
  <2>5. T[size] \in Seq(STRING)
    BY <2>3, <2>4
  <2>6. \A t \in Seq(STRING) : Len(t) \in Nat
    OBVIOUS
  <2> QED
    BY <2>2, <2>5, <2>6
<1>2. CASE ~(<<"pinned">> \in DOMAIN d /\ d[<<"pinned">>] = "seq")
  <2>1. normalizedPinned(d) = <<>>
    BY <1>2 DEF normalizedPinned
  <2> QED
    BY <2>1
<1> QED
  BY <1>1, <1>2

\* The clip that a run takes from its list is the one that FirstIn names.
LEMMA TheFirstIn ==
  ASSUME NEW list \in Seq(STRING), NEW clip, NEW i, FirstIn(list, clip, i)
  PROVE  /\ Contains(list, clip)
         /\ i = CHOOSE n \in DOMAIN list : list[n] = clip /\ \A k \in 1..(n - 1) : list[k] # clip
<1>1. Len(list) \in Nat /\ DOMAIN list = 1..Len(list)
  OBVIOUS
<1>2. \A n : n \in DOMAIN list /\ list[n] = clip /\ (\A k \in 1..(n - 1) : list[k] # clip) <=> FirstIn(list, clip, n)
  BY <1>1 DEF FirstIn
<1>3. \A n : FirstIn(list, clip, n) <=> n = i
  BY <1>1, FirstInIsOne
<1>4. Contains(list, clip)
  BY <1>1 DEF FirstIn, Contains
<1>5. \A n \in DOMAIN list : list[n] = clip /\ (\A k \in 1..(n - 1) : list[k] # clip) <=> n = i
  BY <1>2, <1>3, Zenon
<1>6. i \in DOMAIN list
  BY <1>1 DEF FirstIn
<1> QED
  BY <1>4, <1>5, <1>6

\* As long as only the run itself pins and unpins, its list and the file agree:
\* the next run has what this one has (tools.ts:618-644, config.ts:195-236).
THEOREM PinsAgreeHolds == ConfigSpec => []PinsAgree
<1>1. ConfigInit => PinsAgree
  BY DEF ConfigInit, PinsAgree
<1>2. TreeInv /\ PinsAgree /\ [ConfigNext]_configVars => PinsAgree'
  <2> SUFFICES ASSUME TreeInv, PinsAgree, [ConfigNext]_configVars, run' # <<>>, "run" \in alone'
               PROVE  run'[1] = normalizedPinned(doc')
    BY DEF PinsAgree
  <2>1. IsTree(doc)
    BY DEF TreeInv
  <2>2. ASSUME run' = run, doc' = doc, alone' = alone \/ (\E who \in {"panel", "setup"} : alone' = alone \cup {who})
        PROVE  run'[1] = normalizedPinned(doc')
    BY <2>2 DEF PinsAgree
  <2>3. ASSUME NEW who \in {"command", "panel", "setup"}, NEW w, NEW tree, Write(who, w, tree) PROVE FALSE
    BY <2>3 DEF Write
  <2>4. ASSUME NEW who \in {"command", "panel", "setup"}, NEW w, Apply(who, w) PROVE FALSE
    BY <2>3, <2>4 DEF Apply
  <2>5. CASE UNCHANGED configVars
    BY <2>2, <2>5 DEF configVars
  <2>6. CASE runConfig
    BY <2>3, <2>4, <2>6 DEF runConfig
  <2>7. CASE BeginRun
    BY <2>7 DEF BeginRun
  <2>8. CASE pkgPin
    <3>1. PICK clip \in Clips :
            /\ ~Contains(run[1], clip)
            /\ run' = <<Append(run[1], clip)>>
            /\ IF IsPinned(doc, clip) THEN UNCHANGED <<doc, last, alone>>
               ELSE /\ Cardinality(Children(doc, <<"pinned">>)) < Len(Numerals)
                    /\ Write("run", Set(<<"pinned">>, clip), addPinnedClip(doc, clip))
      BY <2>8 DEF pkgPin
    <3>2. "run" \in alone /\ run # <<>>
      BY <2>8, <3>1 DEF pkgPin, Write
    <3>3. run[1] = normalizedPinned(doc)
      BY <3>2 DEF PinsAgree
    <3>4. ~IsPinned(doc, clip)
      <4>1. ASSUME IsPinned(doc, clip) PROVE FALSE
        <5>1. <<"pinned">> \in DOMAIN doc /\ doc[<<"pinned">>] = "seq"
          BY <4>1 DEF IsPinned
        <5>2. Text(clip)
          BY ConfigAssumption DEF Text
        <5>3. Contains(normalizedPinned(doc), clip)
          BY <2>1, <4>1, <5>1, <5>2, PinnedMembers
        <5> QED
          BY <3>1, <3>3, <5>3
      <4> QED
        BY <4>1
    <3>5. normalizedPinned(doc') = Append(normalizedPinned(doc), clip)
      BY <2>1, <3>1, <3>4, PinSteps
    <3> QED
      BY <3>1, <3>3, <3>5
  <2>9. CASE pkgUnpin
    <3>1. PICK clip \in Clips :
            /\ IsPinned(doc, clip)
            /\ run' = <<IF Contains(run[1], clip)
                        THEN RemoveAt(run[1], CHOOSE n \in DOMAIN run[1] :
                               run[1][n] = clip /\ \A k \in 1..(n - 1) : run[1][k] # clip)
                        ELSE run[1]>>
            /\ Write("run", Delete(<<"pinned">>),
                     RemoveItem(doc, <<"pinned">>, CHOOSE n \in Positions(doc, clip) : \A k \in Positions(doc, clip) : n <= k))
      BY <2>9 DEF pkgUnpin
    <3>2. "run" \in alone /\ run # <<>>
      BY <2>9, <3>1 DEF pkgUnpin, Write
    <3>3. run[1] = normalizedPinned(doc)
      BY <3>2 DEF PinsAgree
    <3>4. PICK i : FirstIn(normalizedPinned(doc), clip, i) /\ normalizedPinned(doc') = RemoveAt(normalizedPinned(doc), i)
      BY <2>1, <3>1, PinSteps
    <3>5. normalizedPinned(doc) \in Seq(STRING)
      BY <2>1, PinnedList
    <3> DEFINE list == normalizedPinned(doc)
    <3>6. run' = <<IF Contains(list, clip)
                   THEN RemoveAt(list, CHOOSE n \in DOMAIN list : list[n] = clip /\ \A k \in 1..(n - 1) : list[k] # clip)
                   ELSE list>>
      BY <3>1, <3>3
    <3>7. list \in Seq(STRING) /\ FirstIn(list, clip, i) /\ normalizedPinned(doc') = RemoveAt(list, i)
      BY <3>4, <3>5
    <3> HIDE DEF list
    <3>8. /\ Contains(list, clip)
          /\ i = CHOOSE n \in DOMAIN list : list[n] = clip /\ \A k \in 1..(n - 1) : list[k] # clip
      BY <3>7, TheFirstIn
    <3> QED
      BY <3>6, <3>7, <3>8, Zenon
  <2>10. CASE PanelNext
    <3>1. run' = run
      <4>1. CASE OpenPanel \/ ClosePanel \/ Act
        BY <4>1 DEF OpenPanel, ClosePanel, Act
      <4>2. ASSUME NEW h \in Handlers, PanelRequest(h) \/ PanelReply(h) \/ PanelLoad(h) \/ PanelShows(h) \/ PanelLoses(h)
            PROVE  run' = run
        BY <4>2 DEF PanelRequest, PanelReply, PanelLoad, PanelShows, PanelLoses
      <4> QED
        BY <2>10, <4>1, <4>2 DEF PanelNext
    <3> QED
      BY <2>2, <2>4, <2>10, <3>1, PanelWrites
  <2>16. CASE Submit
    BY <2>2, <2>16 DEF Submit
  <2>17. CASE SetupRequest
    BY <2>2, <2>4, <2>17 DEF SetupRequest, Sent
  <2>18. CASE SetupLoses
    BY <2>2, <2>4, <2>18 DEF SetupLoses
  <2>19. CASE SetupDone
    BY <2>2, <2>19 DEF SetupDone
  <2> QED
    BY <2>5, <2>6, <2>7, <2>8, <2>9, <2>10, <2>16, <2>17, <2>18, <2>19 DEF ConfigNext
<1> QED
  BY <1>1, <1>2, TreeInductive, PTL DEF ConfigSpec

-----------------------------------------------------------------------------
(* The providers are no sequences.                                         *)

LEMMA NoNumerals ==
  /\ ~IsNumeric("providers") /\ ~IsNumeric("base_url") /\ ~IsNumeric("api_key") /\ ~IsNumeric("protocol")
  /\ ~IsNumeric("llm_provider") /\ ~IsNumeric("llm_model") /\ ~IsNumeric("name")
BY ConfigAssumption DEF IsNumeric, Literals

LEMMA OfProvidersAre ==
  /\ <<"providers">> \in OfProviders /\ OfProviders \subseteq Path /\ <<>> \notin OfProviders
  /\ \A p \in Presets : p \in STRING /\ <<"providers", p>> \in OfProviders
  /\ \A q \in OfProviders : q[1] = "providers" /\ Len(q) \in {1, 2}
  /\ \A at \in Path, x \in STRING : Append(at, x) \in OfProviders =>
       \/ at = <<>> /\ x = "providers"
       \/ at = <<"providers">> /\ x \in Presets
<1>1. \A p \in Presets : p \in STRING
  BY ConfigAssumption
<1>2. OfProviders \subseteq Path
  BY <1>1, KeysArePaths DEF OfProviders
<1>3. \A q \in OfProviders : q[1] = "providers" /\ Len(q) \in {1, 2} /\ q # <<>>
  BY DEF OfProviders
<1>4. ASSUME NEW at \in Path, NEW x \in STRING, Append(at, x) = <<"providers">>
      PROVE  at = <<>> /\ x = "providers"
  <2>1. \A a : <<a>> = Append(<<>>, a)
    OBVIOUS
  <2>2. Append(<<>>, "providers") = Append(at, x)
    BY <1>4, <2>1
  <2>3. "providers" \in STRING
    BY LiteralsAre
  <2>4. <<>> \in Path
    BY DEF Path
  <2>5. \A y \in STRING : Append(<<>>, y) = Append(at, x) => <<>> = at /\ y = x
    BY <2>4, AboveChild
  <2> QED
    BY <2>2, <2>3, <2>5
<1>5. ASSUME NEW at \in Path, NEW x \in STRING, NEW p \in Presets, Append(at, x) = <<"providers", p>>
      PROVE  at = <<"providers">> /\ x = p
  <2>1. \A a, b : <<a, b>> = Append(<<a>>, b)
    OBVIOUS
  <2>2. Append(<<"providers">>, p) = Append(at, x)
    BY <1>5, <2>1
  <2> DEFINE up == <<"providers">>
  <2>3. up \in Path /\ p \in STRING
    BY <1>1, KeysArePaths
  <2> HIDE DEF up
  <2>4. Append(up, p) = Append(at, x)
    BY <2>2 DEF up
  <2>6. \A y \in STRING : Append(up, y) = Append(at, x) => up = at /\ y = x
    BY <2>3, AboveChild
  <2>5. up = at /\ p = x
    BY <2>3, <2>4, <2>6
  <2> QED
    BY <2>5 DEF up
<1>6. \A at \in Path, x \in STRING : Append(at, x) \in OfProviders =>
        \/ at = <<>> /\ x = "providers"
        \/ at = <<"providers">> /\ x \in Presets
  BY <1>4, <1>5 DEF OfProviders
<1> QED
  BY <1>1, <1>2, <1>3, <1>6 DEF OfProviders

LEMMA PutNoSequence ==
  ASSUME NEW d, Typed(d), NoSequence(d), NEW p \in Path, NEW node, p \in OfProviders => node # "seq"
  PROVE  NoSequence(Put(d, p, node))
<1>1. /\ p \in DOMAIN Put(d, p, node) /\ Put(d, p, node)[p] = node
      /\ \A q \in DOMAIN d : ~IsPrefix(p, q) => q \in DOMAIN Put(d, p, node) /\ Put(d, p, node)[q] = d[q]
      /\ \A q \in DOMAIN Put(d, p, node) : q = p \/ (q \in DOMAIN d /\ ~IsPrefix(p, q))
  BY PutIs DEF Typed
<1> QED
  BY <1>1 DEF NoSequence

LEMMA FillNoSequence ==
  ASSUME NEW d, IsTree(d), NoSequence(d), NEW p \in DOMAIN d, d[p] = "seq", NEW part, IsNumeric(part)
  PROVE  NoSequence(Fill(d, p, part))
<1>1. /\ \A q \in DOMAIN d : Fill(d, p, part)[q] = d[q]
      /\ \A q \in DOMAIN Fill(d, p, part) \ DOMAIN d : Fill(d, p, part)[q] = "map"
  BY FillIs
<1>2. "map" # "seq"
  OBVIOUS
<1> QED
  BY <1>1, <1>2 DEF NoSequence

\* The n-th place on the way to a key.
WayFine(w, n, key) ==
  /\ NoSequence(w.doc) /\ (n = 0 <=> w.at = <<>>)
  /\ w.at = <<"providers">> => n = 1 /\ key[1] = "providers" /\ w.doc[w.at] = "map"

LEMMA PlacesAre ==
  ASSUME NEW w \in Places
  PROVE  /\ IsTree(w.doc) /\ Typed(w.doc) /\ w.at \in DOMAIN w.doc /\ w.at \in Path
         /\ <<>> \in DOMAIN w.doc /\ w.doc[<<>>] = "map"
BY TreeIs DEF Places

LEMMA IntoFine ==
  ASSUME NEW key \in Path, MakesNoSequence(key), NEW n \in 1..(Len(key) - 1),
         NEW w \in Places, WayFine(w, n - 1, key)
  PROVE  WayFine(Into(w, key[n], key[n + 1]), n, key)
<1> DEFINE part == key[n]
           next == key[n + 1]
           child == Append(w.at, part)
           node == IF IsNumeric(next) THEN "seq" ELSE "map"
           e == Into(w, part, next)
<1>1. n \in Nat \ {0} /\ part \in STRING /\ next \in STRING /\ Len(key) \in Nat /\ n < Len(key)
  BY DEF Path
<1>2. IsTree(w.doc) /\ Typed(w.doc) /\ w.at \in DOMAIN w.doc /\ w.at \in Path /\ w.doc[<<>>] = "map"
  BY PlacesAre
<1>3. /\ NoSequence(w.doc) /\ (n - 1 = 0 <=> w.at = <<>>)
      /\ w.at = <<"providers">> => n - 1 = 1 /\ key[1] = "providers" /\ w.doc[w.at] = "map"
  BY DEF WayFine
<1>4. child \in Path /\ child # <<>>
  BY <1>1, <1>2, AppendIs
\* What is put there is no sequence of providers.
<1>5. child \in OfProviders => node = "map"
  <2>1. CASE w.at = <<>> /\ part = "providers"
    <3>1. n = 1
      BY <1>1, <1>3, <2>1
    <3>2. ~IsNumeric(key[2])
      BY <1>1, <2>1, <3>1 DEF MakesNoSequence
    <3> QED
      BY <3>1, <3>2
  <2>2. CASE w.at = <<"providers">> /\ part \in Presets
    <3>1. n = 2 /\ key[1] = "providers"
      BY <1>1, <1>3, <2>2
    <3>2. ~IsNumeric(key[3])
      BY <1>1, <2>2, <3>1 DEF MakesNoSequence
    <3> QED
      BY <3>1, <3>2
  <2> QED
    BY <1>1, <1>2, <2>1, <2>2, OfProvidersAre
\* The map of the providers is entered from the root, by their name.
<1>6. child = <<"providers">> => n = 1 /\ key[1] = "providers"
  <2>1. child = <<"providers">> => w.at = <<>> /\ part = "providers"
    <3>1. \A a : Len(<<a>>) = 1 /\ <<a>>[1] = a
      OBVIOUS
    <3>2. Len(child) = Len(w.at) + 1 /\ Len(w.at) \in Nat /\ child[Len(w.at) + 1] = part
      BY <1>1, <1>2, AppendIs
    <3>3. ASSUME child = <<"providers">> PROVE w.at = <<>> /\ part = "providers"
      <4>1. Len(w.at) = 0 /\ part = "providers"
        BY <3>1, <3>2, <3>3
      <4> QED
        BY <1>2, <4>1, EmptySeq DEF Path
    <3> QED
      BY <3>3
  <2> QED
    BY <1>1, <1>3, <2>1
<1> HIDE DEF child, node
<1>7. CASE w.doc[w.at] = "seq" /\ IsNumeric(part)
  <2>1. e = [doc |-> Fill(w.doc, w.at, part), at |-> child]
    BY <1>7 DEF Into, child
  <2>2. NoSequence(Fill(w.doc, w.at, part))
    BY <1>2, <1>3, <1>7, FillNoSequence
  <2>3. w.at # <<>>
    BY <1>2, <1>7
  <2>4. child # <<"providers">>
    BY <1>3, <1>6, <2>3
  <2> QED
    BY <1>1, <1>4, <2>1, <2>2, <2>4 DEF WayFine
<1>8. CASE w.doc[w.at] = "map" /\ child \in DOMAIN w.doc /\ w.doc[child] \in Inner
  <2>1. e = [doc |-> w.doc, at |-> child]
    BY <1>8 DEF Into, child
  <2>2. child = <<"providers">> => w.doc[child] = "map"
    BY <1>3, <1>8, OfProvidersAre DEF NoSequence, Inner
  <2> QED
    BY <1>1, <1>3, <1>4, <1>6, <2>1, <2>2 DEF WayFine
<1>9. CASE w.doc[w.at] = "map" /\ ~(child \in DOMAIN w.doc /\ w.doc[child] \in Inner)
  <2>1. e = [doc |-> Put(w.doc, child, node), at |-> child]
    BY <1>9 DEF Into, child, node
  <2>2. child \in OfProviders => node # "seq"
    BY <1>5
  <2>3. NoSequence(Put(w.doc, child, node))
    BY <1>2, <1>3, <1>4, <2>2, PutNoSequence
  <2>4. Put(w.doc, child, node)[child] = node
    BY <1>2, <1>4, PutIs DEF Typed
  <2>5. child = <<"providers">> => node = "map"
    BY <1>5, OfProvidersAre
  <2> QED
    BY <1>1, <1>4, <1>6, <2>1, <2>3, <2>4, <2>5 DEF WayFine
<1>10. CASE ~(w.doc[w.at] = "seq" /\ IsNumeric(part)) /\ w.doc[w.at] # "map"
  <2>1. e = w
    BY <1>10 DEF Into
  <2>2. w.at # <<"providers">> /\ w.at # <<>>
    BY <1>2, <1>3, <1>10
  <2> QED
    BY <1>1, <1>3, <2>1, <2>2 DEF WayFine
<1> QED
  BY <1>7, <1>8, <1>9, <1>10

LEMMA SetNoSequence ==
  ASSUME NEW d, IsTree(d), NoSequence(d), NEW key \in Path, key # <<>>, MakesNoSequence(key),
         NEW value \in STRING \ Inner
  PROVE  NoSequence(setPath(d, key, value))
<1> DEFINE steps == Len(key) - 1
<1>1. <<>> \in DOMAIN d /\ <<>> # <<"providers">>
  BY TreeIs
<1>2. [doc |-> d, at |-> <<>>] \in Places
  BY <1>1, PlaceIs
<1>3. /\ steps \in Nat /\ Way(d, key)[0] = [doc |-> d, at |-> <<>>]
      /\ \A n \in 0..steps : Way(d, key)[n] \in Places
      /\ \A n \in 1..steps : n - 1 \in 0..steps /\ Way(d, key)[n] = Into(Way(d, key)[n - 1], key[n], key[n + 1])
  BY <1>2, WayIs
<1> DEFINE S == {n \in 0..steps : WayFine(Way(d, key)[n], n, key)}
<1>4. 0 \in S
  <2>1. WayFine([doc |-> d, at |-> <<>>], 0, key)
    BY <1>1 DEF WayFine
  <2>2. 0 \in 0..steps
    BY <1>3
  <2> QED
    BY <1>3, <2>1, <2>2
<1>5. ASSUME NEW n \in 1..steps, n - 1 \in S PROVE n \in S
  <2>1. Way(d, key)[n - 1] \in Places /\ WayFine(Way(d, key)[n - 1], n - 1, key) /\ n \in 1..(Len(key) - 1)
    BY <1>3, <1>5
  <2>2. WayFine(Into(Way(d, key)[n - 1], key[n], key[n + 1]), n, key)
    BY <2>1, IntoFine
  <2>3. n \in 0..steps
    BY <1>3
  <2> QED
    BY <1>3, <2>2, <2>3
<1> HIDE DEF S
<1>6. \A n \in 0..steps : n \in S
  BY <1>3, <1>4, <1>5, UpTo
<1> DEFINE end == Way(d, key)[steps]
           part == key[Len(key)]
           child == Append(end.at, part)
<1>7. steps \in 0..steps /\ Len(key) \in 1..Len(key)
  BY <1>3
<1>8. end \in Places /\ NoSequence(end.doc)
  BY <1>3, <1>6, <1>7 DEF S, WayFine
<1>9. part \in STRING
  BY <1>7 DEF Path
<1> HIDE DEF end, part
<1>10. IsTree(end.doc) /\ Typed(end.doc) /\ end.at \in DOMAIN end.doc /\ end.at \in Path
  BY <1>8, PlacesAre
<1>11. child \in Path
  BY <1>9, <1>10, AppendIs
<1> HIDE DEF child
<1>12. value # "seq"
  BY DEF Inner
<1>13. CASE end.doc[end.at] = "seq" /\ IsNumeric(part)
  <2>1. setPath(d, key, value) = Put(Fill(end.doc, end.at, part), child, value)
    BY <1>13 DEF setPath, end, part, child
  <2>2. NoSequence(Fill(end.doc, end.at, part)) /\ IsTree(Fill(end.doc, end.at, part))
    BY <1>8, <1>10, <1>13, FillNoSequence, FillIs
  <2>3. Typed(Fill(end.doc, end.at, part))
    BY <2>2, TreeIs
  <2> QED
    BY <1>11, <1>12, <2>1, <2>2, <2>3, PutNoSequence
<1>14. CASE end.doc[end.at] = "map"
  <2>1. setPath(d, key, value) = Put(end.doc, child, value)
    BY <1>14 DEF setPath, end, part, child
  <2> QED
    BY <1>8, <1>10, <1>11, <1>12, <2>1, PutNoSequence
<1>15. CASE ~(end.doc[end.at] = "seq" /\ IsNumeric(part)) /\ end.doc[end.at] # "map"
  <2>1. setPath(d, key, value) = end.doc
    BY <1>15 DEF setPath, end, part
  <2> QED
    BY <1>8, <2>1
<1> QED
  BY <1>13, <1>14, <1>15

-----------------------------------------------------------------------------
(* What the setup page asks for.                                           *)

Fields == {"base_url", "protocol", "api_key"}

LEMMA FieldsAre ==
  ASSUME NEW p \in Presets, NEW f \in Fields
  PROVE  /\ Field(p, f) \in Path /\ Field(p, f) # <<>> /\ Len(Field(p, f)) = 3
         /\ Field(p, f)[1] = "providers" /\ Field(p, f)[2] = p /\ Field(p, f)[3] = f
         /\ p \in STRING /\ f \in STRING /\ ~IsNumeric(f)
         /\ Field(p, f) = Append(<<"providers", p>>, f)
         /\ <<"providers", p>> = Append(<<"providers">>, p)
         /\ <<"providers">> \in Path /\ <<"providers", p>> \in Path
<1>1. p \in STRING /\ f \in {"base_url", "protocol", "api_key"}
  BY ConfigAssumption DEF Fields
<1>2. Field(p, f) \in Path /\ <<"providers">> \in Path /\ <<"providers", p>> \in Path
  BY <1>1, KeysArePaths
<1>3. f \in STRING /\ ~IsNumeric(f)
  BY <1>1, LiteralsAre, NoNumerals
<1>4. \A a, b, c : /\ <<a, b, c>> # <<>> /\ Len(<<a, b, c>>) = 3
                   /\ <<a, b, c>>[1] = a /\ <<a, b, c>>[2] = b /\ <<a, b, c>>[3] = c
                   /\ <<a, b, c>> = Append(<<a, b>>, c) /\ <<a, b>> = Append(<<a>>, b)
  OBVIOUS
<1> QED
  BY <1>1, <1>2, <1>3, <1>4 DEF Field

\* Paths that a write of a field leaves alone.
LEMMA FieldPaths ==
  ASSUME NEW p \in Presets, NEW f \in Fields
  PROVE  /\ ~IsPrefix(<<"providers", p>>, <<"providers">>)
         /\ ~IsPrefix(Field(p, f), <<"providers">>) /\ ~IsPrefix(Field(p, f), <<"providers", p>>)
         /\ \A g \in Fields : g # f => ~IsPrefix(Field(p, f), Field(p, g))
<1> DEFINE a == <<"providers">>
           b == <<"providers", p>>
           c == Field(p, f)
<1>1. a \in Path /\ b \in Path /\ c \in Path /\ Len(a) = 1 /\ Len(b) = 2 /\ Len(c) = 3 /\ c[3] = f
  BY FieldsAre
<1> HIDE DEF a, b, c
<1>2. ~IsPrefix(b, a) /\ ~IsPrefix(c, a) /\ ~IsPrefix(c, b)
  <2>1. \A u, v \in Path : IsPrefix(u, v) => Len(u) <= Len(v)
    BY PrefixIs
  <2>2. ~(2 <= 1) /\ ~(3 <= 1) /\ ~(3 <= 2)
    OBVIOUS
  <2> QED
    BY <1>1, <2>1, <2>2
<1>3. ASSUME NEW g \in Fields, g # f PROVE ~IsPrefix(c, Field(p, g))
  <2>1. Field(p, g) \in Path /\ Field(p, g)[3] = g
    BY FieldsAre
  <2>2. 3 \in 1..Len(c)
    BY <1>1
  <2> QED
    BY <1>1, <1>3, <2>1, <2>2, PrefixIs
<1> QED
  BY <1>2, <1>3 DEF a, b, c

\* From a map the way goes on to a map.
LEMMA IntoMap ==
  ASSUME NEW w \in Places, w.doc[w.at] = "map", NoSequence(w.doc), NEW part \in STRING, NEW next, ~IsNumeric(next),
         Append(w.at, part) \in OfProviders
  PROVE  LET e == Into(w, part, next)  child == Append(w.at, part) IN
         /\ e \in Places /\ e.at = child /\ child \in DOMAIN e.doc /\ e.doc[child] = "map" /\ NoSequence(e.doc)
         /\ child \in DOMAIN w.doc /\ w.doc[child] = "map" => e.doc = w.doc
         /\ \A q \in DOMAIN w.doc : ~IsPrefix(child, q) => q \in DOMAIN e.doc /\ e.doc[q] = w.doc[q]
<1> DEFINE e == Into(w, part, next)
           child == Append(w.at, part)
<1>1. Typed(w.doc) /\ w.at \in Path
  BY PlacesAre
<1>2. child \in Path
  BY <1>1, AppendIs
<1>3. e \in Places
  BY IntoPlaces
<1>4. e.at \in DOMAIN e.doc
  BY <1>3 DEF Places
<1> HIDE DEF child
<1>5. CASE child \in DOMAIN w.doc /\ w.doc[child] \in Inner
  <2>1. e = [doc |-> w.doc, at |-> child]
    BY <1>5 DEF Into, child
  <2>2. w.doc[child] # "seq"
    BY <1>5 DEF NoSequence, child
  <2> QED
    BY <1>3, <1>5, <2>1, <2>2 DEF child, Inner
<1>6. CASE ~(child \in DOMAIN w.doc /\ w.doc[child] \in Inner)
  <2>1. e = [doc |-> Put(w.doc, child, "map"), at |-> child]
    BY <1>6 DEF Into, child
  <2>2. NoSequence(Put(w.doc, child, "map"))
    BY <1>1, <1>2, PutNoSequence
  <2>3. /\ child \in DOMAIN Put(w.doc, child, "map") /\ Put(w.doc, child, "map")[child] = "map"
        /\ \A q \in DOMAIN w.doc : ~IsPrefix(child, q) =>
             q \in DOMAIN Put(w.doc, child, "map") /\ Put(w.doc, child, "map")[q] = w.doc[q]
    BY <1>1, <1>2, PutIs DEF Typed
  <2>4. ~(child \in DOMAIN w.doc /\ w.doc[child] = "map")
    BY <1>6 DEF Inner
  <2>5. e.doc = Put(w.doc, child, "map") /\ e.at = child
    BY <2>1
  <2> QED
    BY <1>3, <2>2, <2>3, <2>4, <2>5 DEF child
<1> QED
  BY <1>5, <1>6

\* The provider that is set up, with its key.
Maps(d, p) ==
  /\ <<"providers">> \in DOMAIN d /\ d[<<"providers">>] = "map"
  /\ <<"providers", p>> \in DOMAIN d /\ d[<<"providers", p>>] = "map"
Keyed(d, p) == Maps(d, p) /\ Field(p, "api_key") \in DOMAIN d /\ d[Field(p, "api_key")] = "x"
Current(d, p) == <<"llm_provider">> \in DOMAIN d /\ d[<<"llm_provider">>] = p

LEMMA SetField ==
  ASSUME NEW d, IsTree(d), NoSequence(d), NEW p \in Presets, ~IsNumeric(p), NEW f \in Fields, NEW value
  PROVE  LET e == setPath(d, Field(p, f), value) IN
         /\ Maps(e, p) /\ Field(p, f) \in DOMAIN e /\ e[Field(p, f)] = value
         /\ \A g \in Fields : g # f /\ Maps(d, p) /\ Field(p, g) \in DOMAIN d =>
              Field(p, g) \in DOMAIN e /\ e[Field(p, g)] = d[Field(p, g)]
<1> DEFINE key == Field(p, f)
           a == <<"providers">>
           b == <<"providers", p>>
           w0 == [doc |-> d, at |-> <<>>]
           w1 == Into(w0, "providers", p)
           w2 == Into(w1, p, f)
           e == setPath(d, key, value)
<1>1. /\ key \in Path /\ key # <<>> /\ Len(key) = 3 /\ key[1] = "providers" /\ key[2] = p /\ key[3] = f
      /\ p \in STRING /\ f \in STRING /\ ~IsNumeric(f) /\ key = Append(b, f) /\ b = Append(a, p)
      /\ a \in Path /\ b \in Path
  BY FieldsAre
<1>2. /\ ~IsPrefix(b, a) /\ ~IsPrefix(key, a) /\ ~IsPrefix(key, b)
      /\ \A g \in Fields : g # f => ~IsPrefix(key, Field(p, g))
  BY FieldPaths
<1>3. a = Append(<<>>, "providers") /\ "providers" \in STRING /\ a \in OfProviders /\ b \in OfProviders
  <2>1. \A x : <<x>> = Append(<<>>, x)
    OBVIOUS
  <2> QED
    BY <2>1, LiteralsAre, OfProvidersAre
<1>4. <<>> \in DOMAIN d /\ d[<<>>] = "map"
  BY TreeIs
<1>5. w0 \in Places /\ w0.doc = d /\ w0.at = <<>>
  BY <1>4, PlaceIs
<1>6. /\ Way(d, key)[0] = w0
      /\ \A n \in 1..Len(key) - 1 : Way(d, key)[n] = Into(Way(d, key)[n - 1], key[n], key[n + 1])
  BY <1>1, <1>5, WayIs
<1> HIDE DEF w0, a, b, key
<1>7. /\ w1 \in Places /\ w1.at = a /\ a \in DOMAIN w1.doc /\ w1.doc[a] = "map" /\ NoSequence(w1.doc)
      /\ a \in DOMAIN d /\ d[a] = "map" => w1.doc = d
  <2>1. Append(w0.at, "providers") = a /\ w0.doc[w0.at] = "map" /\ NoSequence(w0.doc)
    BY <1>3, <1>4, <1>5
  <2>2. /\ w1 \in Places /\ w1.at = Append(w0.at, "providers") /\ w1.at \in DOMAIN w1.doc
        /\ w1.doc[w1.at] = "map" /\ NoSequence(w1.doc)
        /\ w1.at \in DOMAIN w0.doc /\ w0.doc[w1.at] = "map" => w1.doc = w0.doc
    <3> DEFINE root == "providers"
    <3>1. /\ root \in STRING /\ Append(w0.at, root) \in OfProviders /\ w0 \in Places
          /\ w0.doc[w0.at] = "map" /\ NoSequence(w0.doc)
      BY <1>3, <1>5, <2>1
    <3> HIDE DEF root
    <3>2. /\ Into(w0, root, p) \in Places /\ Into(w0, root, p).at = Append(w0.at, root)
          /\ Append(w0.at, root) \in DOMAIN Into(w0, root, p).doc /\ Into(w0, root, p).doc[Append(w0.at, root)] = "map"
          /\ NoSequence(Into(w0, root, p).doc)
          /\ Append(w0.at, root) \in DOMAIN w0.doc /\ w0.doc[Append(w0.at, root)] = "map" =>
               Into(w0, root, p).doc = w0.doc
      BY <3>1, IntoMap
    <3>3. w1 = Into(w0, root, p)
      BY DEF root
    <3> HIDE DEF w1
    <3> QED
      BY <3>2, <3>3 DEF root
  <2> HIDE DEF w1
  <2> QED
    BY <1>5, <2>1, <2>2
<1> HIDE DEF w1
<1>8. /\ w2 \in Places /\ w2.at = b /\ b \in DOMAIN w2.doc /\ w2.doc[b] = "map"
      /\ b \in DOMAIN w1.doc /\ w1.doc[b] = "map" => w2.doc = w1.doc
      /\ \A q \in DOMAIN w1.doc : ~IsPrefix(b, q) => q \in DOMAIN w2.doc /\ w2.doc[q] = w1.doc[q]
  BY <1>1, <1>3, <1>7, IntoMap
<1> HIDE DEF w2
<1>9. Way(d, key)[2] = w2
  <2>1. 1 \in 1..Len(key) - 1 /\ 2 \in 1..Len(key) - 1
    BY <1>1
  <2>2. Way(d, key)[1] = w1
    BY <1>1, <1>6, <2>1 DEF w1
  <2> QED
    BY <1>1, <1>6, <2>1, <2>2 DEF w2
<1>10. e = Put(w2.doc, key, value)
  <2>1. Len(key) - 1 = 2
    BY <1>1
  <2> QED
    BY <1>1, <1>8, <1>9, <2>1 DEF setPath
<1>11. /\ key \in DOMAIN e /\ e[key] = value
       /\ \A q \in DOMAIN w2.doc : ~IsPrefix(key, q) => q \in DOMAIN e /\ e[q] = w2.doc[q]
  BY <1>1, <1>8, <1>10, PutIs, PlacesAre DEF Typed
<1> HIDE DEF e
<1>12. a \in DOMAIN e /\ e[a] = "map" /\ b \in DOMAIN e /\ e[b] = "map"
  BY <1>2, <1>7, <1>8, <1>11
<1>13. ASSUME NEW g \in Fields, g # f, Maps(d, p), Field(p, g) \in DOMAIN d
       PROVE  Field(p, g) \in DOMAIN e /\ e[Field(p, g)] = d[Field(p, g)]
  <2>1. w2.doc = d
    BY <1>7, <1>8, <1>13 DEF Maps, a, b
  <2> QED
    BY <1>2, <1>11, <1>13, <2>1
<1>14. Maps(e, p)
  BY <1>12 DEF Maps, a, b
<1> QED
  BY <1>11, <1>13, <1>14 DEF e, key

\* A key of one part.
LEMMA SetFlat ==
  ASSUME NEW d, IsTree(d), NEW part \in STRING, NEW value
  PROVE  LET e == setPath(d, <<part>>, value) IN
         /\ <<part>> \in DOMAIN e /\ e[<<part>>] = value
         /\ \A q \in DOMAIN d : (q # <<>> => q[1] # part) => q \in DOMAIN e /\ e[q] = d[q]
<1> DEFINE key == <<part>>
           e == setPath(d, key, value)
<1>1. key \in Path /\ Len(key) = 1 /\ key[1] = part /\ key # <<>> /\ Append(<<>>, part) = key
  <2>1. key \in Path
    BY TuplesAre DEF Path
  <2> QED
    BY <2>1
<1>2. <<>> \in DOMAIN d /\ d[<<>>] = "map" /\ Typed(d)
  BY TreeIs
<1>3. [doc |-> d, at |-> <<>>] \in Places
  BY <1>2, PlaceIs
<1> HIDE DEF key
<1>9. Way(d, key)[0] = [doc |-> d, at |-> <<>>]
  BY <1>1, <1>3, WayIs
<1>4. Way(d, key)[0].doc = d /\ Way(d, key)[0].at = <<>>
  BY <1>9
<1>5. e = Put(d, key, value)
  <2>1. Len(key) - 1 = 0
    BY <1>1
  <2> QED
    BY <1>1, <1>2, <1>4, <2>1 DEF setPath
<1>6. /\ key \in DOMAIN e /\ e[key] = value
      /\ \A q \in DOMAIN d : ~IsPrefix(key, q) => q \in DOMAIN e /\ e[q] = d[q]
  BY <1>1, <1>2, <1>5, PutIs DEF Typed
<1> HIDE DEF e
<1>7. ASSUME NEW q \in DOMAIN d, q # <<>> => q[1] # part PROVE ~IsPrefix(key, q)
  <2>1. q \in Path
    BY <1>2 DEF Typed
  <2>2. 1 \in 1..Len(key)
    BY <1>1
  <2>3. ASSUME IsPrefix(key, q) PROVE FALSE
    <3>1. Len(key) <= Len(q) /\ key[1] = q[1]
      BY <1>1, <2>1, <2>2, <2>3, PrefixIs
    <3>2. q # <<>>
      BY <1>1, <3>1
    <3> QED
      BY <1>1, <1>7, <3>1, <3>2
  <2> QED
    BY <2>3
<1>8. \A q \in DOMAIN d : (q # <<>> => q[1] # part) => q \in DOMAIN e /\ e[q] = d[q]
  BY <1>6, <1>7
<1> QED
  BY <1>6, <1>8 DEF key, e

LEMMA ReadyIs ==
  ASSUME NEW d, NEW p \in Presets, Keyed(d, p), Current(d, p)
  PROVE  PageOf(d) = "chat"
<1> DEFINE cfg == loadConfig(d)
           of == [q \in normalizeProviders(d) |->
                    [field \in {"base_url", "api_key"} |-> asString(d, <<"providers", q, field>>)]]
<1>1. p \in Providers /\ p \notin Inner
  BY ConfigAssumption DEF Inner
<1>2. asString(d, <<"llm_provider">>) = p
  BY <1>1 DEF Current, asString
<1>3. p \in normalizeProviders(d)
  BY <1>1 DEF normalizeProviders, Keyed, Maps, Inner
<1>4. asString(d, <<"providers", p, "api_key">>) = "x"
  <2>1. "x" \notin Inner
    BY DEF Inner
  <2> QED
    BY <2>1 DEF asString, Keyed, Field
<1>5. of[p]["api_key"] = "x" /\ p \in DOMAIN of
  BY <1>3, <1>4
<1>6. cfg.llm_provider = p /\ cfg.providers = of
  BY <1>2 DEF loadConfig
<1> HIDE DEF of, cfg
<1>7. isConfigReady(cfg)
  BY <1>5, <1>6 DEF isConfigReady
<1> QED
  BY <1>7 DEF PageOf, cfg

\* A request whose key makes no sequence of the providers.
FineRequests == {w \in Requests : MakesNoSequence(w.key) /\ (w.op = "set" => w.value \notin Inner)}

IsFine(todo) == todo \in Seq(FineRequests)

LEMMA ApplyNoSequence ==
  ASSUME IsTree(doc), NoSequence(doc), NEW who, NEW w \in FineRequests, w.key # <<>>,
         w.op = "delete" => CanDelete(doc, w.key), Apply(who, w)
  PROVE  NoSequence(doc')
<1>1. w \in Requests /\ w.key \in Path /\ w.op \in {"set", "delete"} /\ MakesNoSequence(w.key)
  BY DEF FineRequests, Requests
<1>2. CASE w.op = "set"
  <2>1. w.value \in STRING \ Inner
    BY <1>2 DEF FineRequests, Requests
  <2>2. doc' = setPath(doc, w.key, w.value)
    BY <1>2 DEF Apply, Write
  <2>3. NoSequence(setPath(doc, w.key, w.value))
    BY <1>1, <2>1, SetNoSequence
  <2> QED
    BY <2>2, <2>3
<1>3. CASE w.op = "delete"
  <2>1. doc' = deletePath(doc, w.key)
    BY <1>3 DEF Apply, Write
  <2>2. /\ \A q \in DOMAIN deletePath(doc, w.key) : q \in DOMAIN doc /\ deletePath(doc, w.key)[q] = doc[q]
    BY <1>1, <1>3, DeleteIs
  <2>3. NoSequence(deletePath(doc, w.key))
    BY <2>2 DEF NoSequence
  <2> QED
    BY <2>1, <2>3
<1> QED
  BY <1>1, <1>2, <1>3

LEMMA AcceptedNoSequence ==
  ASSUME IsTree(doc), NoSequence(doc), NEW who, NEW w \in FineRequests, Accepted(w), Apply(who, w)
  PROVE  NoSequence(doc')
<1>1. w.op \in {"set", "delete"}
  BY DEF FineRequests, Requests
<1>2. w.key # <<>> /\ (w.op = "delete" => CanDelete(doc, w.key))
  BY <1>1 DEF Accepted
<1> QED
  BY <1>2, ApplyNoSequence

LEMMA FineIs ==
  ASSUME NEW todo, IsFine(todo)
  PROVE  IsFine(<<>>) /\ (todo # <<>> => Head(todo) \in FineRequests /\ IsFine(Tail(todo)))
BY HeadTailProperties, EmptySeq DEF IsFine

\* The keys of the user interface.
LEMMA FineKeys ==
  ASSUME NoSequenceOfProviders
  PROVE  /\ \A part \in STRING : MakesNoSequence(<<part>>)
         /\ \A p \in Providers : MakesNoSequence(<<"providers", p>>)
         /\ \A p \in Providers : \A f \in Fields : MakesNoSequence(Field(p, f))
         /\ MakesNoSequence(<<>>)
<1>1. \A p \in Providers : ~IsNumeric(p)
  BY DEF NoSequenceOfProviders
<1>2. \A f \in Fields : ~IsNumeric(f)
  BY NoNumerals DEF Fields
<1>3. \A a, b, c : /\ Len(<<a>>) = 1 /\ Len(<<a, b>>) = 2 /\ <<a, b>>[2] = b
                   /\ <<a, b, c>>[2] = b /\ <<a, b, c>>[3] = c /\ Len(<<a, b, c>>) = 3
  OBVIOUS
<1>4. \A part \in STRING : MakesNoSequence(<<part>>)
  BY <1>3 DEF MakesNoSequence
<1>5. \A p \in Providers : MakesNoSequence(<<"providers", p>>)
  BY <1>1, <1>3 DEF MakesNoSequence
<1>6. \A p \in Providers : \A f \in Fields : MakesNoSequence(Field(p, f))
  BY <1>1, <1>2, <1>3 DEF MakesNoSequence, Field
<1>7. MakesNoSequence(<<>>)
  BY DEF MakesNoSequence
<1> QED
  BY <1>4, <1>5, <1>6, <1>7

LEMMA FineSet ==
  /\ \A key \in Path, value \in STRING \ Inner : MakesNoSequence(key) => Set(key, value) \in FineRequests
  /\ \A key \in Path : MakesNoSequence(key) => Delete(key) \in FineRequests
<1>1. ASSUME NEW key \in Path, NEW value \in STRING \ Inner, MakesNoSequence(key)
      PROVE  Set(key, value) \in FineRequests
  <2>1. Set(key, value) \in Requests
    BY RequestIs
  <2>2. Set(key, value).key = key /\ Set(key, value).value = value
    BY DEF Set
  <2> QED
    BY <1>1, <2>1, <2>2 DEF FineRequests
<1>2. ASSUME NEW key \in Path, MakesNoSequence(key) PROVE Delete(key) \in FineRequests
  <2>1. Delete(key) \in Requests
    BY RequestIs
  <2>2. Delete(key).key = key /\ Delete(key).op = "delete"
    BY DEF Delete
  <2> QED
    BY <1>2, <2>1, <2>2 DEF FineRequests
<1> QED
  BY <1>1, <1>2

LEMMA ActFine ==
  ASSUME NoSequenceOfProviders, DOMAIN panel.shown.providers \subseteq Providers,
         NEW todo \in handleSet \cup handleAddProvider \cup handleDeleteProvider \cup Reset
  PROVE  IsFine(todo)
<1>1. Providers \subseteq STRING \ Inner /\ "" \in STRING \ Inner /\ "x" \in STRING \ Inner
  BY ConfigAssumption, LiteralsAre DEF Inner
<1>2. \A w \in FineRequests : IsFine(<<w>>)
  BY DEF IsFine
<1>3. \A p \in Providers : /\ p \in STRING /\ <<"providers", p>> \in Path /\ Field(p, "base_url") \in Path
                           /\ Field(p, "protocol") \in Path /\ Field(p, "api_key") \in Path
  BY <1>1, KeysArePaths
<1>4. /\ \A p \in Providers : /\ MakesNoSequence(<<"providers", p>>) /\ MakesNoSequence(Field(p, "base_url"))
                              /\ MakesNoSequence(Field(p, "protocol")) /\ MakesNoSequence(Field(p, "api_key"))
      /\ MakesNoSequence(<<"name">>) /\ MakesNoSequence(<<"llm_provider">>) /\ MakesNoSequence(<<>>)
  BY FineKeys, LiteralsAre DEF Fields
<1>5. CASE todo \in handleSet
  <2>1. CASE todo \in {<<Set(<<"name">>, v)>> : v \in {"", "x"} \ {panel.shown.name}}
    <3>1. PICK v \in {"", "x"} : todo = <<Set(<<"name">>, v)>>
      BY <2>1
    <3>2. v \in STRING \ Inner
      BY <1>1
    <3> QED
      BY <1>2, <1>4, <3>1, <3>2, KeysArePaths, FineSet
  <2>2. CASE todo \in {<<Set(<<"llm_provider">>, p)>> : p \in DOMAIN panel.shown.providers \cup {""}}
    <3>1. PICK p \in DOMAIN panel.shown.providers \cup {""} : todo = <<Set(<<"llm_provider">>, p)>>
      BY <2>2
    <3>2. p \in STRING \ Inner
      BY <1>1
    <3> QED
      BY <1>2, <1>4, <3>1, <3>2, KeysArePaths, FineSet
  <2>3. CASE todo \in {<<Set(Field(p, "api_key"), "x")>> : p \in DOMAIN panel.shown.providers}
    <3>1. PICK p \in Providers : todo = <<Set(Field(p, "api_key"), "x")>>
      BY <2>3
    <3> QED
      BY <1>1, <1>2, <1>3, <1>4, <3>1, FineSet
  <2> QED
    BY <1>5, <2>1, <2>2, <2>3 DEF handleSet
<1>6. CASE todo \in handleAddProvider
  <2>1. PICK p \in Providers : todo = <<Set(Field(p, "base_url"), "x"), Set(Field(p, "protocol"), "x"), Set(Field(p, "api_key"), "")>>
    BY <1>6 DEF handleAddProvider
  <2>2. Set(Field(p, "base_url"), "x") \in FineRequests /\ Set(Field(p, "protocol"), "x") \in FineRequests
    BY <1>1, <1>3, <1>4, FineSet
  <2>4. Set(Field(p, "api_key"), "") \in FineRequests
    BY <1>1, <1>3, <1>4, FineSet
  <2>3. \A a, b, c \in FineRequests : <<a, b, c>> \in Seq(FineRequests)
    BY TuplesAre
  <2> QED
    BY <2>1, <2>2, <2>3, <2>4 DEF IsFine
<1>7. CASE todo \in handleDeleteProvider
  <2>1. PICK p \in Providers :
          todo = <<Delete(<<"providers", p>>)>> \o
                   (IF panel.shown.llm_provider = p THEN <<Set(<<"llm_provider">>, "")>> ELSE <<>>)
    BY <1>7 DEF handleDeleteProvider
  <2>2. IsFine(<<Delete(<<"providers", p>>)>>)
    BY <1>2, <1>3, <1>4, FineSet
  <2>3. IsFine(<<Set(<<"llm_provider">>, "")>>)
    BY <1>1, <1>2, <1>4, KeysArePaths, FineSet
  <2>4. IsFine(<<>>)
    BY DEF IsFine
  <2>5. IsFine(IF panel.shown.llm_provider = p THEN <<Set(<<"llm_provider">>, "")>> ELSE <<>>)
    BY <2>3, <2>4
  <2>6. \A s, t \in Seq(FineRequests) : s \o t \in Seq(FineRequests)
    BY ConcatProperties
  <2> QED
    BY <2>1, <2>2, <2>5, <2>6 DEF IsFine
<1>8. CASE todo \in Reset
  <2>1. todo = <<Delete(<<>>)>> /\ <<>> \in Path
    BY <1>8 DEF Reset, Path
  <2> QED
    BY <1>2, <1>4, <2>1, FineSet
<1> QED
  BY <1>5, <1>6, <1>7, <1>8

\* What one submit asks for.
Asks(p, list) ==
  /\ list \in Seq(Requests) /\ Len(list) \in {5, 6}
  /\ list[1] = Set(Field(p, "base_url"), IF p \in Presets THEN "x" ELSE "")
  /\ list[2] = Set(Field(p, "api_key"), "x") /\ list[3] = Set(Field(p, "protocol"), "x")
  /\ list[4] = Set(<<"llm_provider">>, p) /\ list[5] = Set(<<"llm_model">>, "x")
  /\ Len(list) = 6 => list[6] = Set(<<"name">>, "x")

LEMMA AsksAre ==
  ASSUME NEW p \in STRING, NEW renamed \in BOOLEAN
  PROVE  Asks(p, SetupWrites(p) \o (IF renamed THEN <<Set(<<"name">>, "x")>> ELSE <<>>))
<1> DEFINE s == SetupWrites(p)
           list == s \o (IF renamed THEN <<Set(<<"name">>, "x")>> ELSE <<>>)
<1>1. list \in Seq(Requests)
  BY SetupTodo DEF IsTodo
<1>2. /\ s[1] = Set(Field(p, "base_url"), IF p \in Presets THEN "x" ELSE "")
      /\ s[2] = Set(Field(p, "api_key"), "x") /\ s[3] = Set(Field(p, "protocol"), "x")
      /\ s[4] = Set(<<"llm_provider">>, p) /\ s[5] = Set(<<"llm_model">>, "x")
  BY DEF SetupWrites
<1>3. s \in Seq(Requests) /\ Len(s) = 5
  <2>1. s \o <<>> = s
    BY DEF SetupWrites
  <2>2. IsTodo(SetupWrites(p) \o <<>>)
    BY SetupTodo
  <2>3. Len(s) = 5
    BY DEF SetupWrites
  <2> QED
    BY <2>1, <2>2, <2>3 DEF IsTodo
<1> HIDE DEF s
<1>4. \A r \in Seq(Requests), n \in 1..5 : (s \o r)[n] = s[n]
  <2>1. \A n \in 1..5 : n \in 1..Len(s)
    BY <1>3
  <2>2. \A r \in Seq(Requests) : \A n \in 1..Len(s) + Len(r) : n <= Len(s) => (s \o r)[n] = s[n]
    BY <1>3, ConcatProperties
  <2>3. \A r \in Seq(Requests) : Len(r) \in Nat
    OBVIOUS
  <2>4. ASSUME NEW r \in Seq(Requests), NEW n \in 1..5 PROVE n \in 1..Len(s) + Len(r) /\ n <= Len(s)
    BY <1>3, <2>3
  <2> QED
    BY <2>2, <2>4
<1>5. CASE renamed
  <2> DEFINE w == Set(<<"name">>, "x")
  <2>1. w \in Requests
    BY KeysArePaths, LiteralsAre, RequestIs
  <2> HIDE DEF w
  <2>2. list = s \o <<w>> /\ <<w>> \in Seq(Requests) /\ Len(<<w>>) = 1
    BY <1>5, <2>1 DEF w
  <2> HIDE DEF list
  <2>3. Len(list) = 6 /\ list[6] = w
    <3> DEFINE r == <<w>>
    <3>1. r \in Seq(Requests) /\ Len(r) = 1 /\ r[1] = w /\ list = s \o r
      BY <2>2
    <3> HIDE DEF r
    <3>5. Len(s \o r) = Len(s) + Len(r)
      BY <1>3, <3>1, ConcatProperties
    <3>2. Len(list) = 6 /\ list = s \o r
      BY <1>3, <3>1, <3>5
    <3>3. \A n \in 1..Len(s) + Len(r) : (s \o r)[n] = IF n <= Len(s) THEN s[n] ELSE r[n - Len(s)]
      BY <1>3, <3>1, ConcatProperties
    <3>4. 6 \in 1..Len(s) + Len(r) /\ ~(6 <= Len(s)) /\ 6 - Len(s) = 1
      BY <1>3, <3>1
    <3> QED
      BY <3>1, <3>2, <3>3, <3>4
  <2>6. \A n \in 1..5 : list[n] = s[n]
    BY <1>4, <2>2
  <2>7. 1 \in 1..5 /\ 2 \in 1..5 /\ 3 \in 1..5 /\ 4 \in 1..5 /\ 5 \in 1..5
    OBVIOUS
  <2>4. list[1] = s[1] /\ list[2] = s[2] /\ list[3] = s[3] /\ list[4] = s[4] /\ list[5] = s[5]
    BY <2>6, <2>7, Zenon
  <2>5. Asks(p, list)
    BY <1>1, <1>2, <2>3, <2>4 DEF Asks, w
  <2> QED
    BY <2>5 DEF list, s
<1>6. CASE ~renamed
  <2>1. list = s
    BY <1>3, <1>6
  <2> HIDE DEF list
  <2>4. 5 \in {5, 6} /\ 5 # 6
    OBVIOUS
  <2>3. Len(list) \in {5, 6} /\ Len(list) # 6 /\ list \in Seq(Requests)
    BY <1>3, <2>1, <2>4, Zenon
  <2>2. Asks(p, list)
    BY <1>2, <2>1, <2>3, Zenon DEF Asks
  <2> QED
    BY <2>2 DEF list, s
<1> QED
  BY <1>5, <1>6

LEMMA SixAre ==
  ASSUME NEW l, l = 5 \/ l = 6, NEW m \in 1..l
  PROVE  m \in Nat /\ m \in {1, 2, 3, 4, 5, 6} /\ (m = 6 => l = 6)
OBVIOUS

\* What the m-th write of a submit makes of the file.
LEMMA AskedStep ==
  ASSUME NoSequenceOfProviders, IsTree(doc), NoSequence(doc), NEW p \in Presets, NEW list, Asks(p, list),
         NEW m \in 1..Len(list), Apply("setup", list[m])
  PROVE  /\ (m >= 3 => Keyed(doc, p)) => (m >= 2 => Keyed(doc', p))
         /\ (m >= 5 => Current(doc, p)) => (m >= 4 => Current(doc', p))
<1>1. p \in Providers /\ ~IsNumeric(p)
  BY ConfigAssumption DEF NoSequenceOfProviders
<1>2. \A key, value : list[m] = Set(key, value) => doc' = setPath(doc, key, value)
  BY DEF Apply, Write, Set
<1>3. m \in Nat /\ m \in {1, 2, 3, 4, 5, 6} /\ (m = 6 => Len(list) = 6)
  BY DEF Asks
<1>4. "api_key" \in Fields /\ "protocol" \in Fields /\ "api_key" # "protocol"
  BY DEF Fields
<1>5. CASE m = 1
  BY <1>5
<1>6. CASE m = 2
  <2>1. doc' = setPath(doc, Field(p, "api_key"), "x")
    BY <1>2, <1>6 DEF Asks
  <2> DEFINE e == setPath(doc, Field(p, "api_key"), "x")
  <2>2. Maps(e, p) /\ Field(p, "api_key") \in DOMAIN e /\ e[Field(p, "api_key")] = "x"
    BY <1>1, <1>4, SetField
  <2> HIDE DEF e
  <2>3. doc' = e
    BY <2>1 DEF e
  <2> QED
    BY <1>6, <2>2, <2>3 DEF Keyed
<1>7. CASE m = 3
  <2>1. doc' = setPath(doc, Field(p, "protocol"), "x")
    BY <1>2, <1>7 DEF Asks
  <2> DEFINE e == setPath(doc, Field(p, "protocol"), "x")
  <2>2. /\ Maps(e, p)
        /\ \A g \in Fields : g # "protocol" /\ Maps(doc, p) /\ Field(p, g) \in DOMAIN doc =>
             Field(p, g) \in DOMAIN e /\ e[Field(p, g)] = doc[Field(p, g)]
    BY <1>1, <1>4, SetField
  <2> HIDE DEF e
  <2>3. doc' = e
    BY <2>1 DEF e
  <2> QED
    BY <1>4, <1>7, <2>2, <2>3 DEF Keyed
\* The other keys are of one part, and not of the providers.
<1>8. ASSUME NEW part \in {"llm_provider", "llm_model", "name"}, NEW value, list[m] = Set(<<part>>, value)
      PROVE  /\ <<part>> \in DOMAIN doc' /\ doc'[<<part>>] = value
             /\ Keyed(doc, p) => Keyed(doc', p)
             /\ part # "llm_provider" /\ Current(doc, p) => Current(doc', p)
  <2> DEFINE e == setPath(doc, <<part>>, value)
  <2>1. doc' = e
    BY <1>2, <1>8
  <2>2. part \in STRING /\ part # "providers"
    BY <1>8, LiteralsAre
  <2>3. /\ <<part>> \in DOMAIN e /\ e[<<part>>] = value
        /\ \A q \in DOMAIN doc : (q # <<>> => q[1] # part) => q \in DOMAIN e /\ e[q] = doc[q]
    BY <2>2, SetFlat
  <2> HIDE DEF e
  <2>4. \A a, b, c : <<a>>[1] = a /\ <<a, b>>[1] = a /\ <<a, b, c>>[1] = a
    OBVIOUS
  <2>5. <<"providers">>[1] # part /\ <<"providers", p>>[1] # part /\ Field(p, "api_key")[1] # part
    BY <2>2, <2>4 DEF Field
  <2>6. part # "llm_provider" => <<"llm_provider">>[1] # part
    BY <2>4
  <2>7. Keyed(doc, p) => Keyed(doc', p)
    BY <2>1, <2>3, <2>5 DEF Keyed, Maps
  <2>8. part # "llm_provider" /\ Current(doc, p) => Current(doc', p)
    BY <2>1, <2>3, <2>6 DEF Current
  <2> QED
    BY <2>1, <2>3, <2>7, <2>8
<1>9. CASE m = 4
  <2>1. list[m] = Set(<<"llm_provider">>, p)
    BY <1>9 DEF Asks
  <2> QED
    BY <1>8, <1>9, <2>1 DEF Current
<1>10. CASE m = 5
  <2>1. list[m] = Set(<<"llm_model">>, "x")
    BY <1>10 DEF Asks
  <2> QED
    BY <1>8, <1>10, <2>1
<1>11. CASE m = 6
  <2>1. list[m] = Set(<<"name">>, "x")
    BY <1>3, <1>11 DEF Asks
  <2> QED
    BY <1>8, <1>11, <2>1
<1> QED
  BY <1>3, <1>5, <1>6, <1>7, <1>9, <1>10, <1>11

\* The requests of a submit for a preset.
LEMMA AsksFine ==
  ASSUME NoSequenceOfProviders, NEW p \in Presets, NEW list, Asks(p, list), NEW m \in 1..Len(list)
  PROVE  list[m] \in FineRequests
<1>1. p \in Providers /\ p \in STRING \ Inner /\ "x" \in STRING \ Inner
  BY ConfigAssumption, LiteralsAre DEF Inner
<1>2. \A f \in Fields : Field(p, f) \in Path /\ MakesNoSequence(Field(p, f))
  BY <1>1, FieldsAre, FineKeys
<1>3. \A part \in {"llm_provider", "llm_model", "name"} : <<part>> \in Path /\ MakesNoSequence(<<part>>)
  BY KeysArePaths, LiteralsAre, FineKeys
<1>4. \A f \in Fields : Set(Field(p, f), "x") \in FineRequests
  BY <1>1, <1>2, FineSet
<1>5. \A part \in {"llm_provider", "llm_model", "name"}, value \in {"x", p} : Set(<<part>>, value) \in FineRequests
  BY <1>1, <1>3, FineSet
<1>6. m \in Nat /\ m \in {1, 2, 3, 4, 5, 6} /\ (m = 6 => Len(list) = 6)
  <2>1. Len(list) = 5 \/ Len(list) = 6
    BY DEF Asks
  <2> QED
    BY <2>1, SixAre
<1> QED
  BY <1>4, <1>5, <1>6 DEF Asks, Fields

\* How far a submit has come.
Stage(p, list, j) ==
  /\ Asks(p, list) /\ j \in 0..Len(list) /\ setup.todo = SubSeq(list, j + 1, Len(list))
  /\ j >= 1 => p \in Presets
  /\ "setup" \in alone => (j >= 2 => Keyed(doc, p)) /\ (j >= 4 => Current(doc, p))

LEMMA RestOf ==
  ASSUME NEW S, NEW list \in Seq(S), NEW j \in 0..Len(list), NEW todo, todo = SubSeq(list, j + 1, Len(list))
  PROVE  /\ todo = <<>> <=> j = Len(list)
         /\ todo # <<>> => /\ j + 1 \in 1..Len(list) /\ Head(todo) = list[j + 1]
                           /\ Tail(todo) = SubSeq(list, (j + 1) + 1, Len(list))
<1>1. Len(list) \in Nat /\ j \in Nat
  OBVIOUS
<1>2. todo \in Seq(S) /\ Len(todo) = Len(list) - j /\ \A i \in 1..(Len(list) - j) : todo[i] = list[i + j]
  BY <1>1
<1>3. todo = <<>> <=> j = Len(list)
  <2>1. todo = <<>> <=> Len(todo) = 0
    BY <1>2, EmptySeq
  <2> QED
    BY <1>1, <1>2, <2>1
<1>4. ASSUME todo # <<>>
      PROVE  /\ j + 1 \in 1..Len(list) /\ Head(todo) = list[j + 1]
             /\ Tail(todo) = SubSeq(list, (j + 1) + 1, Len(list))
  <2>1. j + 1 \in 1..Len(list)
    BY <1>1, <1>3, <1>4
  <2>2. Head(todo) = list[j + 1]
    BY <1>1, <1>2, <2>1
  <2> DEFINE t == Tail(todo)
             u == SubSeq(list, (j + 1) + 1, Len(list))
  <2>3. t \in Seq(S) /\ Len(t) = Len(list) - (j + 1) /\ \A i \in 1..Len(t) : t[i] = list[(i + 1) + j]
    BY <1>1, <1>2, <1>4, <2>1
  <2>4. u \in Seq(S) /\ Len(u) = Len(list) - (j + 1) /\ \A i \in 1..Len(u) : u[i] = list[i + (j + 1)]
    BY <1>1, <2>1
  <2> HIDE DEF t, u
  <2>5. \A i \in 1..Len(t) : t[i] = u[i]
    <3>1. ASSUME NEW i \in 1..Len(t) PROVE t[i] = u[i]
      <4>1. (i + 1) + j = i + (j + 1) /\ i \in 1..Len(u)
        BY <1>1, <2>3, <2>4
      <4>2. t[i] = list[(i + 1) + j] /\ u[i] = list[i + (j + 1)]
        BY <2>3, <2>4, <4>1
      <4> QED
        BY <4>1, <4>2
    <3> QED
      BY <3>1
  <2>6. t = u
    BY <2>3, <2>4, <2>5, SeqEqual
  <2> QED
    BY <2>1, <2>2, <2>6 DEF t, u
<1> QED
  BY <1>3, <1>4

ChatInv ==
  /\ NoSequence(doc) /\ (\A h \in Handlers : IsFine(handlers[h].todo)) /\ (setup.todo # <<>> => setup.busy)
  /\ setup.busy => \E p, list, j : p \in STRING /\ Stage(p, list, j)
  /\ SetupLeadsToChat

\* A writer other than the setup page ends what the page was sure of.
LEMMA StageDisturbed ==
  ASSUME ChatInv, setup' = setup, page' = page, NoSequence(doc'), \A h \in Handlers : IsFine(handlers'[h].todo),
         "setup" \notin alone' \/ (doc' = doc /\ ("setup" \in alone' => "setup" \in alone))
  PROVE  ChatInv'
<1>1. ASSUME setup.busy PROVE \E p, list, j : p \in STRING /\ Stage(p, list, j)'
  <2>1. PICK p, list, j : p \in STRING /\ Stage(p, list, j)
    BY <1>1 DEF ChatInv
  <2>2. Stage(p, list, j)'
    <3>1. /\ Asks(p, list) /\ j \in 0..Len(list) /\ setup'.todo = SubSeq(list, j + 1, Len(list))
          /\ j >= 1 => p \in Presets
      BY <2>1 DEF Stage
    <3>2. "setup" \in alone' => (j >= 2 => Keyed(doc', p)) /\ (j >= 4 => Current(doc', p))
      BY <2>1 DEF Stage
    <3> QED
      BY <3>1, <3>2 DEF Stage
  <2> QED
    BY <2>1, <2>2
<1> QED
  BY <1>1 DEF ChatInv, SetupLeadsToChat

LEMMA PinNoSequence ==
  ASSUME IsTree(doc), NoSequence(doc), pkgPin \/ pkgUnpin
  PROVE  NoSequence(doc')
<1> DEFINE at == <<"pinned">>
<1>1. at \in Path /\ Typed(doc) /\ at[1] = "pinned" /\ Len(at) = 1
  BY KeysArePaths, TreeIs
<1>2. ASSUME NEW d, Typed(d), NoSequence(d), NEW q \in Path, NEW node, IsPrefix(at, q) PROVE NoSequence(Put(d, q, node))
  <2> HIDE DEF at
  <2>1. 1 \in 1..Len(at)
    BY <1>1
  <2>2. q[1] = "pinned"
    BY <1>1, <1>2, <2>1, PrefixIs
  <2>3. q \notin OfProviders
    BY <2>2, OfProvidersAre
  <2> QED
    BY <1>2, <2>3, PutNoSequence
<1>3. CASE pkgPin
  <2>1. PICK clip \in Clips :
          IF IsPinned(doc, clip) THEN UNCHANGED <<doc, last, alone>>
          ELSE /\ Cardinality(Children(doc, <<"pinned">>)) < Len(Numerals)
               /\ Write("run", Set(<<"pinned">>, clip), addPinnedClip(doc, clip))
    BY <1>3 DEF pkgPin
  <2>2. CASE IsPinned(doc, clip)
    BY <2>1, <2>2
  <2>3. CASE ~IsPinned(doc, clip)
    <3> DEFINE tree == IF at \in DOMAIN doc /\ doc[at] = "seq" THEN doc ELSE Put(doc, at, "seq")
               size == Cardinality(Children(tree, at))
    <3>1. doc' = Put(tree, Item(at, size), clip)
      BY <2>1, <2>3 DEF Write, addPinnedClip
    <3>2. \E n : Pinnable(tree, n) /\ n < Len(Numerals) /\ size = n
      <4>1. CASE at \in DOMAIN doc /\ doc[at] = "seq"
        BY <2>1, <2>3, <4>1, PinnableIs
      <4>2. CASE ~(at \in DOMAIN doc /\ doc[at] = "seq")
        <5>1. tree = Put(doc, at, "seq")
          BY <4>2
        <5>2. Pinnable(Put(doc, at, "seq"), 0)
          BY <4>2, MadePinnable
        <5> HIDE DEF tree
        <5>3. Pinnable(tree, 0)
          BY <5>1, <5>2
        <5>4. size = 0
          BY <5>3, CountIs, KeysArePaths DEF Pinnable
        <5>5. 0 < Len(Numerals)
          <6>1. Numerals \in Seq(STRING) /\ Numerals # <<>>
            BY ConfigAssumption DEF Path
          <6> QED
            BY <6>1, EmptySeq
        <5> HIDE DEF size
        <5> QED
          BY <5>3, <5>4, <5>5
      <4> QED
        BY <4>1, <4>2
    <3>3. NoSequence(tree)
      <4>1. IsPrefix(at, at)
        BY <1>1, PrefixOrder
      <4> QED
        BY <1>1, <1>2, <4>1
    <3> HIDE DEF tree, size, at
    <3>4. PICK n : Pinnable(tree, n) /\ n < Len(Numerals) /\ size = n
      BY <3>2
    <3>5. Typed(tree) /\ n \in Nat
      BY <3>4, NumeralsAre, TreeIs DEF Pinnable
    <3>6. PICK x \in STRING : Item(at, n) = Append(at, x) /\ Item(at, n) \in Path
      BY <1>1, <3>4, <3>5, ItemIs
    <3>7. IsPrefix(at, Append(at, x))
      BY <1>1, AboveChild
    <3> QED
      BY <1>2, <3>1, <3>3, <3>4, <3>5, <3>6, <3>7
  <2> QED
    BY <2>2, <2>3
<1>4. CASE pkgUnpin
  <2>1. PICK clip \in Clips :
          /\ IsPinned(doc, clip)
          /\ Write("run", Delete(<<"pinned">>),
                   RemoveItem(doc, <<"pinned">>, CHOOSE n \in Positions(doc, clip) : \A k \in Positions(doc, clip) : n <= k))
    BY <1>4 DEF pkgUnpin
  <2> DEFINE first == CHOOSE n \in Positions(doc, clip) : \A k \in Positions(doc, clip) : n <= k
  <2>2. FirstPosition(doc, clip, first)
    BY <2>1, TheFirstPosition
  <2>3. doc' = RemoveItem(doc, at, first)
    BY <2>1 DEF Write
  <2> HIDE DEF first
  <2>4. at \in DOMAIN doc /\ doc[at] = "seq"
    BY <2>1 DEF IsPinned
  <2>5. PICK size : Pinnable(doc, size) /\ Cardinality(Children(doc, at)) = size
    BY <2>4, PinnableIs
  <2>6. first \in 0..(size - 1) /\ size \in 0..Len(Numerals) /\ Counted(doc, at, size)
    BY <2>2, <2>5 DEF FirstPosition, Positions, Pinnable
  <2> HIDE DEF at
  <2>7. \A q \in DOMAIN RemoveItem(doc, at, first) :
          \/ q \in DOMAIN doc /\ \A k \in first..(size - 1) : ~IsPrefix(Item(at, k), q)
          \/ \E k \in (first + 1)..(size - 1) : \E r \in DOMAIN doc : IsPrefix(Item(at, k), r) /\ q = Up(at, k, r)
    BY <2>4, <2>6, RemoveIs
  <2>8. \A q \in DOMAIN doc : (\A k \in first..(size - 1) : ~IsPrefix(Item(at, k), q)) =>
          q \in DOMAIN RemoveItem(doc, at, first) /\ RemoveItem(doc, at, first)[q] = doc[q]
    BY <2>4, <2>6, RemoveIs
  <2>9. ASSUME NEW q \in OfProviders \cap DOMAIN doc' PROVE doc'[q] # "seq"
    <3>1. ASSUME NEW k \in (first + 1)..(size - 1), NEW r \in DOMAIN doc, IsPrefix(Item(at, k), r), q = Up(at, k, r)
          PROVE  FALSE
      <4>1. k \in Nat \ {0} /\ k < Len(Numerals) /\ r \in Path
        BY <1>1, <2>6, NumeralsAre DEF Typed
      <4>2. Up(at, k, r) \in Path /\ \A i \in 1..Len(r) : i # Len(at) + 1 => Up(at, k, r)[i] = r[i]
        BY <1>1, <3>1, <4>1, UpIs
      <4>3. 1 \in 1..Len(r) /\ at[1] = r[1]
        <5>1. Len(at) + 1 \in 1..Len(r) /\ \A i \in 1..Len(at) : i \in 1..Len(r) /\ at[i] = r[i]
          BY <1>1, <3>1, <4>1, AboveItem
        <5>2. 1 \in 1..Len(at)
          BY <1>1
        <5> QED
          BY <5>1, <5>2
      <4>4. q[1] = "pinned"
        BY <1>1, <3>1, <4>2, <4>3
      <4> QED
        BY <4>4, OfProvidersAre
    <3>2. q \in DOMAIN RemoveItem(doc, at, first)
      BY <2>3
    <3>3. q \in DOMAIN doc /\ \A k \in first..(size - 1) : ~IsPrefix(Item(at, k), q)
      BY <2>7, <3>1, <3>2
    <3>4. doc'[q] = doc[q]
      BY <2>3, <2>8, <3>3
    <3> QED
      BY <3>3, <3>4 DEF NoSequence
  <2> QED
    BY <2>9 DEF NoSequence
<1> QED
  BY <1>3, <1>4

LEMMA ChatPanel ==
  ASSUME NoSequenceOfProviders, TreeInv, ChatInv, PanelNext
  PROVE  ChatInv'
<1>1. /\ IsTree(doc) /\ PanelForm /\ HandlersForm /\ NoSequence(doc) /\ DOMAIN panel.shown.providers \subseteq Providers
      /\ \A h \in Handlers : IsFine(handlers[h].todo)
  BY DEF TreeInv, ChatInv
<1>2. IsFine(<<>>) /\ \A h \in Handlers : handlers[h].todo # <<>> =>
        Head(handlers[h].todo) \in FineRequests /\ IsFine(Tail(handlers[h].todo))
  <2>1. IsFine(<<>>)
    BY DEF IsFine
  <2>2. ASSUME NEW h \in Handlers, handlers[h].todo # <<>>
        PROVE  Head(handlers[h].todo) \in FineRequests /\ IsFine(Tail(handlers[h].todo))
    <3>1. IsFine(handlers[h].todo)
      BY <1>1
    <3> QED
      BY <2>2, <3>1, FineIs
  <2> QED
    BY <2>1, <2>2
<1>3. setup' = setup /\ page' = page
  BY PanelWrites
<1>4. ASSUME NEW k \in Handlers PROVE IsFine(handlers'[k].todo)
  <2>1. handlers'[k].todo \in handleSet \cup handleAddProvider \cup handleDeleteProvider \cup Reset => IsFine(handlers'[k].todo)
    BY <1>1, ActFine
  <2> QED
    BY <1>1, <1>2, <2>1, TodoSteps
<1>6. ASSUME NEW h \in Handlers, handlers[h].todo # <<>>, Accepted(Head(handlers[h].todo)),
             Apply("panel", Head(handlers[h].todo))
      PROVE  ChatInv'
  <2>1. NoSequence(doc')
    BY <1>1, <1>2, <1>6, AcceptedNoSequence
  <2>2. "setup" \notin alone'
    BY <1>6 DEF Apply, Write
  <2> QED
    BY <1>3, <1>4, <2>1, <2>2, StageDisturbed
<1>7. CASE doc' = doc /\ ("setup" \in alone' => "setup" \in alone)
  <2>1. NoSequence(doc')
    BY <1>1, <1>7
  <2> QED
    BY <1>3, <1>4, <1>7, <2>1, StageDisturbed
<1> QED
  BY <1>6, <1>7, PanelWrites

LEMMA ChatCommand ==
  ASSUME NoSequenceOfProviders, TreeInv, ChatInv, runConfig
  PROVE  ChatInv'
<1>1. IsTree(doc) /\ NoSequence(doc) /\ \A h \in Handlers : IsFine(handlers[h].todo)
  BY DEF TreeInv, ChatInv
<1>2. setup' = setup /\ page' = page /\ handlers' = handlers
  BY DEF runConfig
<1>3. "x" \in STRING \ Inner /\ "" \in STRING \ Inner
  BY LiteralsAre DEF Inner
<1>4. \A key \in Keys : key \in Path /\ key # <<>> /\ MakesNoSequence(key)
  BY ConfigAssumption DEF NoSequenceOfProviders
<1>5. ASSUME NEW key \in Keys, NEW value \in {"", "x"}, Apply("command", Set(key, value))
      PROVE  NoSequence(doc') /\ "setup" \notin alone'
  <2>1. Set(key, value) \in FineRequests
    BY <1>3, <1>4, FineSet
  <2>2. Set(key, value).key # <<>> /\ (Set(key, value).op = "delete" => CanDelete(doc, Set(key, value).key))
    BY <1>4 DEF Set
  <2> QED
    BY <1>1, <1>5, <2>1, <2>2, ApplyNoSequence DEF Apply, Write
<1>6. ASSUME NEW key \in Keys, CanDelete(doc, key), Apply("command", Delete(key))
      PROVE  NoSequence(doc') /\ "setup" \notin alone'
  <2>1. Delete(key) \in FineRequests
    BY <1>4, FineSet
  <2>2. Delete(key).key # <<>> /\ (Delete(key).op = "delete" => CanDelete(doc, Delete(key).key))
    BY <1>4, <1>6 DEF Delete
  <2> QED
    BY <1>1, <1>6, <2>1, <2>2, ApplyNoSequence DEF Apply, Write
<1>7. ASSUME Write("command", Delete(<<>>), Seed) PROVE NoSequence(doc') /\ "setup" \notin alone'
  BY <1>7 DEF Write, NoSequenceOfProviders
<1>8. NoSequence(doc') /\ "setup" \notin alone'
  BY <1>5, <1>6, <1>7 DEF runConfig
<1> QED
  BY <1>1, <1>2, <1>8, StageDisturbed

LEMMA ChatRun ==
  ASSUME TreeInv, ChatInv, BeginRun \/ pkgPin \/ pkgUnpin
  PROVE  ChatInv'
<1>1. IsTree(doc) /\ NoSequence(doc) /\ \A h \in Handlers : IsFine(handlers[h].todo)
  BY DEF TreeInv, ChatInv
<1>2. setup' = setup /\ page' = page /\ handlers' = handlers
  BY DEF BeginRun, pkgPin, pkgUnpin
<1>3. CASE BeginRun
  <2>1. doc' = doc /\ ("setup" \in alone' => "setup" \in alone)
    BY <1>3 DEF BeginRun
  <2>2. NoSequence(doc')
    BY <1>1, <2>1
  <2> QED
    BY <1>1, <1>2, <2>1, <2>2, StageDisturbed
<1>4. CASE pkgPin \/ pkgUnpin
  <2>1. NoSequence(doc')
    BY <1>1, <1>4, PinNoSequence
  <2>2. "setup" \notin alone' \/ (doc' = doc /\ ("setup" \in alone' => "setup" \in alone))
    <3>1. ASSUME pkgPin PROVE "setup" \notin alone' \/ (doc' = doc /\ ("setup" \in alone' => "setup" \in alone))
      <4>1. PICK clip \in Clips :
              IF IsPinned(doc, clip) THEN UNCHANGED <<doc, last, alone>>
              ELSE Write("run", Set(<<"pinned">>, clip), addPinnedClip(doc, clip))
        BY <3>1 DEF pkgPin
      <4> QED
        BY <4>1 DEF Write
    <3>2. ASSUME pkgUnpin PROVE "setup" \notin alone'
      BY <3>2 DEF pkgUnpin, Write
    <3> QED
      BY <1>4, <3>1, <3>2
  <2> QED
    BY <1>1, <1>2, <2>1, <2>2, StageDisturbed
<1> QED
  BY <1>3, <1>4

\* A request of the setup page that is made.
LEMMA SetupApplies ==
  ASSUME NoSequenceOfProviders, TreeInv, ChatInv, setup.todo # <<>>,
         Accepted(Head(setup.todo)), Apply("setup", Head(setup.todo))
  PROVE  /\ NoSequence(doc')
         /\ \E p, list, j :
              /\ p \in STRING /\ Asks(p, list) /\ j \in 0..Len(list) /\ Tail(setup.todo) = SubSeq(list, j + 1, Len(list))
              /\ j >= 1 => p \in Presets
              /\ "setup" \in alone' => (j >= 2 => Keyed(doc', p)) /\ (j >= 4 => Current(doc', p))
<1>1. IsTree(doc) /\ NoSequence(doc) /\ setup.busy
  BY DEF TreeInv, ChatInv
<1>2. PICK p, list, j : p \in STRING /\ Stage(p, list, j)
  BY <1>1 DEF ChatInv
<1>3. Asks(p, list) /\ list \in Seq(Requests) /\ j \in 0..Len(list) /\ setup.todo = SubSeq(list, j + 1, Len(list))
  BY <1>2 DEF Stage, Asks
<1>4. j + 1 \in 1..Len(list) /\ Head(setup.todo) = list[j + 1] /\ Tail(setup.todo) = SubSeq(list, (j + 1) + 1, Len(list))
  BY <1>3, RestOf
<1>5. Len(list) \in Nat /\ j \in Nat
  BY <1>3
<1>6. p \in Presets
  <2>1. CASE j = 0
    <3>3. j + 1 = 1
      BY <2>1
    <3>4. Head(setup.todo) = list[1]
      BY <1>4, <3>3
    <3>5. list[1] = Set(Field(p, "base_url"), IF p \in Presets THEN "x" ELSE "")
      BY <1>3 DEF Asks
    <3>1. Accepted(Set(Field(p, "base_url"), IF p \in Presets THEN "x" ELSE ""))
      BY <3>4, <3>5
    <3>2. (IF p \in Presets THEN "x" ELSE "") # ""
      BY <3>1 DEF Accepted, Set
    <3> QED
      BY <3>2
  <2>2. CASE j # 0
    <3>1. j >= 1
      BY <1>5, <2>2
    <3> QED
      BY <1>2, <3>1 DEF Stage
  <2> QED
    BY <2>1, <2>2
<1>7. PICK m \in 1..Len(list) : m = j + 1
  BY <1>4
<1>8. Accepted(list[m]) /\ Apply("setup", list[m])
  BY <1>4, <1>7
<1>9. list[m] \in FineRequests
  BY <1>3, <1>6, AsksFine
<1>10. NoSequence(doc')
  BY <1>1, <1>8, <1>9, AcceptedNoSequence
<1>11. /\ (m >= 3 => Keyed(doc, p)) => (m >= 2 => Keyed(doc', p))
       /\ (m >= 5 => Current(doc, p)) => (m >= 4 => Current(doc', p))
  BY <1>1, <1>3, <1>6, <1>8, AskedStep
<1>12. "setup" \in alone' => "setup" \in alone
  BY <1>8 DEF Apply, Write
<1>13. "setup" \in alone' => (m >= 2 => Keyed(doc', p)) /\ (m >= 4 => Current(doc', p))
  <2>1. ASSUME "setup" \in alone' PROVE (m >= 3 => Keyed(doc, p)) /\ (m >= 5 => Current(doc, p))
    <3>1. (j >= 2 => Keyed(doc, p)) /\ (j >= 4 => Current(doc, p))
      BY <1>2, <1>12, <2>1 DEF Stage
    <3>2. (m >= 3 => j >= 2) /\ (m >= 5 => j >= 4)
      BY <1>5, <1>7
    <3> QED
      BY <3>1, <3>2
  <2> QED
    BY <1>11, <2>1
<1>14. m \in 0..Len(list) /\ Tail(setup.todo) = SubSeq(list, m + 1, Len(list))
  BY <1>4, <1>5, <1>7
<1> QED
  BY <1>2, <1>3, <1>6, <1>10, <1>13, <1>14

LEMMA WholeIs ==
  ASSUME NEW S, NEW list \in Seq(S)
  PROVE  0 \in 0..Len(list) /\ list = SubSeq(list, 0 + 1, Len(list))
<1>1. Len(list) \in Nat /\ 0 + 1 = 1
  OBVIOUS
<1>2. SubSeq(list, 1, Len(list)) = list
  BY SubSeqFull
<1> QED
  BY <1>1, <1>2

LEMMA ChatSetup ==
  ASSUME NoSequenceOfProviders, TreeInv, ChatInv, Submit \/ SetupRequest \/ SetupLoses \/ SetupDone
  PROVE  ChatInv'
<1>1. IsTree(doc) /\ SetupForm /\ NoSequence(doc) /\ SetupLeadsToChat /\ \A h \in Handlers : IsFine(handlers[h].todo)
  BY DEF TreeInv, SetupForm, ChatInv
<1>2. handlers' = handlers
  BY DEF Submit, SetupRequest, SetupLoses, SetupDone
<1>3. \A h \in Handlers : IsFine(handlers'[h].todo)
  BY <1>1, <1>2
<1>8. ~(0 >= 1) /\ ~(0 >= 2) /\ ~(0 >= 4)
  OBVIOUS
<1>4. CASE Submit
  <2>1. PICK p \in Presets \cup ({loadConfig(doc).llm_provider} \ {""}), renamed \in BOOLEAN :
          setup' = [setup EXCEPT !.todo = SetupWrites(p) \o (IF renamed THEN <<Set(<<"name">>, "x")>> ELSE <<>>),
                                 !.busy = TRUE]
    BY <1>4 DEF Submit
  <2>2. p \in STRING
    <3>1. loadConfig(doc).llm_provider \in STRING
      BY <1>1, LoadIs
    <3> QED
      BY <3>1, ConfigAssumption
  <2> DEFINE list == SetupWrites(p) \o (IF renamed THEN <<Set(<<"name">>, "x")>> ELSE <<>>)
  <2>3. Asks(p, list)
    BY <2>2, AsksAre
  <2>9. PICK asked : asked = list
    OBVIOUS
  <2>10. Asks(p, asked)
    BY <2>3, <2>9
  <2>4. setup' = [setup EXCEPT !.todo = asked, !.busy = TRUE]
    BY <2>1, <2>9
  <2> HIDE DEF list
  <2>5. asked \in Seq(Requests) /\ 0 \in 0..Len(asked) /\ asked = SubSeq(asked, 0 + 1, Len(asked))
    <3>1. asked \in Seq(Requests)
      BY <2>10 DEF Asks
    <3> QED
      BY <3>1, WholeIs, Zenon
  <2>6. setup'.todo = asked /\ setup'.busy /\ setup'.done = setup.done
    BY <1>1, <2>4 DEF SetupForm
  <2>7. Stage(p, asked, 0)'
    BY <1>8, <2>5, <2>6, <2>10, Zenon DEF Stage
  <2>8. NoSequence(doc') /\ page' = page
    BY <1>1, <1>4 DEF Submit
  <2> QED
    BY <1>1, <1>3, <2>2, <2>6, <2>7, <2>8 DEF ChatInv, SetupLeadsToChat
<1>5. CASE SetupRequest
  <2>1. setup.todo # <<>> /\ page' = page
    BY <1>5 DEF SetupRequest
  <2>2. CASE Accepted(Head(setup.todo))
    <3>1. Apply("setup", Head(setup.todo)) /\ setup' = [setup EXCEPT !.todo = Tail(@)]
      BY <1>5, <2>2 DEF SetupRequest, Sent
    <3>2. NoSequence(doc')
      BY <2>1, <2>2, <3>1, SetupApplies
    <3>3. PICK p, list, j :
            /\ p \in STRING /\ Asks(p, list) /\ j \in 0..Len(list) /\ Tail(setup.todo) = SubSeq(list, j + 1, Len(list))
            /\ j >= 1 => p \in Presets
            /\ "setup" \in alone' => (j >= 2 => Keyed(doc', p)) /\ (j >= 4 => Current(doc', p))
      BY <2>1, <2>2, <3>1, SetupApplies
    <3>4. setup'.todo = Tail(setup.todo) /\ setup'.busy = setup.busy /\ setup'.done = setup.done
      BY <1>1, <3>1 DEF SetupForm
    <3>5. Stage(p, list, j)'
      BY <3>3, <3>4 DEF Stage
    <3>6. setup.busy
      BY <2>1 DEF ChatInv
    <3>7. SetupLeadsToChat'
      BY <1>1, <2>1, <3>4 DEF SetupLeadsToChat
    <3> QED
      BY <1>3, <3>2, <3>3, <3>4, <3>5, <3>6, <3>7 DEF ChatInv
  <2>3. CASE ~Accepted(Head(setup.todo))
    <3>1. doc' = doc /\ setup' = [setup EXCEPT !.todo = <<>>, !.busy = FALSE]
      BY <1>5, <2>3 DEF SetupRequest, Sent
    <3>2. setup'.todo = <<>> /\ setup'.busy = FALSE /\ setup'.done = setup.done
      BY <1>1, <3>1 DEF SetupForm
    <3> QED
      BY <1>1, <1>3, <2>1, <3>1, <3>2 DEF ChatInv, SetupLeadsToChat
  <2> QED
    BY <2>2, <2>3
<1>6. CASE SetupLoses
  <2>1. setup' = [setup EXCEPT !.todo = <<>>, !.busy = FALSE] /\ page' = page
    BY <1>6 DEF SetupLoses
  <2>2. setup'.todo = <<>> /\ setup'.busy = FALSE /\ setup'.done = setup.done
    BY <1>1, <2>1 DEF SetupForm
  <2>3. NoSequence(doc')
    <3>1. CASE setup.todo # <<>> /\ Accepted(Head(setup.todo)) /\ Apply("setup", Head(setup.todo))
      BY <3>1, SetupApplies
    <3>2. CASE UNCHANGED <<doc, last, alone>>
      BY <1>1, <3>2
    <3> QED
      BY <1>6, <3>1, <3>2 DEF SetupLoses
  <2> QED
    BY <1>1, <1>3, <2>1, <2>2, <2>3 DEF ChatInv, SetupLeadsToChat
<1>7. CASE SetupDone
  <2>1. /\ doc' = doc /\ setup.busy /\ setup.todo = <<>> /\ page' = PageOf(doc)
        /\ setup' = [setup EXCEPT !.busy = FALSE, !.done = "setup" \in alone]
    BY <1>7 DEF SetupDone
  <2>2. setup'.todo = <<>> /\ setup'.busy = FALSE /\ setup'.done = ("setup" \in alone)
    BY <1>1, <2>1 DEF SetupForm
  <2>3. ASSUME "setup" \in alone PROVE page' = "chat"
    <3>1. PICK p, list, j : p \in STRING /\ Stage(p, list, j)
      BY <2>1 DEF ChatInv
    <3>2. list \in Seq(Requests) /\ j \in 0..Len(list) /\ setup.todo = SubSeq(list, j + 1, Len(list)) /\ Len(list) \in {5, 6}
      BY <3>1 DEF Stage, Asks
    <3>3. j = Len(list)
      BY <2>1, <3>2, RestOf
    <3>4. j >= 1 /\ j >= 2 /\ j >= 4
      BY <3>2, <3>3
    <3>5. p \in Presets /\ Keyed(doc, p) /\ Current(doc, p)
      BY <2>3, <3>1, <3>4 DEF Stage
    <3> QED
      BY <2>1, <3>5, ReadyIs
  <2> QED
    BY <1>1, <1>3, <2>1, <2>2, <2>3 DEF ChatInv, SetupLeadsToChat
<1> QED
  BY <1>4, <1>5, <1>6, <1>7

\* A setup that completes leads to the chat, whatever attempts failed before and
\* whatever the file said (SetupPage.tsx:86-115, ChatLayout.tsx:40-49), when no
\* key makes a sequence of the providers, or of a preset.
THEOREM SetupLeadsToChatHolds ==
  ASSUME NoSequenceOfProviders
  PROVE  ConfigSpec => []SetupLeadsToChat
<1>1. ConfigInit => ChatInv
  <2> SUFFICES ASSUME ConfigInit PROVE ChatInv
    OBVIOUS
  <2>1. IsFine(<<>>)
    BY DEF IsFine
  <2>2. NoSequence(doc)
    BY DEF ConfigInit, NoSequenceOfProviders
  <2>3. \A h \in Handlers : handlers[h].todo = <<>>
    BY NoTaskIs DEF ConfigInit
  <2>4. setup.todo = <<>> /\ ~setup.busy /\ ~setup.done
    BY DEF ConfigInit
  <2> QED
    BY <2>1, <2>2, <2>3, <2>4 DEF ChatInv, SetupLeadsToChat
<1>2. TreeInv /\ ChatInv /\ [ConfigNext]_configVars => ChatInv'
  <2> SUFFICES ASSUME TreeInv, ChatInv, [ConfigNext]_configVars PROVE ChatInv'
    OBVIOUS
  <2>1. CASE UNCHANGED configVars
    <3>1. setup' = setup /\ page' = page /\ doc' = doc /\ alone' = alone /\ handlers' = handlers
      BY <2>1 DEF configVars
    <3>2. NoSequence(doc') /\ \A h \in Handlers : IsFine(handlers'[h].todo)
      BY <3>1 DEF ChatInv
    <3> QED
      BY <3>1, <3>2, StageDisturbed
  <2>2. CASE runConfig
    BY <2>2, ChatCommand
  <2>3. CASE BeginRun \/ pkgPin \/ pkgUnpin
    BY <2>3, ChatRun
  <2>4. CASE PanelNext
    BY <2>4, ChatPanel
  <2>5. CASE Submit \/ SetupRequest \/ SetupLoses \/ SetupDone
    BY <2>5, ChatSetup
  <2> QED
    BY <2>1, <2>2, <2>3, <2>4, <2>5 DEF ConfigNext
<1>3. ChatInv => SetupLeadsToChat
  BY DEF ChatInv
<1> QED
  BY <1>1, <1>2, <1>3, TreeInductive, PTL DEF ConfigSpec

-----------------------------------------------------------------------------
(* What is below a node.                                                   *)

LEMMA PathAppends ==
  ASSUME NEW q \in Path, q # <<>>
  PROVE  \E p \in Path, x \in STRING : q = Append(p, x)
BY SequenceEmptyOrAppend DEF Path

LEMMA RootedIs ==
  ASSUME NEW d, DOMAIN d \subseteq Path
  PROVE  Rooted(d) <=> \A p \in Path, x \in STRING : Append(p, x) \in DOMAIN d => p \in DOMAIN d /\ d[p] \in Inner
<1>1. ASSUME Rooted(d), NEW p \in Path, NEW x \in STRING, Append(p, x) \in DOMAIN d
      PROVE  p \in DOMAIN d /\ d[p] \in Inner
  <2>1. SubSeq(Append(p, x), 1, Len(p)) = p /\ Len(Append(p, x)) - 1 = Len(p)
    BY FrontIs
  <2>2. Append(p, x) # <<>>
    BY AppendIs
  <2>3. SubSeq(Append(p, x), 1, Len(Append(p, x)) - 1) = p
    BY <2>1
  <2>4. Append(p, x) \in DOMAIN d \ {<<>>}
    BY <1>1, <2>2
  <2> QED
    BY <1>1, <2>3, <2>4 DEF Rooted
<1>2. ASSUME \A p \in Path, x \in STRING : Append(p, x) \in DOMAIN d => p \in DOMAIN d /\ d[p] \in Inner
      PROVE  Rooted(d)
  <2>1. ASSUME NEW q \in DOMAIN d \ {<<>>}
        PROVE  SubSeq(q, 1, Len(q) - 1) \in DOMAIN d /\ d[SubSeq(q, 1, Len(q) - 1)] \in Inner
    <3>1. q \in Seq(STRING) /\ q # <<>>
      BY DEF Path
    <3>2. PICK p \in Path, x \in STRING : q = Append(p, x)
      BY <3>1, PathAppends DEF Path
    <3>3. SubSeq(q, 1, Len(q) - 1) = p
      BY <3>2, FrontIs
    <3> QED
      BY <1>2, <3>2, <3>3
  <2> QED
    BY <2>1 DEF Rooted
<1> QED
  BY <1>1, <1>2

LEMMA RootedPut ==
  ASSUME NEW d, Typed(d), Rooted(d), NEW p \in DOMAIN d, d[p] \in Inner, NEW x \in STRING, NEW node \in STRING
  PROVE  Rooted(Put(d, Append(p, x), node))
<1> DEFINE child == Append(p, x)
           e == Put(d, child, node)
<1>1. DOMAIN d \subseteq Path /\ p \in Path /\ child \in Path
  BY AppendIs DEF Typed
<1>4. ~IsPrefix(child, p)
  BY <1>1, AboveChild
<1>7. \A r \in Path, y \in STRING : Append(r, y) = child => r = p
  <2>1. ASSUME NEW r \in Path, NEW y \in STRING, Append(r, y) = Append(p, x) PROVE r = p
    <3>1. \A z \in STRING : Append(r, z) = Append(p, x) => r = p /\ z = x
      BY <1>1, AboveChild
    <3> QED
      BY <2>1, <3>1
  <2> QED
    BY <2>1
<1> HIDE DEF child
<1>2. /\ child \in DOMAIN e
      /\ \A q \in DOMAIN d : ~IsPrefix(child, q) => q \in DOMAIN e /\ e[q] = d[q]
      /\ \A q \in DOMAIN e : q = child \/ (q \in DOMAIN d /\ ~IsPrefix(child, q))
  <2>1. DOMAIN d \subseteq Path
    BY <1>1
  <2>2. child \in Path
    BY <1>1
  <2>3. /\ child \in DOMAIN Put(d, child, node) /\ Put(d, child, node)[child] = node
        /\ \A q \in DOMAIN d : ~IsPrefix(child, q) =>
             q \in DOMAIN Put(d, child, node) /\ Put(d, child, node)[q] = d[q]
        /\ \A q \in DOMAIN Put(d, child, node) : q = child \/ (q \in DOMAIN d /\ ~IsPrefix(child, q))
    BY <2>1, <2>2, PutIs
  <2> QED
    BY <2>3
<1>3. DOMAIN e \subseteq Path
  BY <1>1, <1>2
<1> HIDE DEF e
<1>5. ASSUME NEW r \in Path, NEW y \in STRING, Append(r, y) \in DOMAIN e PROVE r \in DOMAIN e /\ e[r] \in Inner
  <2>1. CASE Append(r, y) = child
    <3>1. r = p
      BY <1>5, <1>7, <2>1
    <3> QED
      BY <1>2, <1>4, <3>1
  <2>2. CASE Append(r, y) \in DOMAIN d /\ ~IsPrefix(child, Append(r, y))
    <3>1. r \in DOMAIN d /\ d[r] \in Inner
      BY <1>1, <2>2, RootedIs
    <3>2. ~IsPrefix(child, r)
      BY <1>1, <2>2, AboveChild
    <3> QED
      BY <1>2, <3>1, <3>2
  <2> QED
    BY <1>2, <1>5, <2>1, <2>2
<1>6. Rooted(e)
  BY <1>3, <1>5, RootedIs
<1> QED
  BY <1>6 DEF e, child

LEMMA RootedFill ==
  ASSUME NEW d, IsTree(d), Rooted(d), NEW p \in DOMAIN d, d[p] = "seq", NEW part, IsNumeric(part)
  PROVE  Rooted(Fill(d, p, part))
<1> DEFINE e == Fill(d, p, part)
<1>1. /\ IsTree(e) /\ DOMAIN d \subseteq DOMAIN e /\ \A q \in DOMAIN d : e[q] = d[q]
      /\ \A q \in DOMAIN e \ DOMAIN d : \E x \in STRING : IsNumeric(x) /\ q = Append(p, x)
  BY FillIs
<1> HIDE DEF e
<1>2. DOMAIN d \subseteq Path /\ DOMAIN e \subseteq Path /\ p \in Path
  BY <1>1, TreeIs DEF Typed
<1>3. ASSUME NEW r \in Path, NEW y \in STRING, Append(r, y) \in DOMAIN e PROVE r \in DOMAIN e /\ e[r] \in Inner
  <2>1. CASE Append(r, y) \in DOMAIN d
    <3>1. r \in DOMAIN d /\ d[r] \in Inner
      BY <1>2, <2>1, RootedIs
    <3> QED
      BY <1>1, <3>1
  <2>2. CASE Append(r, y) \notin DOMAIN d
    <3>1. PICK x \in STRING : Append(r, y) = Append(p, x)
      BY <1>1, <1>3, <2>2
    <3>2. r = p
      BY <1>2, <3>1, AboveChild
    <3> QED
      BY <1>1, <3>2 DEF Inner
  <2> QED
    BY <2>1, <2>2
<1>4. Rooted(e)
  BY <1>2, <1>3, RootedIs
<1> QED
  BY <1>4 DEF e

LEMMA RootedDelete ==
  ASSUME NEW d, IsTree(d), Rooted(d), NEW parts \in Path, parts # <<>>, CanDelete(d, parts)
  PROVE  Rooted(deletePath(d, parts))
<1> DEFINE e == deletePath(d, parts)
<1>1. /\ IsTree(e) /\ \A q : q \in DOMAIN e <=> q \in DOMAIN d /\ ~IsPrefix(parts, q)
      /\ \A q \in DOMAIN e : e[q] = d[q]
  BY DeleteIs
<1> HIDE DEF e
<1>2. DOMAIN d \subseteq Path /\ DOMAIN e \subseteq Path
  BY <1>1, TreeIs DEF Typed
<1>3. ASSUME NEW r \in Path, NEW y \in STRING, Append(r, y) \in DOMAIN e PROVE r \in DOMAIN e /\ e[r] \in Inner
  <2>1. r \in DOMAIN d /\ d[r] \in Inner
    BY <1>1, <1>2, <1>3, RootedIs
  <2>2. ~IsPrefix(parts, Append(r, y))
    BY <1>1, <1>3
  <2>3. ~IsPrefix(parts, r)
    BY <1>2, <2>2, AboveChild
  <2> QED
    BY <1>1, <2>1, <2>3
<1>4. Rooted(e)
  BY <1>2, <1>3, RootedIs
<1> QED
  BY <1>4 DEF e

LEMMA RootedRemove ==
  ASSUME NEW d, IsTree(d), Rooted(d), NEW p \in DOMAIN d, d[p] = "seq",
         NEW size \in 0..Len(Numerals), Counted(d, p, size), NEW n \in 0..(size - 1)
  PROVE  Rooted(RemoveItem(d, p, n))
<1> DEFINE e == RemoveItem(d, p, n)
<1>1. /\ \A q \in DOMAIN d : (\A k \in n..(size - 1) : ~IsPrefix(Item(p, k), q)) => q \in DOMAIN e /\ e[q] = d[q]
      /\ \A k \in (n + 1)..(size - 1) : \A r \in DOMAIN d : IsPrefix(Item(p, k), r) =>
           Up(p, k, r) \in DOMAIN e /\ e[Up(p, k, r)] = d[r]
      /\ \A q \in DOMAIN e :
           \/ q \in DOMAIN d /\ \A k \in n..(size - 1) : ~IsPrefix(Item(p, k), q)
           \/ \E k \in (n + 1)..(size - 1) : \E r \in DOMAIN d : IsPrefix(Item(p, k), r) /\ q = Up(p, k, r)
  BY RemoveIs
<1>2. IsTree(e) /\ p \in DOMAIN e /\ e[p] = "seq"
  BY RemoveTree
<1> HIDE DEF e
<1>3. DOMAIN d \subseteq Path /\ DOMAIN e \subseteq Path /\ p \in Path
  BY <1>2, TreeIs DEF Typed
<1>4. \A k \in n..(size - 1) : k \in Nat /\ k < Len(Numerals)
  BY NumeralsAre
<1>5. \A k \in (n + 1)..(size - 1) : k \in Nat \ {0} /\ k < Len(Numerals) /\ k - 1 \in Nat /\ k - 1 < Len(Numerals) /\ k \in n..(size - 1)
  BY NumeralsAre
<1>6. ASSUME NEW r \in Path, NEW y \in STRING, Append(r, y) \in DOMAIN e PROVE r \in DOMAIN e /\ e[r] \in Inner
  <2>1. ASSUME Append(r, y) \in DOMAIN d, \A k \in n..(size - 1) : ~IsPrefix(Item(p, k), Append(r, y))
        PROVE  r \in DOMAIN e /\ e[r] \in Inner
    <3>1. r \in DOMAIN d /\ d[r] \in Inner
      BY <1>3, <2>1, RootedIs
    <3>2. ASSUME NEW k \in n..(size - 1) PROVE ~IsPrefix(Item(p, k), r)
      <4>1. Item(p, k) \in Path
        BY <1>3, <1>4, ItemIs
      <4> QED
        BY <2>1, <4>1, AboveChild
    <3> QED
      BY <1>1, <3>1, <3>2
  <2>2. ASSUME NEW k \in (n + 1)..(size - 1), NEW s \in DOMAIN d, IsPrefix(Item(p, k), s), Append(r, y) = Up(p, k, s)
        PROVE  r \in DOMAIN e /\ e[r] \in Inner
    <3>1. s \in Path /\ k \in Nat \ {0} /\ k < Len(Numerals) /\ k - 1 \in Nat /\ k - 1 < Len(Numerals)
      BY <1>3, <1>5
    <3>2. Item(p, k) \in Path /\ Item(p, k) = Append(p, Numerals[k + 1]) /\ Numerals[k + 1] \in STRING
      BY <1>3, <3>1, ItemIs
    <3>8. PICK x \in STRING : Item(p, k) = Append(p, x)
      BY <3>2
    <3>3. Len(Item(p, k)) = Len(p) + 1 /\ Item(p, k) # <<>> /\ Len(p) \in Nat
      BY <1>3, <3>8, AppendIs
    <3>4. s # <<>>
      BY <2>2, <3>1, <3>2, <3>3, RootIsAbove
    <3>5. PICK t \in Path, z \in STRING : s = Append(t, z)
      BY <3>1, <3>4, PathAppends
    <3>6. CASE s = Item(p, k)
      <4>1. /\ Up(p, k, s) \in Path /\ Len(Up(p, k, s)) = Len(s) /\ IsPrefix(Item(p, k - 1), Up(p, k, s))
        BY <1>3, <2>2, <3>1, UpIs
      <4>2. PICK u \in STRING : Item(p, k - 1) = Append(p, u) /\ Item(p, k - 1) \in Path
        BY <1>3, <3>1, ItemIs
      <4>3. Len(Item(p, k - 1)) = Len(p) + 1
        BY <1>3, <4>2, AppendIs
      <4>4. Up(p, k, s) = Item(p, k - 1)
        <5> DEFINE a == Up(p, k, s)
                   b == Item(p, k - 1)
        <5>1. a \in Path /\ b \in Path /\ Len(a) = Len(b) /\ IsPrefix(b, a)
          BY <3>3, <3>6, <4>1, <4>2, <4>3
        <5> HIDE DEF a, b
        <5>2. \A i \in 1..Len(b) : b[i] = a[i]
          BY <5>1, PrefixIs
        <5>3. a = b
          BY <5>1, <5>2, PathEqual
        <5> QED
          BY <5>3 DEF a, b
      <4>5. Append(r, y) = Append(p, u)
        BY <2>2, <4>2, <4>4
      <4>6. r = p
        BY <1>3, <1>6, <4>2, <4>5, AboveChild
      <4> QED
        BY <1>2, <4>6 DEF Inner
    <3>7. CASE s # Item(p, k)
      <4>1. IsPrefix(Item(p, k), t)
        BY <2>2, <3>2, <3>5, <3>7, AboveChild
      <4>2. Up(p, k, Append(t, z)) = Append(Up(p, k, t), z) /\ Up(p, k, t) \in Path
        BY <1>3, <3>1, <3>5, <4>1, UpAppend, UpIs
      <4>3. Append(r, y) = Append(Up(p, k, t), z)
        BY <2>2, <3>5, <4>2
      <4>4. r = Up(p, k, t)
        BY <1>6, <3>5, <4>2, <4>3, AboveChild
      <4>5. t \in DOMAIN d /\ d[t] \in Inner
        BY <1>3, <2>2, <3>5, RootedIs
      <4>6. r \in DOMAIN e /\ e[r] = d[t]
        BY <1>1, <2>2, <4>1, <4>4, <4>5
      <4> QED
        BY <4>5, <4>6
    <3> QED
      BY <3>6, <3>7
  <2> QED
    BY <1>1, <1>6, <2>1, <2>2
<1>7. Rooted(e)
  BY <1>3, <1>6, RootedIs
<1> QED
  BY <1>7 DEF e

\* The way up from a node goes through maps and sequences.
LEMMA NothingBelow ==
  ASSUME NEW d, DOMAIN d \subseteq Path, Rooted(d), NEW p \in Path, ~(p \in DOMAIN d /\ d[p] \in Inner),
         NEW q \in DOMAIN d, IsPrefix(p, q)
  PROVE  q = p
<1> DEFINE S == {n \in 0..Len(q) : \A r \in Path : IsPrefix(r, q) /\ Len(r) = Len(q) - n =>
                                     r \in DOMAIN d /\ (n # 0 => d[r] \in Inner)}
<1>1. q \in Path /\ Len(q) \in Nat /\ Len(p) \in Nat /\ Len(p) <= Len(q)
  <2>1. q \in Path
    OBVIOUS
  <2> QED
    BY <2>1, PrefixIs DEF Path
<1>2. 0 \in S
  <2>1. ASSUME NEW r \in Path, IsPrefix(r, q), Len(r) = Len(q) - 0 PROVE r \in DOMAIN d
    <3>1. Len(r) = Len(q) /\ \A i \in 1..Len(r) : r[i] = q[i]
      BY <1>1, <2>1, PrefixIs
    <3>2. r = q
      BY <1>1, <3>1, PathEqual
    <3> QED
      BY <3>2
  <2> QED
    BY <1>1, <2>1
<1>3. ASSUME NEW n \in 1..Len(q), n - 1 \in S PROVE n \in S
  <2>1. ASSUME NEW r \in Path, IsPrefix(r, q), Len(r) = Len(q) - n PROVE r \in DOMAIN d /\ d[r] \in Inner
    <3>1. /\ n \in Nat /\ Len(r) + 1 \in 1..Len(q) /\ Len(r) \in Nat
          /\ \A i \in 1..Len(r) : r[i] = q[i]
      BY <1>1, <2>1, PrefixIs
    <3>2. PICK x \in STRING : x = q[Len(r) + 1]
      <4>1. PICK i \in 1..Len(q) : i = Len(r) + 1
        BY <3>1
      <4>2. q[i] \in STRING
        BY <1>1, <4>1 DEF Path
      <4> QED
        BY <4>1, <4>2
    <3>3. /\ Append(r, x) \in Path /\ Len(Append(r, x)) = Len(r) + 1
          /\ \A i \in 1..Len(r) : Append(r, x)[i] = r[i]
          /\ Append(r, x)[Len(r) + 1] = x
      BY AppendIs
    <3>4. Len(Append(r, x)) = Len(q) - (n - 1) /\ Len(Append(r, x)) <= Len(q)
      BY <1>1, <2>1, <3>1, <3>3
    <3>5. ASSUME NEW i \in 1..Len(Append(r, x)) PROVE Append(r, x)[i] = q[i]
      <4>1. i \in 1..Len(r) \/ i = Len(r) + 1
        BY <3>1, <3>3
      <4> QED
        BY <3>1, <3>2, <3>3, <4>1
    <3>6. IsPrefix(Append(r, x), q)
      BY <1>1, <3>3, <3>4, <3>5, PrefixIs
    <3>7. Append(r, x) \in DOMAIN d
      BY <1>3, <3>3, <3>4, <3>6
    <3> QED
      BY <3>7, RootedIs
  <2>2. n \in 0..Len(q)
    BY <1>1
  <2> QED
    BY <2>1, <2>2
<1> HIDE DEF S
<1>4. \A n \in 0..Len(q) : n \in S
  BY <1>1, <1>2, <1>3, UpTo
<1>5. PICK n \in 0..Len(q) : n = Len(q) - Len(p)
  <2>1. \A a, b \in Nat : a <= b => b - a \in 0..b
    OBVIOUS
  <2>2. Len(q) - Len(p) \in 0..Len(q)
    BY <1>1, <2>1
  <2> QED
    BY <2>2
<1>6. n \in S /\ Len(p) = Len(q) - n
  BY <1>1, <1>4, <1>5
<1>7. n = 0
  BY <1>6 DEF S
<1>8. Len(p) = Len(q) /\ \A i \in 1..Len(p) : p[i] = q[i]
  BY <1>1, <1>5, <1>7, PrefixIs
<1> QED
  BY <1>1, <1>8, PathEqual

\* The first parts of a key.
To(key, n) == SubSeq(key, 1, n)

LEMMA ToIs ==
  ASSUME NEW key \in Path
  PROVE  /\ Len(key) \in Nat /\ To(key, 0) = <<>> /\ To(key, Len(key)) = key
         /\ \A n \in 0..Len(key) : To(key, n) \in Path /\ Len(To(key, n)) = n /\ IsPrefix(To(key, n), key)
         /\ \A n \in 1..Len(key) : /\ n - 1 \in 0..Len(key) /\ n \in 0..Len(key) /\ key[n] \in STRING
                                   /\ Append(To(key, n - 1), key[n]) = To(key, n)
<1>1. Len(key) \in Nat
  BY DEF Path
<1>2. To(key, 0) = <<>>
  BY SubSeqEmpty DEF To
<1>3. To(key, Len(key)) = key
  BY SubSeqFull DEF To, Path
<1>4. ASSUME NEW n \in 0..Len(key)
      PROVE  /\ To(key, n) \in Path /\ Len(To(key, n)) = n /\ \A i \in 1..n : To(key, n)[i] = key[i]
             /\ IsPrefix(To(key, n), key)
  <2>1. key \in Seq(STRING) /\ n \in Nat /\ n <= Len(key)
    BY <1>1 DEF Path
  <2>2. \A i \in 1..n : key[i] \in STRING
    BY <2>1
  <2>3. /\ SubSeq(key, 1, n) \in Seq(STRING) /\ Len(SubSeq(key, 1, n)) = IF 1 <= n THEN n - 1 + 1 ELSE 0
        /\ \A i \in 1..n - 1 + 1 : SubSeq(key, 1, n)[i] = key[1 + i - 1]
    BY <2>1, <2>2, SubSeqProperties
  <2>4. To(key, n) \in Path /\ Len(To(key, n)) = n
    BY <2>1, <2>3 DEF To, Path
  <2>5. \A i \in 1..n : To(key, n)[i] = key[i]
    BY <2>1, <2>3 DEF To
  <2> QED
    BY <2>1, <2>4, <2>5, PrefixIs
<1>5. ASSUME NEW n \in 1..Len(key)
      PROVE  /\ n - 1 \in 0..Len(key) /\ n \in 0..Len(key) /\ key[n] \in STRING
             /\ Append(To(key, n - 1), key[n]) = To(key, n)
  <2>1. n - 1 \in 0..Len(key) /\ n \in 0..Len(key) /\ n \in Nat
    BY <1>1
  <2>2. key[n] \in STRING
    BY DEF Path
  <2>3. PICK m \in 0..Len(key) : m = n - 1
    BY <2>1
  <2>4. PICK x \in STRING : x = key[n]
    BY <2>2
  <2> DEFINE p == To(key, m)
             a == Append(p, x)
             b == To(key, n)
  <2>5. p \in Path /\ Len(p) = m /\ \A i \in 1..m : p[i] = key[i]
    BY <1>4
  <2>6. b \in Path /\ Len(b) = n /\ \A i \in 1..n : b[i] = key[i]
    BY <1>4, <2>1
  <2> HIDE DEF p, b
  <2>7. a \in Path /\ Len(a) = Len(p) + 1 /\ (\A i \in 1..Len(p) : a[i] = p[i]) /\ a[Len(p) + 1] = x
    BY <2>5, AppendIs
  <2> HIDE DEF a
  <2>8. ASSUME NEW i \in 1..Len(a) PROVE a[i] = b[i]
    <3>1. i \in 1..n /\ (i \in 1..m \/ i = m + 1) /\ m + 1 = n
      BY <2>1, <2>3, <2>5, <2>7
    <3> QED
      BY <2>4, <2>5, <2>6, <2>7, <3>1
  <2>9. Len(a) = Len(b)
    BY <2>1, <2>3, <2>5, <2>6, <2>7
  <2>10. a = b
    BY <2>6, <2>7, <2>8, <2>9, PathEqual
  <2> QED
    BY <2>1, <2>2, <2>3, <2>4, <2>10 DEF a, p, b
<1> QED
  BY <1>1, <1>2, <1>3, <1>4, <1>5

-----------------------------------------------------------------------------
(* What a write leaves alone.                                              *)

\* The texts that a key is not related to are the same in two trees.
Keeps(d, e, key) ==
  /\ \A q \in DOMAIN d : d[q] \notin Inner /\ ~Related(q, key) => q \in DOMAIN e /\ e[q] = d[q]
  /\ \A q \in DOMAIN e : e[q] \notin Inner /\ ~Related(q, key) => q \in DOMAIN d /\ d[q] = e[q]

LEMMA KeepsOn ==
  ASSUME NEW d, NEW e, NEW f, NEW key, Keeps(d, e, key), Keeps(e, f, key)
  PROVE  Keeps(d, f, key)
BY DEF Keeps

LEMMA KeepsPut ==
  ASSUME NEW d, DOMAIN d \subseteq Path, NEW key, NEW p \in Path, Related(p, key),
         \A q \in DOMAIN d : IsPrefix(p, q) => Related(q, key), NEW node
  PROVE  Keeps(d, Put(d, p, node), key)
<1>1. /\ p \in DOMAIN Put(d, p, node) /\ Put(d, p, node)[p] = node
      /\ \A q \in DOMAIN d : ~IsPrefix(p, q) => q \in DOMAIN Put(d, p, node) /\ Put(d, p, node)[q] = d[q]
      /\ \A q \in DOMAIN Put(d, p, node) : q = p \/ (q \in DOMAIN d /\ ~IsPrefix(p, q))
  BY PutIs
<1> QED
  BY <1>1 DEF Keeps

LEMMA KeepsFill ==
  ASSUME NEW d, IsTree(d), NEW key, NEW p \in DOMAIN d, d[p] = "seq", NEW part, IsNumeric(part)
  PROVE  Keeps(d, Fill(d, p, part), key)
<1>1. /\ DOMAIN d \subseteq DOMAIN Fill(d, p, part)
      /\ \A q \in DOMAIN d : Fill(d, p, part)[q] = d[q]
      /\ \A q \in DOMAIN Fill(d, p, part) \ DOMAIN d : Fill(d, p, part)[q] = "map"
  BY FillIs
<1> QED
  BY <1>1 DEF Keeps, Inner

\* The sequences and the texts of a tree are among those there may be.
Allowed(d) == \A p \in DOMAIN d : (d[p] = "seq" => p \in Numbered) /\ (d[p] \notin Inner => p \in Named)

LEMMA AllowedPut ==
  ASSUME NEW d, DOMAIN d \subseteq Path, Allowed(d), NEW p \in Path, NEW node,
         node = "seq" => p \in Numbered, node \notin Inner => p \in Named
  PROVE  Allowed(Put(d, p, node))
<1>1. /\ p \in DOMAIN Put(d, p, node) /\ Put(d, p, node)[p] = node
      /\ \A q \in DOMAIN d : ~IsPrefix(p, q) => q \in DOMAIN Put(d, p, node) /\ Put(d, p, node)[q] = d[q]
      /\ \A q \in DOMAIN Put(d, p, node) : q = p \/ (q \in DOMAIN d /\ ~IsPrefix(p, q))
  BY PutIs
<1> QED
  BY <1>1 DEF Allowed

LEMMA AllowedFill ==
  ASSUME NEW d, IsTree(d), Allowed(d), NEW p \in DOMAIN d, d[p] = "seq", NEW part, IsNumeric(part)
  PROVE  Allowed(Fill(d, p, part))
<1>1. /\ \A q \in DOMAIN d : Fill(d, p, part)[q] = d[q]
      /\ \A q \in DOMAIN Fill(d, p, part) \ DOMAIN d : Fill(d, p, part)[q] = "map"
  BY FillIs
<1> QED
  BY <1>1 DEF Allowed, Inner

-----------------------------------------------------------------------------
(* The way to a key whose numerals name items.                             *)

LEMMA NumbersGo ==
  ASSUME NumbersNameItems, NEW key \in AllKeys, NEW m \in 1..(Len(key) - 1), To(key, m) \in Numbered
  PROVE  IsNumeric(key[m + 1]) /\ (m + 1 < Len(key) => To(key, m + 1) \notin Named)
BY DEF NumbersNameItems, To

\* A key that goes on with a numeral may make a sequence.
LEMMA NumbersMake ==
  ASSUME NEW key \in AllKeys, NEW m \in 1..(Len(key) - 1), IsNumeric(key[m + 1])
  PROVE  To(key, m) \in Numbered
<1>1. To(key, m) \in Turns(key)
  BY DEF To, Turns
<1>2. To(key, m) \in MadeSequences
  BY <1>1 DEF MadeSequences
<1> QED
  BY <1>2 DEF Numbered

\* The n-th place on the way to a key through the tree d.
WayGood(w, n, d, key) ==
  /\ w.at = To(key, n) /\ w.doc[w.at] \in Inner
  /\ Rooted(w.doc) /\ Allowed(w.doc) /\ Keeps(d, w.doc, key)

\* A sequence that the way has come to is gone on from by a numeral.
LEMMA AtSequence ==
  ASSUME NumbersNameItems, NEW key \in AllKeys, NEW n \in 1..Len(key), key \in Path,
         NEW d, Allowed(d), d[<<>>] = "map", To(key, n - 1) \in DOMAIN d, d[To(key, n - 1)] = "seq"
  PROVE  IsNumeric(key[n]) /\ (n < Len(key) => To(key, n) \notin Named)
<1>1. To(key, n - 1) \in Numbered
  BY DEF Allowed
<1>2. To(key, 0) = <<>>
  BY ToIs
<1>3. n - 1 # 0
  <2>1. ASSUME n - 1 = 0 PROVE FALSE
    <3>1. d[To(key, 0)] = "seq"
      BY <2>1
    <3> QED
      BY <1>2, <3>1
  <2> QED
    BY <2>1
<1>4. Len(key) \in Nat
  BY DEF Path
<1>5. PICK m \in 1..(Len(key) - 1) : m = n - 1
  BY <1>3, <1>4
<1>6. m + 1 = n
  BY <1>4, <1>5
<1>7. IsNumeric(key[m + 1]) /\ (m + 1 < Len(key) => To(key, m + 1) \notin Named)
  BY <1>1, <1>5, NumbersGo
<1> QED
  BY <1>6, <1>7

LEMMA IntoGood ==
  ASSUME NumbersNameItems, NEW key \in AllKeys, key \in Path, NEW d, NEW n \in 1..(Len(key) - 1),
         NEW w \in Places, WayGood(w, n - 1, d, key)
  PROVE  WayGood(Into(w, key[n], key[n + 1]), n, d, key)
<1> DEFINE part == key[n]
           next == key[n + 1]
           p == w.at
           child == Append(p, part)
           node == IF IsNumeric(next) THEN "seq" ELSE "map"
           e == Into(w, part, next)
<1>1. Len(key) \in Nat /\ n \in 1..Len(key) /\ n < Len(key)
  BY DEF Path
<1>2. IsTree(w.doc) /\ Typed(w.doc) /\ p \in DOMAIN w.doc /\ p \in Path /\ w.doc[<<>>] = "map" /\ DOMAIN w.doc \subseteq Path
  BY PlacesAre DEF Typed
<1>3. p = To(key, n - 1) /\ w.doc[p] \in Inner /\ Rooted(w.doc) /\ Allowed(w.doc) /\ Keeps(d, w.doc, key)
  BY DEF WayGood
<1>4. part \in STRING /\ child = To(key, n) /\ child \in Path /\ IsPrefix(child, key)
  <2>1. key[n] \in STRING /\ Append(To(key, n - 1), key[n]) = To(key, n) /\ n \in 0..Len(key)
    BY <1>1, ToIs
  <2>2. To(key, n) \in Path /\ IsPrefix(To(key, n), key)
    BY <2>1, ToIs
  <2> QED
    BY <1>3, <2>1, <2>2
<1>5. w.doc[p] = "seq" => IsNumeric(part) /\ child \notin Named
  BY <1>1, <1>2, <1>3, <1>4, AtSequence
<1>6. node \in STRING /\ node \in Inner /\ (node = "seq" => child \in Numbered)
  BY <1>4, LiteralsAre, NumbersMake DEF Inner
<1> HIDE DEF child, node
<1>7. CASE w.doc[p] = "seq" /\ IsNumeric(part)
  <2>1. e = [doc |-> Fill(w.doc, p, part), at |-> child]
    BY <1>7 DEF Into, child
  <2> DEFINE f == Fill(w.doc, p, part)
  <2>2. Rooted(f) /\ Allowed(f) /\ Keeps(w.doc, f, key)
    BY <1>2, <1>3, <1>7, RootedFill, AllowedFill, KeepsFill
  <2>3. /\ child \in DOMAIN f
        /\ \A q \in DOMAIN w.doc : f[q] = w.doc[q]
        /\ \A q \in DOMAIN f \ DOMAIN w.doc : f[q] = "map"
    BY <1>2, <1>7, FillIs DEF child
  <2> HIDE DEF f
  <2>4. f[child] \in Inner
    <3>1. CASE child \in DOMAIN w.doc
      BY <1>3, <1>5, <1>7, <2>3, <3>1 DEF Allowed
    <3>2. CASE child \notin DOMAIN w.doc
      BY <2>3, <3>2 DEF Inner
    <3> QED
      BY <3>1, <3>2
  <2>5. Keeps(d, f, key)
    BY <1>3, <2>2, KeepsOn
  <2>6. e.doc = f /\ e.at = child
    BY <2>1 DEF f
  <2> QED
    BY <1>4, <2>2, <2>4, <2>5, <2>6 DEF WayGood
<1>8. CASE w.doc[p] = "map" /\ child \in DOMAIN w.doc /\ w.doc[child] \in Inner
  <2>1. e = [doc |-> w.doc, at |-> child]
    BY <1>8 DEF Into, child
  <2> QED
    BY <1>3, <1>4, <1>8, <2>1 DEF WayGood
<1>9. CASE w.doc[p] = "map" /\ ~(child \in DOMAIN w.doc /\ w.doc[child] \in Inner)
  <2>1. e = [doc |-> Put(w.doc, child, node), at |-> child]
    BY <1>9 DEF Into, child, node
  <2> DEFINE f == Put(w.doc, child, node)
  <2>2. Rooted(f)
    BY <1>2, <1>3, <1>4, <1>6, RootedPut DEF child
  <2>3. Allowed(f)
    BY <1>2, <1>3, <1>4, <1>6, AllowedPut
  <2>4. \A q \in DOMAIN w.doc : IsPrefix(child, q) => Related(q, key)
    <3>1. ASSUME NEW q \in DOMAIN w.doc, IsPrefix(child, q) PROVE q = child
      BY <1>2, <1>3, <1>4, <1>9, <3>1, NothingBelow
    <3> QED
      BY <1>4, <3>1 DEF Related
  <2>5. Related(child, key)
    BY <1>4 DEF Related
  <2>6. Keeps(w.doc, f, key)
    BY <1>2, <1>4, <2>4, <2>5, KeepsPut
  <2>7. f[child] = node
    BY <1>2, <1>4, PutIs
  <2> HIDE DEF f
  <2>8. Keeps(d, f, key)
    BY <1>3, <2>6, KeepsOn
  <2>9. e.doc = f /\ e.at = child
    BY <2>1 DEF f
  <2> QED
    BY <1>4, <1>6, <2>2, <2>3, <2>7, <2>8, <2>9 DEF WayGood
<1>10. w.doc[p] = "map" \/ w.doc[p] = "seq"
  BY <1>3 DEF Inner
<1> QED
  BY <1>5, <1>7, <1>8, <1>9, <1>10

LEMMA AllKeysAre ==
  ASSUME NEW key \in AllKeys
  PROVE  key \in Path /\ key # <<>> /\ key \in Named
<1>1. CASE key \in Keys
  BY <1>1, ConfigAssumption DEF Named
<1>2. CASE key \in {<<"name">>, <<"llm_provider">>, <<"llm_model">>}
  <2>1. \A a : <<a>> # <<>>
    OBVIOUS
  <2> QED
    BY <1>2, <2>1, KeysArePaths DEF Named
<1>3. CASE key \in {Field(p, field) : p \in Providers, field \in {"base_url", "protocol", "api_key"}}
  <2>1. PICK p \in Providers, field \in {"base_url", "protocol", "api_key"} : key = Field(p, field)
    BY <1>3
  <2>2. \A a, b, c : <<a, b, c>> # <<>>
    OBVIOUS
  <2>3. p \in STRING
    BY ConfigAssumption
  <2>4. key \in Path
    BY <2>1, <2>3, KeysArePaths
  <2> QED
    BY <2>1, <2>2, <2>4 DEF Named, Field
<1> QED
  BY <1>1, <1>2, <1>3 DEF AllKeys

\* The last step of a write of a text.
LEMMA EndGood ==
  ASSUME NEW key \in AllKeys, key \in Path, NEW d, NEW f, Typed(f), Rooted(f), Allowed(f), Keeps(d, f, key),
         NEW p \in DOMAIN f, f[p] \in Inner, NEW part \in STRING, Append(p, part) = key, NEW value \in STRING \ Inner
  PROVE  LET e == Put(f, key, value) IN
         Rooted(e) /\ Allowed(e) /\ Keeps(d, e, key) /\ asString(e, key) = value
<1> DEFINE e == Put(f, key, value)
<1>1. DOMAIN f \subseteq Path
  BY DEF Typed
<1>2. Rooted(e)
  <2>1. Rooted(Put(f, Append(p, part), value))
    BY RootedPut
  <2> QED
    BY <2>1
<1>3. Allowed(e)
  BY <1>1, AllKeysAre, AllowedPut DEF Inner
<1>4. Keeps(f, e, key)
  BY <1>1, PrefixOrder, KeepsPut DEF Related
<1>5. key \in DOMAIN e /\ e[key] = value
  BY DEF Put
<1> HIDE DEF e
<1>6. Keeps(d, e, key)
  BY <1>4, KeepsOn
<1>7. asString(e, key) = value
  BY <1>5 DEF asString
<1> QED
  BY <1>2, <1>3, <1>6, <1>7 DEF e

LEMMA SetGood ==
  ASSUME NumbersNameItems, NEW key \in AllKeys, NEW d, IsTree(d), Rooted(d), Allowed(d), NEW value \in STRING \ Inner
  PROVE  LET e == setPath(d, key, value) IN
         Rooted(e) /\ Allowed(e) /\ Keeps(d, e, key) /\ asString(e, key) = value
<1> DEFINE steps == Len(key) - 1
<1>0. key \in Path /\ key # <<>>
  BY AllKeysAre
<1>1. <<>> \in DOMAIN d /\ d[<<>>] = "map"
  BY TreeIs
<1>2. [doc |-> d, at |-> <<>>] \in Places
  BY <1>1, PlaceIs
<1>3. /\ steps \in Nat /\ Way(d, key)[0] = [doc |-> d, at |-> <<>>]
      /\ \A n \in 0..steps : Way(d, key)[n] \in Places
      /\ \A n \in 1..steps : n - 1 \in 0..steps /\ Way(d, key)[n] = Into(Way(d, key)[n - 1], key[n], key[n + 1])
  BY <1>0, <1>2, WayIs
<1> DEFINE S == {n \in 0..steps : WayGood(Way(d, key)[n], n, d, key)}
<1>4. 0 \in S
  <2>1. Keeps(d, d, key)
    BY DEF Keeps
  <2>2. WayGood([doc |-> d, at |-> <<>>], 0, d, key)
    BY <1>0, <1>1, <2>1, ToIs DEF WayGood, Inner
  <2>3. 0 \in 0..steps
    BY <1>3
  <2> QED
    BY <1>3, <2>2, <2>3
<1>5. ASSUME NEW n \in 1..steps, n - 1 \in S PROVE n \in S
  <2>1. Way(d, key)[n - 1] \in Places /\ WayGood(Way(d, key)[n - 1], n - 1, d, key) /\ n \in 1..(Len(key) - 1)
    BY <1>3, <1>5
  <2>2. WayGood(Into(Way(d, key)[n - 1], key[n], key[n + 1]), n, d, key)
    BY <1>0, <2>1, IntoGood
  <2>3. n \in 0..steps
    BY <1>3
  <2> QED
    BY <1>3, <2>2, <2>3
<1> HIDE DEF S
<1>6. \A n \in 0..steps : n \in S
  BY <1>3, <1>4, <1>5, UpTo
<1> DEFINE end == Way(d, key)[steps]
           part == key[Len(key)]
           p == end.at
<1>7. steps \in 0..steps /\ Len(key) \in 1..Len(key)
  BY <1>3
<1>8. end \in Places /\ WayGood(end, steps, d, key)
  BY <1>3, <1>6, <1>7 DEF S
<1>9. part \in STRING /\ p = To(key, steps) /\ Append(p, part) = key
  <2>1. key[Len(key)] \in STRING /\ Append(To(key, Len(key) - 1), key[Len(key)]) = To(key, Len(key)) /\ To(key, Len(key)) = key
    BY <1>0, <1>7, ToIs
  <2> QED
    BY <1>8, <2>1 DEF WayGood
<1>10. setPath(d, key, value) =
         CASE end.doc[p] = "seq" /\ IsNumeric(part) -> Put(Fill(end.doc, p, part), Append(p, part), value)
           [] end.doc[p] = "map" -> Put(end.doc, Append(p, part), value)
           [] OTHER -> end.doc
  BY DEF setPath
<1>11. end.doc[p] = "seq" => IsNumeric(part)
  <2>1. end.doc[<<>>] = "map" /\ p \in DOMAIN end.doc /\ Allowed(end.doc)
    BY <1>8, PlacesAre DEF WayGood
  <2>2. Len(key) \in 1..Len(key)
    BY <1>7
  <2> QED
    BY <1>0, <1>9, <2>1, <2>2, AtSequence
<1>12. end.doc[p] \in Inner /\ Rooted(end.doc) /\ Allowed(end.doc) /\ Keeps(d, end.doc, key)
  BY <1>8 DEF WayGood
<1> HIDE DEF end, part
<1>13. IsTree(end.doc) /\ Typed(end.doc) /\ p \in DOMAIN end.doc
  BY <1>8, PlacesAre
<1> HIDE DEF p
<1>14. CASE end.doc[p] = "seq"
  <2> DEFINE f == Fill(end.doc, p, part)
  <2>1. setPath(d, key, value) = Put(f, key, value)
    BY <1>9, <1>10, <1>11, <1>14
  <2>2. Rooted(f) /\ Allowed(f) /\ Keeps(end.doc, f, key)
    BY <1>11, <1>12, <1>13, <1>14, RootedFill, AllowedFill, KeepsFill
  <2>3. IsTree(f) /\ p \in DOMAIN f /\ f[p] = end.doc[p]
    BY <1>11, <1>13, <1>14, FillIs
  <2> HIDE DEF f
  <2>4. Typed(f) /\ Keeps(d, f, key)
    BY <1>12, <2>2, <2>3, TreeIs, KeepsOn
  <2>5. f[p] \in Inner
    BY <1>12, <2>3
  <2> QED
    BY <1>0, <1>9, <2>1, <2>2, <2>3, <2>4, <2>5, EndGood
<1>15. CASE end.doc[p] = "map"
  <2>1. end.doc[p] # "seq"
    BY <1>15
  <2>2. setPath(d, key, value) = Put(end.doc, key, value)
    BY <1>9, <1>10, <1>15, <2>1
  <2> QED
    BY <1>0, <1>9, <1>12, <1>13, <2>2, EndGood
<1> QED
  BY <1>12, <1>14, <1>15 DEF Inner

LEMMA DeleteGood ==
  ASSUME NEW d, IsTree(d), Rooted(d), Allowed(d), NEW key \in Path, key # <<>>, CanDelete(d, key)
  PROVE  LET e == deletePath(d, key) IN Rooted(e) /\ Allowed(e) /\ Keeps(d, e, key)
<1> DEFINE e == deletePath(d, key)
<1>1. /\ \A q : q \in DOMAIN e <=> q \in DOMAIN d /\ ~IsPrefix(key, q)
      /\ \A q \in DOMAIN e : e[q] = d[q]
  BY DeleteIs
<1>2. Rooted(e)
  BY RootedDelete
<1> HIDE DEF e
<1>3. Allowed(e)
  BY <1>1 DEF Allowed
<1>4. Keeps(d, e, key)
  BY <1>1 DEF Keeps, Related
<1> QED
  BY <1>2, <1>3, <1>4 DEF e

-----------------------------------------------------------------------------
(* Pins write below "pinned" only.                                         *)

LEMMA PinnedItemIs ==
  ASSUME NEW n \in Nat, n < Len(Numerals)
  PROVE  /\ Item(<<"pinned">>, n) \in Path /\ Item(<<"pinned">>, n) \in Named
         /\ IsPrefix(<<"pinned">>, Item(<<"pinned">>, n))
         /\ \E x \in STRING : Item(<<"pinned">>, n) = Append(<<"pinned">>, x)
<1> DEFINE at == <<"pinned">>
<1>1. at \in Path
  BY KeysArePaths
<1>2. PICK m \in 1..Len(Numerals) : m = n + 1
  BY NumeralsAre
<1>3. PICK x \in STRING : x = Numerals[m] /\ IsNumeric(x)
  BY NumeralsAre
<1>4. \A a, b : <<a, b>> = Append(<<a>>, b)
  OBVIOUS
<1>5. Item(at, n) = Append(at, x) /\ Item(at, n) = <<"pinned", x>>
  BY <1>2, <1>3, <1>4 DEF Item
<1>6. Item(at, n) \in Named
  BY <1>3, <1>5 DEF Named, PinnedItems, IsNumeric
<1> HIDE DEF at
<1>7. IsPrefix(at, Append(at, x)) /\ Append(at, x) \in Path
  BY <1>1, AboveChild, AppendIs
<1> QED
  BY <1>5, <1>6, <1>7 DEF at

LEMMA BelowPinned ==
  ASSUME NEW p \in Path, IsPrefix(<<"pinned">>, p), NEW q \in Path, IsPrefix(p, q)
  PROVE  Related(q, <<"pinned">>)
BY KeysArePaths, PrefixOrder DEF Related

LEMMA PutPinnedGood ==
  ASSUME NEW d, NEW size, Pinnable(d, size), size < Len(Numerals), Rooted(d), Allowed(d), NEW clip \in Clips
  PROVE  LET e == Put(d, Item(<<"pinned">>, size), clip) IN
         Rooted(e) /\ Allowed(e) /\ Keeps(d, e, <<"pinned">>)
<1> DEFINE at == <<"pinned">>
           item == Item(at, size)
<1>1. at \in DOMAIN d /\ d[at] = "seq" /\ Typed(d) /\ DOMAIN d \subseteq Path /\ size \in Nat /\ at \in Path
  BY KeysArePaths, NumeralsAre, TreeIs DEF Pinnable, Typed
<1>2. item \in Path /\ item \in Named /\ IsPrefix(at, item) /\ \E x \in STRING : item = Append(at, x)
  BY <1>1, PinnedItemIs
<1>3. clip \in STRING \ Inner
  BY ConfigAssumption DEF Inner
<1>4. \A q \in DOMAIN d : IsPrefix(item, q) => Related(q, at)
  BY <1>1, <1>2, BelowPinned
<1>5. Related(item, at)
  BY <1>2 DEF Related
<1> HIDE DEF at, item
<1>6. PICK x \in STRING : item = Append(at, x)
  BY <1>2
<1>7. Rooted(Put(d, Append(at, x), clip))
  BY <1>1, <1>3, RootedPut DEF Inner
<1>8. Allowed(Put(d, item, clip))
  BY <1>1, <1>2, <1>3, AllowedPut DEF Inner
<1>9. Keeps(d, Put(d, item, clip), at)
  BY <1>1, <1>2, <1>4, <1>5, KeepsPut
<1> QED
  BY <1>6, <1>7, <1>8, <1>9 DEF at, item

LEMMA MadePinnableGood ==
  ASSUME NEW d, IsTree(d), Rooted(d), Allowed(d)
  PROVE  LET e == Put(d, <<"pinned">>, "seq") IN Rooted(e) /\ Allowed(e) /\ Keeps(d, e, <<"pinned">>)
<1> DEFINE at == <<"pinned">>
<1>1. Typed(d) /\ DOMAIN d \subseteq Path /\ <<>> \in DOMAIN d /\ d[<<>>] \in Inner /\ at \in Path
  BY KeysArePaths, TreeIs DEF Typed, Inner
<1>2. at = Append(<<>>, "pinned") /\ "pinned" \in STRING /\ "seq" \in STRING /\ "seq" \in Inner
  <2>1. \A a : <<a>> = Append(<<>>, a)
    OBVIOUS
  <2> QED
    BY <2>1, LiteralsAre DEF Inner
<1>3. at \in Numbered
  BY DEF Numbered
<1> HIDE DEF at
<1>4. Rooted(Put(d, at, "seq"))
  <2>1. Rooted(Put(d, Append(<<>>, "pinned"), "seq"))
    BY <1>1, <1>2, RootedPut
  <2> QED
    BY <1>2, <2>1
<1>5. Allowed(Put(d, at, "seq"))
  BY <1>1, <1>2, <1>3, AllowedPut
<1>6. Keeps(d, Put(d, at, "seq"), at)
  <2>1. Related(at, at)
    BY <1>1, PrefixOrder DEF Related
  <2>2. \A q \in DOMAIN d : IsPrefix(at, q) => Related(q, at)
    BY DEF Related
  <2> QED
    BY <1>1, <2>1, <2>2, KeepsPut
<1> QED
  BY <1>4, <1>5, <1>6 DEF at

LEMMA AddGood ==
  ASSUME NEW d, IsTree(d), Rooted(d), Allowed(d), NEW clip \in Clips,
         Cardinality(Children(d, <<"pinned">>)) < Len(Numerals)
  PROVE  LET e == addPinnedClip(d, clip) IN Rooted(e) /\ Allowed(e) /\ Keeps(d, e, <<"pinned">>)
<1>1. CASE <<"pinned">> \in DOMAIN d /\ d[<<"pinned">>] = "seq"
  <2>1. PICK size : Pinnable(d, size) /\ Cardinality(Children(d, <<"pinned">>)) = size
    BY <1>1, PinnableIs
  <2>2. addPinnedClip(d, clip) = Put(d, Item(<<"pinned">>, size), clip)
    BY <1>1, <2>1 DEF addPinnedClip
  <2> QED
    BY <2>1, <2>2, PutPinnedGood
<1>2. ASSUME ~(<<"pinned">> \in DOMAIN d /\ d[<<"pinned">>] = "seq")
      PROVE  LET e == addPinnedClip(d, clip) IN Rooted(e) /\ Allowed(e) /\ Keeps(d, e, <<"pinned">>)
  <2> DEFINE f == Put(d, <<"pinned">>, "seq")
  <2>1. Pinnable(f, 0)
    BY <1>2, MadePinnable
  <2>2. addPinnedClip(d, clip) = Put(f, Item(<<"pinned">>, Cardinality(Children(f, <<"pinned">>))), clip)
    BY <1>2 DEF addPinnedClip
  <2>3. Rooted(f) /\ Allowed(f) /\ Keeps(d, f, <<"pinned">>)
    BY MadePinnableGood
  <2> HIDE DEF f
  <2>4. 0 < Len(Numerals)
    <3>1. Numerals \in Seq(STRING) /\ Numerals # <<>>
      BY ConfigAssumption DEF Path
    <3> QED
      BY <3>1, EmptySeq
  <2>5. Cardinality(Children(f, <<"pinned">>)) = 0
    BY <2>1, CountIs, KeysArePaths DEF Pinnable
  <2> DEFINE e == Put(f, Item(<<"pinned">>, 0), clip)
  <2>6. Rooted(e) /\ Allowed(e) /\ Keeps(f, e, <<"pinned">>)
    BY <2>1, <2>3, <2>4, PutPinnedGood
  <2>7. addPinnedClip(d, clip) = e
    BY <2>2, <2>5
  <2> HIDE DEF e
  <2>8. Keeps(d, e, <<"pinned">>)
    BY <2>3, <2>6, KeepsOn
  <2> QED
    BY <2>6, <2>7, <2>8
<1> QED
  BY <1>1, <1>2

\* What is below an item that moves up is the item itself, and a text.
LEMMA BelowItem ==
  ASSUME NumbersNameItems, NEW d, DOMAIN d \subseteq Path, Allowed(d),
         NEW k \in Nat, k < Len(Numerals), NEW r \in DOMAIN d, IsPrefix(Item(<<"pinned">>, k), r)
  PROVE  d[r] # "seq" /\ (d[r] \notin Inner => r = Item(<<"pinned">>, k))
<1> DEFINE at == <<"pinned">>
           item == Item(at, k)
<1>1. at \in Path /\ item \in Path /\ Len(at) = 1 /\ at[1] = "pinned" /\ IsPrefix(at, item) /\ \E x \in STRING : item = Append(at, x)
  BY KeysArePaths, PinnedItemIs
<1> HIDE DEF at, item
<1>2. r \in Path /\ IsPrefix(item, r)
  BY DEF at, item
<1>3. Len(item) = 2 /\ item[1] = "pinned"
  <2>1. PICK x \in STRING : item = Append(at, x)
    BY <1>1
  <2>2. Len(Append(at, x)) = Len(at) + 1 /\ \A i \in 1..Len(at) : Append(at, x)[i] = at[i]
    BY <1>1, AppendIs
  <2>3. 1 \in 1..Len(at)
    BY <1>1
  <2> QED
    BY <1>1, <2>1, <2>2, <2>3
<1>4. Len(item) <= Len(r) /\ \A i \in 1..Len(item) : item[i] = r[i]
  BY <1>1, <1>2, PrefixIs
<1>8. Len(r) \in Nat /\ Len(r) >= 2
  BY <1>2, <1>3, <1>4 DEF Path
<1>5. r[1] = "pinned"
  <2>1. 1 \in 1..Len(item)
    BY <1>3
  <2> QED
    BY <1>3, <1>4, <2>1
<1>6. ASSUME d[r] = "seq" PROVE FALSE
  <2>1. r \in Numbered
    BY <1>6 DEF Allowed
  <2>2. Len(r) = 1
    BY <1>5, <2>1 DEF NumbersNameItems
  <2> QED
    BY <1>8, <2>2
<1>7. ASSUME d[r] \notin Inner PROVE r = item
  <2>1. r \in Named
    BY <1>7 DEF Allowed
  <2>2. Len(r) <= 2
    BY <1>5, <2>1 DEF NumbersNameItems
  <2>3. Len(item) = Len(r)
    <3>1. \A a \in Nat : a >= 2 /\ a <= 2 => a = 2
      OBVIOUS
    <3>2. Len(r) = 2
      BY <1>8, <2>2, <3>1, Zenon
    <3> QED
      BY <1>3, <3>2, Zenon
  <2> QED
    BY <1>1, <1>2, <1>4, <2>3, PathEqual
<1> QED
  BY <1>6, <1>7 DEF item, at

LEMMA UnpinGood ==
  ASSUME NumbersNameItems, NEW d, IsTree(d), Rooted(d), Allowed(d), NEW clip \in Clips, IsPinned(d, clip),
         NEW n, FirstPosition(d, clip, n)
  PROVE  LET e == RemoveItem(d, <<"pinned">>, n) IN Rooted(e) /\ Allowed(e) /\ Keeps(d, e, <<"pinned">>)
<1> DEFINE at == <<"pinned">>
           e == RemoveItem(d, at, n)
<1>1. at \in DOMAIN d /\ d[at] = "seq" /\ Typed(d) /\ DOMAIN d \subseteq Path /\ at \in Path
  BY KeysArePaths, TreeIs DEF IsPinned, Typed
<1>2. PICK size : Pinnable(d, size) /\ Cardinality(Children(d, at)) = size
  BY <1>1, PinnableIs
<1>3. n \in 0..(size - 1) /\ size \in 0..Len(Numerals) /\ Counted(d, at, size)
  BY <1>2 DEF FirstPosition, Positions, Pinnable
<1>4. \A k \in n..(size - 1) : k \in Nat /\ k < Len(Numerals)
  BY <1>3, NumeralsAre
<1>5. \A k \in (n + 1)..(size - 1) : k \in Nat \ {0} /\ k \in Nat /\ k < Len(Numerals) /\ k - 1 \in Nat /\ k - 1 < Len(Numerals)
  BY <1>3, NumeralsAre
<1>6. \A k \in Nat : k < Len(Numerals) => Item(at, k) \in Path /\ Item(at, k) \in Named /\ IsPrefix(at, Item(at, k))
  BY PinnedItemIs
<1>7. \A k \in Nat : k < Len(Numerals) => \A r \in DOMAIN d : IsPrefix(Item(at, k), r) =>
        d[r] # "seq" /\ (d[r] \notin Inner => r = Item(at, k))
  BY <1>1, BelowItem
<1> HIDE DEF at
<1>8. Rooted(e)
  BY <1>1, <1>3, RootedRemove
<1>9. /\ \A q \in DOMAIN d : (\A k \in n..(size - 1) : ~IsPrefix(Item(at, k), q)) => q \in DOMAIN e /\ e[q] = d[q]
      /\ \A k \in (n + 1)..(size - 1) : \A r \in DOMAIN d : IsPrefix(Item(at, k), r) =>
           Up(at, k, r) \in DOMAIN e /\ e[Up(at, k, r)] = d[r]
      /\ \A q \in DOMAIN e :
           \/ q \in DOMAIN d /\ \A k \in n..(size - 1) : ~IsPrefix(Item(at, k), q)
           \/ \E k \in (n + 1)..(size - 1) : \E r \in DOMAIN d : IsPrefix(Item(at, k), r) /\ q = Up(at, k, r)
  BY <1>1, <1>3, RemoveIs
<1> HIDE DEF e
\* What moves up: the item before is there, if it is a text.
<1>10. ASSUME NEW k \in (n + 1)..(size - 1), NEW r \in DOMAIN d, IsPrefix(Item(at, k), r)
       PROVE  /\ Related(Up(at, k, r), at) /\ e[Up(at, k, r)] = d[r] /\ d[r] # "seq"
              /\ d[r] \notin Inner => Up(at, k, r) \in Named
  <2>1. k \in Nat \ {0} /\ k < Len(Numerals) /\ k - 1 \in Nat /\ k - 1 < Len(Numerals) /\ r \in Path
    BY <1>1, <1>5
  <2>2. Up(at, k, r) \in Path /\ IsPrefix(Item(at, k - 1), Up(at, k, r)) /\ Len(Up(at, k, r)) = Len(r)
    BY <1>1, <1>10, <2>1, UpIs
  <2>3. Related(Up(at, k, r), at)
    <3>1. PICK j \in Nat : j = k - 1 /\ j < Len(Numerals)
      BY <2>1
    <3>2. IsPrefix(at, Item(at, j)) /\ Item(at, j) \in Path /\ IsPrefix(Item(at, j), Up(at, k, r))
      BY <1>6, <2>2, <3>1
    <3> QED
      BY <1>1, <2>2, <3>2, PrefixOrder DEF Related
  <2>4. d[r] # "seq" /\ (d[r] \notin Inner => r = Item(at, k))
    BY <1>7, <1>10, <2>1
  <2>5. ASSUME d[r] \notin Inner PROVE Up(at, k, r) \in Named
    <3>1. PICK j \in Nat : j = k - 1 /\ j < Len(Numerals)
      BY <2>1
    <3>2. r = Item(at, k) /\ Item(at, j) \in Path /\ Item(at, j) \in Named /\ IsPrefix(Item(at, j), Up(at, k, r))
      BY <1>6, <2>2, <2>4, <2>5, <3>1
    <3>3. Len(Item(at, j)) = Len(r)
      <4>1. \A i \in Nat : i < Len(Numerals) => Len(Item(at, i)) = Len(at) + 1
        <5>1. ASSUME NEW i \in Nat, i < Len(Numerals) PROVE Len(Item(at, i)) = Len(at) + 1
          <6>1. PICK x \in STRING : Item(at, i) = Append(at, x)
            BY <1>1, <5>1, ItemIs
          <6> QED
            BY <1>1, <6>1, AppendIs
        <5> QED
          BY <5>1
      <4> QED
        BY <2>1, <3>1, <3>2, <4>1
    <3>4. \A i \in 1..Len(Item(at, j)) : Item(at, j)[i] = Up(at, k, r)[i]
      BY <2>2, <3>2, PrefixIs
    <3>5. Up(at, k, r) = Item(at, j)
      BY <2>2, <3>2, <3>3, <3>4, PathEqual
    <3> QED
      BY <3>2, <3>5
  <2> QED
    BY <1>9, <1>10, <2>3, <2>4, <2>5
<1>11. Allowed(e)
  <2>1. ASSUME NEW q \in DOMAIN e PROVE (e[q] = "seq" => q \in Numbered) /\ (e[q] \notin Inner => q \in Named)
    <3>1. CASE q \in DOMAIN d /\ \A k \in n..(size - 1) : ~IsPrefix(Item(at, k), q)
      BY <1>9, <3>1 DEF Allowed
    <3>2. CASE \E k \in (n + 1)..(size - 1) : \E r \in DOMAIN d : IsPrefix(Item(at, k), r) /\ q = Up(at, k, r)
      BY <1>10, <3>2
    <3> QED
      BY <1>9, <3>1, <3>2
  <2> QED
    BY <2>1 DEF Allowed
<1>12. Keeps(d, e, at)
  <2>1. ASSUME NEW q \in DOMAIN d, ~Related(q, at) PROVE q \in DOMAIN e /\ e[q] = d[q]
    <3>1. ASSUME NEW k \in n..(size - 1), IsPrefix(Item(at, k), q) PROVE FALSE
      <4>1. Item(at, k) \in Path /\ IsPrefix(at, Item(at, k)) /\ q \in Path
        BY <1>1, <1>4, <1>6
      <4> QED
        BY <1>1, <2>1, <3>1, <4>1, PrefixOrder DEF Related
    <3> QED
      BY <1>9, <3>1
  <2>2. ASSUME NEW q \in DOMAIN e, ~Related(q, at) PROVE q \in DOMAIN d /\ d[q] = e[q]
    BY <1>9, <1>10, <2>2
  <2> QED
    BY <2>1, <2>2 DEF Keeps
<1> QED
  BY <1>8, <1>11, <1>12 DEF e, at

-----------------------------------------------------------------------------
(* Every write is of its key.                                              *)

KnownRequests == {w \in Requests : w.op = "set" => w.key \in AllKeys /\ w.value \notin Inner}
IsKnown(todo) == todo \in Seq(KnownRequests)
Refused(todo) == todo # <<>> /\ Head(todo).op = "set" /\ Head(todo).value = ""

Sound(d) == Rooted(d) /\ Allowed(d)

\* What a write of w makes of a tree.
Told(w, d, e) ==
  /\ w.op = "set" /\ w.key # <<"pinned">> => asString(e, w.key) = w.value
  /\ w.key # <<>> => Keeps(d, e, w.key)

StepGood == Sound(doc') /\ (UNCHANGED <<doc, last>> \/ Told(last', doc, doc'))

WriteInv ==
  /\ Sound(doc) /\ \A h \in Handlers : IsKnown(handlers[h].todo)
  /\ IsKnown(setup.todo) \/ Refused(setup.todo)

LEMMA ApplyGood ==
  ASSUME NumbersNameItems, IsTree(doc), Sound(doc), NEW who, NEW w \in KnownRequests, w.key # <<>>,
         w.op = "delete" => CanDelete(doc, w.key), Apply(who, w)
  PROVE  StepGood
<1>1. w \in Requests /\ w.key \in Path /\ Rooted(doc) /\ Allowed(doc) /\ last' = w
  BY DEF KnownRequests, Requests, Sound, Apply, Write
<1>2. CASE w.op = "set"
  <2>1. w.key \in AllKeys /\ w.value \in STRING \ Inner
    BY <1>2 DEF KnownRequests, Requests
  <2>2. doc' = setPath(doc, w.key, w.value)
    BY <1>2 DEF Apply, Write
  <2> DEFINE e == setPath(doc, w.key, w.value)
  <2>3. Rooted(e) /\ Allowed(e) /\ Keeps(doc, e, w.key) /\ asString(e, w.key) = w.value
    BY <1>1, <2>1, SetGood
  <2> HIDE DEF e
  <2>4. doc' = e
    BY <2>2 DEF e
  <2> QED
    BY <1>1, <2>3, <2>4 DEF StepGood, Sound, Told
<1>3. CASE w.op # "set"
  <2>1. w.op = "delete"
    BY <1>1, <1>3 DEF Requests
  <2>2. doc' = deletePath(doc, w.key)
    BY <1>3 DEF Apply, Write
  <2> DEFINE e == deletePath(doc, w.key)
  <2>3. Rooted(e) /\ Allowed(e) /\ Keeps(doc, e, w.key)
    BY <1>1, <2>1, DeleteGood
  <2> HIDE DEF e
  <2>4. doc' = e
    BY <2>2 DEF e
  <2> QED
    BY <1>1, <1>3, <2>3, <2>4 DEF StepGood, Sound, Told
<1> QED
  BY <1>2, <1>3

LEMMA AcceptedGood ==
  ASSUME NumbersNameItems, IsTree(doc), Sound(doc), NEW who, NEW w \in KnownRequests, Accepted(w), Apply(who, w)
  PROVE  StepGood
<1>1. w.op \in {"set", "delete"}
  BY DEF KnownRequests, Requests
<1>2. w.key # <<>> /\ (w.op = "delete" => CanDelete(doc, w.key))
  BY <1>1 DEF Accepted
<1> QED
  BY <1>2, ApplyGood

LEMMA KnownIs ==
  /\ \A key \in AllKeys, value \in STRING \ Inner : Set(key, value) \in KnownRequests
  /\ \A key \in Path : Delete(key) \in KnownRequests
  /\ "x" \in STRING \ Inner /\ "" \in STRING \ Inner /\ Providers \subseteq STRING \ Inner
  /\ <<"name">> \in AllKeys /\ <<"llm_provider">> \in AllKeys /\ <<"llm_model">> \in AllKeys
  /\ \A p \in Providers : /\ Field(p, "base_url") \in AllKeys /\ Field(p, "protocol") \in AllKeys
                          /\ Field(p, "api_key") \in AllKeys /\ <<"providers", p>> \in Path
<1>1. ASSUME NEW key \in AllKeys, NEW value \in STRING \ Inner PROVE Set(key, value) \in KnownRequests
  <2>1. Set(key, value) \in Requests
    BY AllKeysAre, RequestIs
  <2>2. Set(key, value).key = key /\ Set(key, value).value = value
    BY DEF Set
  <2> QED
    BY <1>1, <2>1, <2>2 DEF KnownRequests
<1>2. ASSUME NEW key \in Path PROVE Delete(key) \in KnownRequests
  <2>1. Delete(key) \in Requests
    BY RequestIs
  <2>2. Delete(key).op # "set"
    BY DEF Delete
  <2> QED
    BY <2>1, <2>2 DEF KnownRequests
<1>3. "x" \in STRING \ Inner /\ "" \in STRING \ Inner /\ Providers \subseteq STRING \ Inner
  BY ConfigAssumption, LiteralsAre DEF Inner
<1>4. <<"name">> \in AllKeys /\ <<"llm_provider">> \in AllKeys /\ <<"llm_model">> \in AllKeys
  BY DEF AllKeys
<1>5. \A p \in Providers : /\ Field(p, "base_url") \in AllKeys /\ Field(p, "protocol") \in AllKeys
                           /\ Field(p, "api_key") \in AllKeys /\ <<"providers", p>> \in Path
  <2>1. \A p \in Providers : \A f \in {"base_url", "protocol", "api_key"} : Field(p, f) \in AllKeys
    BY DEF AllKeys
  <2>2. \A p \in Providers : <<"providers", p>> \in Path
    BY <1>3, KeysArePaths
  <2> QED
    BY <2>1, <2>2
<1> QED
  BY <1>1, <1>2, <1>3, <1>4, <1>5

LEMMA KnownTodo ==
  ASSUME NEW todo, IsKnown(todo)
  PROVE  IsKnown(<<>>) /\ (todo # <<>> => Head(todo) \in KnownRequests /\ IsKnown(Tail(todo)))
BY HeadTailProperties, EmptySeq DEF IsKnown

LEMMA ActKnown ==
  ASSUME DOMAIN panel.shown.providers \subseteq Providers,
         NEW todo \in handleSet \cup handleAddProvider \cup handleDeleteProvider \cup Reset
  PROVE  IsKnown(todo)
<1>1. \A w \in KnownRequests : IsKnown(<<w>>)
  BY DEF IsKnown
<1>2. CASE todo \in handleSet
  <2>1. CASE todo \in {<<Set(<<"name">>, v)>> : v \in {"", "x"} \ {panel.shown.name}}
    <3>1. PICK v \in {"", "x"} : todo = <<Set(<<"name">>, v)>>
      BY <2>1
    <3>2. v \in STRING \ Inner
      BY KnownIs
    <3> QED
      BY <1>1, <3>1, <3>2, KnownIs
  <2>2. CASE todo \in {<<Set(<<"llm_provider">>, p)>> : p \in DOMAIN panel.shown.providers \cup {""}}
    <3>1. PICK p \in DOMAIN panel.shown.providers \cup {""} : todo = <<Set(<<"llm_provider">>, p)>>
      BY <2>2
    <3>2. p \in STRING \ Inner
      BY KnownIs
    <3> QED
      BY <1>1, <3>1, <3>2, KnownIs
  <2>3. CASE todo \in {<<Set(Field(p, "api_key"), "x")>> : p \in DOMAIN panel.shown.providers}
    <3>1. PICK p \in Providers : todo = <<Set(Field(p, "api_key"), "x")>>
      BY <2>3
    <3> QED
      BY <1>1, <3>1, KnownIs
  <2> QED
    BY <1>2, <2>1, <2>2, <2>3 DEF handleSet
<1>3. CASE todo \in handleAddProvider
  <2>1. PICK p \in Providers : todo = <<Set(Field(p, "base_url"), "x"), Set(Field(p, "protocol"), "x"), Set(Field(p, "api_key"), "")>>
    BY <1>3 DEF handleAddProvider
  <2>2. Set(Field(p, "base_url"), "x") \in KnownRequests /\ Set(Field(p, "protocol"), "x") \in KnownRequests
    BY KnownIs
  <2>3. Set(Field(p, "api_key"), "") \in KnownRequests
    BY KnownIs
  <2>4. \A a, b, c \in KnownRequests : <<a, b, c>> \in Seq(KnownRequests)
    BY TuplesAre
  <2> QED
    BY <2>1, <2>2, <2>3, <2>4 DEF IsKnown
<1>4. CASE todo \in handleDeleteProvider
  <2>1. PICK p \in Providers :
          todo = <<Delete(<<"providers", p>>)>> \o
                   (IF panel.shown.llm_provider = p THEN <<Set(<<"llm_provider">>, "")>> ELSE <<>>)
    BY <1>4 DEF handleDeleteProvider
  <2>2. IsKnown(<<Delete(<<"providers", p>>)>>)
    BY <1>1, KnownIs
  <2>3. IsKnown(<<Set(<<"llm_provider">>, "")>>)
    BY <1>1, KnownIs
  <2>4. IsKnown(<<>>)
    BY DEF IsKnown
  <2>5. IsKnown(IF panel.shown.llm_provider = p THEN <<Set(<<"llm_provider">>, "")>> ELSE <<>>)
    BY <2>3, <2>4
  <2>6. \A s, t \in Seq(KnownRequests) : s \o t \in Seq(KnownRequests)
    BY ConcatProperties
  <2> QED
    BY <2>1, <2>2, <2>5, <2>6 DEF IsKnown
<1>5. CASE todo \in Reset
  <2>1. todo = <<Delete(<<>>)>> /\ <<>> \in Path
    BY <1>5 DEF Reset, Path
  <2> QED
    BY <1>1, <2>1, KnownIs
<1> QED
  BY <1>2, <1>3, <1>4, <1>5

LEMMA AsksKnown ==
  ASSUME NEW p \in Presets, NEW list, Asks(p, list), NEW m \in 1..Len(list)
  PROVE  list[m] \in KnownRequests
<1>1. p \in Providers /\ p \in STRING \ Inner /\ "x" \in STRING \ Inner
  BY ConfigAssumption, LiteralsAre DEF Inner
<1>2. \A f \in Fields : Set(Field(p, f), "x") \in KnownRequests
  BY <1>1, KnownIs DEF Fields
<1>3. \A part \in {"llm_provider", "llm_model", "name"}, value \in {"x", p} : Set(<<part>>, value) \in KnownRequests
  BY <1>1, KnownIs
<1>4. m \in Nat /\ m \in {1, 2, 3, 4, 5, 6} /\ (m = 6 => Len(list) = 6)
  <2>1. Len(list) = 5 \/ Len(list) = 6
    BY DEF Asks
  <2> QED
    BY <2>1, SixAre
<1> QED
  BY <1>2, <1>3, <1>4 DEF Asks, Fields

LEMMA AllOf ==
  ASSUME NEW S, NEW T, NEW list \in Seq(S), \A m \in 1..Len(list) : list[m] \in T
  PROVE  list \in Seq(T)
OBVIOUS

LEMMA SetupKnown ==
  ASSUME NEW p \in STRING, NEW list, Asks(p, list)
  PROVE  IsKnown(list) \/ Refused(list)
<1>1. list \in Seq(Requests)
  BY DEF Asks
<1>2. CASE p \in Presets
  <2>1. \A m \in 1..Len(list) : list[m] \in KnownRequests
    BY <1>2, AsksKnown
  <2> QED
    BY <1>1, <2>1, AllOf DEF IsKnown
<1>3. CASE p \notin Presets
  <2>1. list[1] = Set(Field(p, "base_url"), "")
    BY <1>3 DEF Asks
  <2>2. Len(list) = 5 \/ Len(list) = 6
    BY DEF Asks
  <2>3. list # <<>> /\ Head(list) = list[1]
    BY <1>1, <2>2
  <2>4. Head(list).op = "set" /\ Head(list).value = ""
    <3>1. \A k, v : Set(k, v).op = "set" /\ Set(k, v).value = v
      BY DEF Set
    <3>2. Head(list) = Set(Field(p, "base_url"), "")
      BY <2>1, <2>3, Zenon
    <3> QED
      BY <3>1, <3>2, Zenon
  <2> QED
    BY <2>3, <2>4 DEF Refused
<1> QED
  BY <1>2, <1>3

LEMMA FirstAllowed ==
  ASSUME NEW tree \in FirstTrees \cup {Seed}
  PROVE  Allowed(tree)
<1>1. ASSUME NEW p \in DOMAIN tree, tree[p] = "seq" PROVE p \in Numbered
  <2>1. p \in FirstSequences
    BY <1>1 DEF FirstSequences
  <2> QED
    BY <2>1 DEF Numbered
<1>2. ASSUME NEW p \in DOMAIN tree, tree[p] \notin Inner PROVE p \in Named
  <2>1. p \in FirstTexts
    BY <1>2 DEF FirstTexts, Texts
  <2> QED
    BY <2>1 DEF Named
<1> QED
  BY <1>1, <1>2 DEF Allowed

LEMMA CommandGood ==
  ASSUME NumbersNameItems, TreeInv, WriteInv, runConfig
  PROVE  StepGood
<1>1. IsTree(doc) /\ Sound(doc)
  BY DEF TreeInv, WriteInv
<1>5. Keys \subseteq AllKeys
  BY DEF AllKeys
<1>2. ASSUME NEW key \in Keys, NEW value \in {"", "x"}, Apply("command", Set(key, value)) PROVE StepGood
  <2>1. Set(key, value) \in KnownRequests
    <3>1. key \in AllKeys
      BY <1>5
    <3>2. value \in STRING \ Inner
      BY KnownIs
    <3> QED
      BY <3>1, <3>2, KnownIs
  <2>2. Set(key, value).key # <<>> /\ (Set(key, value).op = "delete" => CanDelete(doc, Set(key, value).key))
    BY ConfigAssumption DEF Set
  <2> QED
    BY <1>1, <1>2, <2>1, <2>2, ApplyGood
<1>3. ASSUME NEW key \in Keys, CanDelete(doc, key), Apply("command", Delete(key)) PROVE StepGood
  <2>1. key \in Path /\ key # <<>>
    BY ConfigAssumption
  <2>2. Delete(key) \in KnownRequests
    BY <2>1, KnownIs
  <2>3. Delete(key).key # <<>> /\ (Delete(key).op = "delete" => CanDelete(doc, Delete(key).key))
    BY <1>3, <2>1 DEF Delete
  <2> QED
    BY <1>1, <1>3, <2>2, <2>3, ApplyGood
<1>4. ASSUME Write("command", Delete(<<>>), Seed) PROVE StepGood
  <2>1. doc' = Seed /\ last' = Delete(<<>>)
    BY <1>4 DEF Write
  <2>2. Rooted(Seed)
    BY ConfigAssumption
  <2>3. Allowed(Seed)
    BY FirstAllowed
  <2>4. Delete(<<>>).op # "set" /\ Delete(<<>>).key = <<>>
    BY DEF Delete
  <2> QED
    BY <2>1, <2>2, <2>3, <2>4 DEF StepGood, Sound, Told
<1> QED
  BY <1>2, <1>3, <1>4 DEF runConfig

LEMMA RunGood ==
  ASSUME NumbersNameItems, TreeInv, WriteInv, pkgPin \/ pkgUnpin
  PROVE  StepGood
<1>1. IsTree(doc) /\ Rooted(doc) /\ Allowed(doc)
  BY DEF TreeInv, WriteInv, Sound
<1>2. CASE pkgPin
  <2>1. PICK clip \in Clips :
          IF IsPinned(doc, clip) THEN UNCHANGED <<doc, last, alone>>
          ELSE /\ Cardinality(Children(doc, <<"pinned">>)) < Len(Numerals)
               /\ Write("run", Set(<<"pinned">>, clip), addPinnedClip(doc, clip))
    BY <1>2 DEF pkgPin
  <2>2. CASE IsPinned(doc, clip)
    <3>1. doc' = doc /\ last' = last
      BY <2>1, <2>2
    <3> QED
      BY <1>1, <3>1 DEF StepGood, Sound
  <2>3. CASE ~IsPinned(doc, clip)
    <3> DEFINE e == addPinnedClip(doc, clip)
    <3>1. doc' = e /\ last' = Set(<<"pinned">>, clip)
      BY <2>1, <2>3 DEF Write
    <3>2. Rooted(e) /\ Allowed(e) /\ Keeps(doc, e, <<"pinned">>)
      BY <1>1, <2>1, <2>3, AddGood
    <3> HIDE DEF e
    <3>3. Set(<<"pinned">>, clip).key = <<"pinned">>
      BY DEF Set
    <3> QED
      BY <3>1, <3>2, <3>3 DEF StepGood, Sound, Told
  <2> QED
    BY <2>2, <2>3
<1>3. CASE pkgUnpin
  <2>1. PICK clip \in Clips :
          /\ IsPinned(doc, clip)
          /\ Write("run", Delete(<<"pinned">>),
                   RemoveItem(doc, <<"pinned">>, CHOOSE n \in Positions(doc, clip) : \A k \in Positions(doc, clip) : n <= k))
    BY <1>3 DEF pkgUnpin
  <2> DEFINE first == CHOOSE n \in Positions(doc, clip) : \A k \in Positions(doc, clip) : n <= k
             e == RemoveItem(doc, <<"pinned">>, first)
  <2>6. IsPinned(doc, clip)
    BY <2>1
  <2>2. FirstPosition(doc, clip, first)
    BY <1>1, <2>6, TheFirstPosition
  <2>3. doc' = e /\ last' = Delete(<<"pinned">>)
    BY <2>1 DEF Write
  <2> HIDE DEF first
  <2>4. Rooted(e) /\ Allowed(e) /\ Keeps(doc, e, <<"pinned">>)
    BY <1>1, <2>1, <2>2, UnpinGood
  <2> HIDE DEF e
  <2>5. Delete(<<"pinned">>).key = <<"pinned">>
    BY DEF Delete
  <2> QED
    BY <2>3, <2>4, <2>5 DEF StepGood, Sound, Told
<1> QED
  BY <1>2, <1>3

LEMMA NoWrite ==
  ASSUME Sound(doc), UNCHANGED <<doc, last>>
  PROVE  StepGood
<1>1. doc' = doc
  OBVIOUS
<1> QED
  BY <1>1 DEF StepGood, Sound

LEMMA PanelGood ==
  ASSUME NumbersNameItems, TreeInv, WriteInv, PanelNext
  PROVE  StepGood /\ (\A h \in Handlers : IsKnown(handlers'[h].todo)) /\ setup' = setup
<1>1. /\ IsTree(doc) /\ PanelForm /\ HandlersForm /\ Sound(doc) /\ DOMAIN panel.shown.providers \subseteq Providers
      /\ \A h \in Handlers : IsKnown(handlers[h].todo)
  BY DEF TreeInv, WriteInv
<1>2. IsKnown(<<>>) /\ \A h \in Handlers : handlers[h].todo # <<>> =>
        Head(handlers[h].todo) \in KnownRequests /\ IsKnown(Tail(handlers[h].todo))
  <2>1. IsKnown(<<>>)
    BY DEF IsKnown
  <2>2. ASSUME NEW h \in Handlers, handlers[h].todo # <<>>
        PROVE  Head(handlers[h].todo) \in KnownRequests /\ IsKnown(Tail(handlers[h].todo))
    <3>1. IsKnown(handlers[h].todo)
      BY <1>1
    <3> QED
      BY <2>2, <3>1, KnownTodo
  <2> QED
    BY <2>1, <2>2
<1>3. setup' = setup
  BY PanelWrites
<1>4. ASSUME NEW k \in Handlers PROVE IsKnown(handlers'[k].todo)
  <2>1. handlers'[k].todo \in handleSet \cup handleAddProvider \cup handleDeleteProvider \cup Reset => IsKnown(handlers'[k].todo)
    BY <1>1, ActKnown
  <2> QED
    BY <1>1, <1>2, <2>1, TodoSteps
<1>6. ASSUME NEW h \in Handlers, handlers[h].todo # <<>>, Accepted(Head(handlers[h].todo)),
             Apply("panel", Head(handlers[h].todo))
      PROVE  StepGood
  BY <1>1, <1>2, <1>6, AcceptedGood
<1>7. ASSUME UNCHANGED <<doc, last>> PROVE StepGood
  <2>1. Sound(doc)
    BY <1>1
  <2> QED
    BY <1>7, <2>1, NoWrite
<1> QED
  BY <1>3, <1>4, <1>6, <1>7, PanelWrites

\* What is asked for first is refused, or all of it is of known keys.
LEMMA SetupAsks ==
  ASSUME NumbersNameItems, TreeInv, WriteInv, setup.todo # <<>>, Accepted(Head(setup.todo))
  PROVE  Head(setup.todo) \in KnownRequests /\ IsKnown(Tail(setup.todo))
<1>1. ~Refused(setup.todo)
  BY DEF Refused, Accepted
<1>2. IsKnown(setup.todo)
  BY <1>1 DEF WriteInv
<1> QED
  BY <1>2, KnownTodo

LEMMA SetupGood ==
  ASSUME NumbersNameItems, TreeInv, WriteInv, Submit \/ SetupRequest \/ SetupLoses \/ SetupDone
  PROVE  StepGood /\ (IsKnown(setup'.todo) \/ Refused(setup'.todo)) /\ handlers' = handlers
<1>1. IsTree(doc) /\ SetupForm /\ Sound(doc) /\ (IsKnown(setup.todo) \/ Refused(setup.todo))
  BY DEF TreeInv, SetupForm, WriteInv
<1>2. handlers' = handlers
  BY DEF Submit, SetupRequest, SetupLoses, SetupDone
<1>3. IsKnown(<<>>)
  BY DEF IsKnown
<1>4. CASE Submit
  <2>1. PICK p \in Presets \cup ({loadConfig(doc).llm_provider} \ {""}), renamed \in BOOLEAN :
          setup' = [setup EXCEPT !.todo = SetupWrites(p) \o (IF renamed THEN <<Set(<<"name">>, "x")>> ELSE <<>>),
                                 !.busy = TRUE]
    BY <1>4 DEF Submit
  <2>2. p \in STRING
    <3>1. loadConfig(doc).llm_provider \in STRING
      BY <1>1, LoadIs
    <3> QED
      BY <3>1, ConfigAssumption
  <2> DEFINE list == SetupWrites(p) \o (IF renamed THEN <<Set(<<"name">>, "x")>> ELSE <<>>)
  <2>3. Asks(p, list)
    BY <2>2, AsksAre
  <2>4. PICK asked : asked = list
    OBVIOUS
  <2>5. Asks(p, asked)
    BY <2>3, <2>4
  <2>6. setup' = [setup EXCEPT !.todo = asked, !.busy = TRUE]
    BY <2>1, <2>4
  <2> HIDE DEF list
  <2>7. IsKnown(asked) \/ Refused(asked)
    BY <2>2, <2>5, SetupKnown
  <2>8. setup'.todo = asked
    BY <1>1, <2>6 DEF SetupForm
  <2>9. UNCHANGED <<doc, last>>
    BY <1>4 DEF Submit
  <2> QED
    BY <1>1, <1>2, <2>7, <2>8, <2>9, NoWrite
<1>5. CASE SetupRequest
  <2>1. setup.todo # <<>>
    BY <1>5 DEF SetupRequest
  <2>2. CASE Accepted(Head(setup.todo))
    <3>1. Apply("setup", Head(setup.todo)) /\ setup' = [setup EXCEPT !.todo = Tail(@)]
      BY <1>5, <2>2 DEF SetupRequest, Sent
    <3>2. Head(setup.todo) \in KnownRequests /\ IsKnown(Tail(setup.todo))
      BY <2>1, <2>2, SetupAsks
    <3>3. setup'.todo = Tail(setup.todo)
      BY <1>1, <3>1 DEF SetupForm
    <3>4. StepGood
      BY <1>1, <2>2, <3>1, <3>2, AcceptedGood
    <3> QED
      BY <1>2, <3>2, <3>3, <3>4
  <2>3. CASE ~Accepted(Head(setup.todo))
    <3>1. UNCHANGED <<doc, last>> /\ setup' = [setup EXCEPT !.todo = <<>>, !.busy = FALSE]
      BY <1>5, <2>3 DEF SetupRequest, Sent
    <3>2. setup'.todo = <<>>
      BY <1>1, <3>1 DEF SetupForm
    <3> QED
      BY <1>1, <1>2, <1>3, <3>1, <3>2, NoWrite
  <2> QED
    BY <2>2, <2>3
<1>6. CASE SetupLoses
  <2>1. setup' = [setup EXCEPT !.todo = <<>>, !.busy = FALSE]
    BY <1>6 DEF SetupLoses
  <2>2. setup'.todo = <<>>
    BY <1>1, <2>1 DEF SetupForm
  <2>3. StepGood
    <3>1. CASE setup.todo # <<>> /\ Accepted(Head(setup.todo)) /\ Apply("setup", Head(setup.todo))
      <4>1. Head(setup.todo) \in KnownRequests
        BY <3>1, SetupAsks
      <4> QED
        BY <1>1, <3>1, <4>1, AcceptedGood
    <3>2. CASE UNCHANGED <<doc, last, alone>>
      BY <1>1, <3>2, NoWrite
    <3> QED
      BY <1>6, <3>1, <3>2 DEF SetupLoses
  <2> QED
    BY <1>2, <1>3, <2>2, <2>3
<1>7. CASE SetupDone
  <2>1. UNCHANGED <<doc, last>> /\ setup' = [setup EXCEPT !.busy = FALSE, !.done = "setup" \in alone]
    BY <1>7 DEF SetupDone
  <2>2. setup'.todo = setup.todo
    BY <1>1, <2>1 DEF SetupForm
  <2> QED
    BY <1>1, <1>2, <2>1, <2>2, NoWrite
<1> QED
  BY <1>4, <1>5, <1>6, <1>7

\* A write changes the value of its key, and no value elsewhere in the file
\* (config.ts:178-236, 320-403), when the keys name items of sequences by numbers.
THEOREM WritesOnlyItsKeyHolds ==
  ASSUME NumbersNameItems
  PROVE  ConfigSpec => WritesOnlyItsKey
<1>1. ConfigInit => WriteInv
  <2> SUFFICES ASSUME ConfigInit PROVE WriteInv
    OBVIOUS
  <2>1. IsKnown(<<>>)
    BY DEF IsKnown
  <2>2. doc \in FirstTrees \cup {Seed}
    BY DEF ConfigInit
  <2>3. Rooted(doc)
    BY <2>2, ConfigAssumption
  <2>4. Allowed(doc)
    BY <2>2, FirstAllowed
  <2>5. setup.todo = <<>> /\ \A h \in Handlers : handlers[h].todo = <<>>
    BY NoTaskIs DEF ConfigInit
  <2> QED
    BY <2>1, <2>3, <2>4, <2>5 DEF WriteInv, Sound
<1>2. TreeInv /\ WriteInv /\ [ConfigNext]_configVars => WriteInv' /\ StepGood
  <2> SUFFICES ASSUME TreeInv, WriteInv, [ConfigNext]_configVars PROVE WriteInv' /\ StepGood
    OBVIOUS
  <2>1. Sound(doc) /\ (\A h \in Handlers : IsKnown(handlers[h].todo)) /\ (IsKnown(setup.todo) \/ Refused(setup.todo))
    BY DEF WriteInv
  <2>2. ASSUME StepGood, \A h \in Handlers : IsKnown(handlers'[h].todo), IsKnown(setup'.todo) \/ Refused(setup'.todo)
        PROVE  WriteInv' /\ StepGood
    <3>1. Sound(doc')
      BY <2>2 DEF StepGood
    <3>2. Sound(doc)'
      BY <3>1 DEF Sound, Rooted, Allowed
    <3> QED
      BY <2>2, <3>2 DEF WriteInv
  <2>3. CASE UNCHANGED configVars
    <3>1. UNCHANGED <<doc, last>> /\ handlers' = handlers /\ setup' = setup
      BY <2>3 DEF configVars
    <3> QED
      BY <2>1, <2>2, <3>1, NoWrite
  <2>4. CASE runConfig
    <3>1. handlers' = handlers /\ setup' = setup
      BY <2>4 DEF runConfig
    <3> QED
      BY <2>1, <2>2, <2>4, <3>1, CommandGood
  <2>5. CASE BeginRun
    <3>1. UNCHANGED <<doc, last>> /\ handlers' = handlers /\ setup' = setup
      BY <2>5 DEF BeginRun
    <3> QED
      BY <2>1, <2>2, <3>1, NoWrite
  <2>6. CASE pkgPin \/ pkgUnpin
    <3>1. handlers' = handlers /\ setup' = setup
      BY <2>6 DEF pkgPin, pkgUnpin
    <3> QED
      BY <2>1, <2>2, <2>6, <3>1, RunGood
  <2>7. CASE PanelNext
    <3>1. StepGood /\ (\A h \in Handlers : IsKnown(handlers'[h].todo)) /\ setup' = setup
      BY <2>7, PanelGood
    <3> QED
      BY <2>1, <2>2, <3>1
  <2>8. CASE Submit \/ SetupRequest \/ SetupLoses \/ SetupDone
    <3>1. StepGood /\ (IsKnown(setup'.todo) \/ Refused(setup'.todo)) /\ handlers' = handlers
      BY <2>8, SetupGood
    <3> QED
      BY <2>1, <2>2, <3>1
  <2> QED
    BY <2>3, <2>4, <2>5, <2>6, <2>7, <2>8 DEF ConfigNext
<1>3. StepGood =>
        [LET key == last'.key IN
           /\ last'.op = "set" /\ key # <<"pinned">> => asString(doc', key) = last'.value
           /\ key # <<>> => \A p \in Texts(doc) \cup Texts(doc') :
                Related(p, key) \/ (p \in Texts(doc) \cap Texts(doc') /\ doc'[p] = doc[p])]_<<doc, last>>
  <2> SUFFICES ASSUME Told(last', doc, doc')
               PROVE  LET key == last'.key IN
                      /\ last'.op = "set" /\ key # <<"pinned">> => asString(doc', key) = last'.value
                      /\ key # <<>> => \A p \in Texts(doc) \cup Texts(doc') :
                           Related(p, key) \/ (p \in Texts(doc) \cap Texts(doc') /\ doc'[p] = doc[p])
    BY DEF StepGood
  <2>1. PICK key : key = last'.key
    OBVIOUS
  <2>2. ASSUME key # <<>>, NEW p \in Texts(doc) \cup Texts(doc'), ~Related(p, key)
        PROVE  p \in Texts(doc) \cap Texts(doc') /\ doc'[p] = doc[p]
    <3>1. Keeps(doc, doc', key)
      BY <2>1, <2>2 DEF Told
    <3> QED
      BY <2>2, <3>1 DEF Keeps, Texts
  <2> QED
    BY <2>1, <2>2 DEF Told
<1> QED
  BY <1>1, <1>2, <1>3, TreeInductive, PTL DEF ConfigSpec, WritesOnlyItsKey

=============================================================================
