------------------------------- MODULE Agents -------------------------------
(***************************************************************************)
(* Agents: the table (src/db.ts:130-313), its commands                      *)
(* (src/handlers/agent.ts, src/commands.ts) and those who use them: the     *)
(* agent manager of the user interface with its form, the picker of the     *)
(* agent of a new chat, and the command line.                               *)
(***************************************************************************)
EXTENDS Integers, FiniteSets

CONSTANTS
  AgentIds,   \* ids agents may get: random, never given twice
  TopicIds,
  ScopeClips, \* clips of the runtime
  MaxEdits,   \* bound: agents created, changed or deleted
  NoAgent

ASSUME AgentsAssumption == NoAgent \notin AgentIds /\ MaxEdits \in Nat

VARIABLES
  agents,    \* the table: id -> its fields
  gone,      \* ids of agents that have been deleted
  agentOf,   \* the table topics: id -> agent_id
  listed,    \* the user interface: the agents it has loaded
  form,      \* its form: open, agent, fields; history: the fields edited, the row it was opened with
  request,   \* its request that is not answered: none, save, delete or topic; a delete or
             \* a topic may be between its two statements
  other,     \* a delete or a topic of another process that is between its two statements
  picked,    \* the agent picked for the next chat
  edits,
  saved,     \* history: an agent as the last save should have left it
  raced      \* history: agents that a deletion and a new topic have dealt with at one time

agentsVars == <<agents, gone, agentOf, listed, form, request, other, picked, edits, saved, raced>>

\* The columns: a name, the model (the provider, the prompt and max_tokens are
\* treated as it is), lists of clips.  A text is the set of it; null, the empty
\* text and the empty list differ.
Null == {"null"}
Fields == {"name", "llm_model", "scope", "pinned"}
ListFields == {"scope", "pinned"}

Blank(field) == IF field \in ListFields THEN {} ELSE {""}
SomeTexts == {{""}, {"m"}}
Values(field) == IF field \in ListFields THEN SUBSET ScopeClips ELSE SomeTexts

-----------------------------------------------------------------------------
(* The table.                                                              *)

NewIds == AgentIds \ (DOMAIN agents \cup gone)

\* createAgent: what is not given is null.
createAgent(id, given) ==
  [i \in DOMAIN agents \cup {id} |->
     IF i = id THEN [f \in Fields |-> IF f \in DOMAIN given THEN given[f] ELSE Null] ELSE agents[i]]

\* Mutant of updateAgent: what is not given becomes null.
updateAgentWhole(id, given) ==
  [agents EXCEPT ![id] = [f \in Fields |-> IF f \in DOMAIN given THEN given[f] ELSE Null]]

\* updateAgent: what is not given is kept, an empty text becomes null; the name
\* is stored as it is given.
updateAgent(id, given) ==
  [agents EXCEPT ![id] = [f \in Fields |->
     IF f \notin DOMAIN given THEN @[f]
     ELSE IF f = "llm_model" /\ given[f] = {""} THEN Null ELSE given[f]]]

\* deleteAgent and createTopic are two statements each and no transaction: a command
\* of that kind has made its first one of this agent.
Between(kind, id) ==
  \/ request.kind = kind /\ request.checked /\ request.id = id
  \/ other.kind = kind /\ other.id = id

\* This agent is being dealt with, and by a command of that kind as well.
Race(kind, id) == raced' = IF Between(kind, id) THEN raced \cup {id} ELSE raced

\* deleteAgent refuses an agent that a topic has ...
CountTopics(id) == (\A t \in DOMAIN agentOf : agentOf[t] # id) /\ Race("topic", id)

\* ... and deletes its row, if it is there; the foreign key of the topics is
\* declared and not enforced.
Erase(id) ==
  /\ id \in DOMAIN agents
  /\ agents' = [i \in DOMAIN agents \ {id} |-> agents[i]]
  /\ gone' = gone \cup {id}

\* createTopic refuses an agent that does not exist ...
FindAgent(id) == id \in DOMAIN agents /\ Race("delete", id)

\* ... and inserts the topic.
InsertTopic(id) ==
  \E t \in TopicIds \ DOMAIN agentOf :
    agentOf' = [u \in DOMAIN agentOf \cup {t} |-> IF u = t THEN id ELSE agentOf[u]]

\* parseAgentInput: a field that is empty is not given, the name always is.
\* The lists travel as texts joined by commas.
parseAgentInput(input) ==
  [f \in {"name"} \cup {f \in DOMAIN input : input[f] # Blank(f)} |-> input[f]]

\* parseAgentFlags: a list that is empty is not given, a text may be empty; the
\* name is empty if it is not given.
parseAgentFlags(input) ==
  [f \in {"name"} \cup {f \in DOMAIN input : f \in ListFields => input[f] # {}} |-> input[f]]

-----------------------------------------------------------------------------
(* The command line and other clients.                                     *)

Edit == edits < MaxEdits /\ edits' = edits + 1

\* What the last save of the form left is history.
Elsewhere == saved' = NoAgent

CreateAgent ==
  /\ Edit /\ Elsewhere
  /\ \E id \in NewIds, model \in SomeTexts, scope \in SUBSET ScopeClips :
       agents' = createAgent(id, parseAgentInput(
                   [f \in Fields |-> CASE f = "name" -> {"m"} [] f = "llm_model" -> model [] f = "scope" -> scope [] OTHER -> {}]))
  /\ UNCHANGED <<gone, agentOf, listed, form, request, picked, other, raced>>

\* What is not given leaves its field alone, but without the name the name
\* becomes empty.
UpdateAgent ==
  /\ Edit /\ Elsewhere
  /\ \E id \in DOMAIN agents, f \in Fields : \E value \in Values(f) :
       LET input == [g \in {f, "name"} |-> IF g = f THEN value ELSE {""}] IN
       \E given \in {parseAgentInput(input), parseAgentFlags(input)} : agents' = updateAgent(id, given)
  /\ UNCHANGED <<gone, agentOf, listed, form, request, picked, other, raced>>

Idle == [kind |-> "none"]

\* A process begins with a deletion or a new topic: the first statement.
BeginCommand ==
  /\ other = Idle
  /\ \E id \in DOMAIN agents :
       \/ CountTopics(id) /\ Edit /\ other' = [kind |-> "delete", id |-> id]
       \/ FindAgent(id) /\ UNCHANGED edits /\ other' = [kind |-> "topic", id |-> id]
  /\ UNCHANGED <<agents, gone, agentOf, listed, form, request, picked, saved>>

RemoveAgent ==
  /\ other.kind = "delete" /\ Erase(other.id) /\ Elsewhere
  /\ other' = Idle
  /\ UNCHANGED <<agentOf, listed, form, request, picked, edits, raced>>

CreateTopic ==
  /\ other.kind = "topic" /\ InsertTopic(other.id)
  /\ other' = Idle
  /\ UNCHANGED <<agents, gone, listed, form, request, picked, edits, saved, raced>>

\* It dies, finds the database locked, or nothing to delete.
CommandFails ==
  /\ other # Idle /\ other' = Idle
  /\ UNCHANGED <<agents, gone, agentOf, listed, form, request, picked, edits, saved, raced>>

DeleteTopic ==
  /\ \E t \in DOMAIN agentOf : agentOf' = [u \in DOMAIN agentOf \ {t} |-> agentOf[u]]
  /\ UNCHANGED <<agents, gone, listed, form, request, picked, edits, saved, other, raced>>

-----------------------------------------------------------------------------
(* The agent manager.                                                      *)

\* loadAgents.
Load ==
  /\ request.kind = "none" /\ listed # agents
  /\ listed' = agents
  /\ UNCHANGED <<agents, gone, agentOf, form, request, picked, edits, saved, other, raced>>

\* A text that is null, and a list that is, is shown as an empty one.
Displayed(value, f) == IF value = Null THEN Blank(f) ELSE value

Closed == [open |-> FALSE, agent |-> NoAgent, edited |-> {}, basis |-> NoAgent, fields |-> [f \in Fields |-> Blank(f)]]

OpenForm ==
  /\ ~form.open /\ request.kind = "none" /\ Elsewhere
  /\ \E id \in DOMAIN listed \cup {NoAgent} :
       form' = [open |-> TRUE, agent |-> id, edited |-> {},
                basis |-> IF id = NoAgent THEN NoAgent ELSE listed[id],
                fields |-> [f \in Fields |-> IF id = NoAgent THEN Blank(f) ELSE Displayed(listed[id][f], f)]]
  /\ UNCHANGED <<agents, gone, agentOf, listed, request, picked, edits, other, raced>>

CloseForm ==
  /\ form.open
  /\ form' = Closed
  /\ UNCHANGED <<agents, gone, agentOf, listed, request, picked, edits, saved, other, raced>>

\* The texts and the badges of the clips.  A clip that leaves the scope is no
\* longer pinned; what can be pinned is the scope, or any clip if there is none.
EditField ==
  /\ form.open /\ request.kind = "none"
  /\ \/ \E f \in Fields \ ListFields, text \in SomeTexts :
          form' = [form EXCEPT !.fields[f] = text, !.edited = @ \cup {f}]
     \/ \E clip \in ScopeClips :
          form' = IF clip \in form.fields.scope
                  THEN [form EXCEPT !.fields.scope = @ \ {clip}, !.fields.pinned = @ \ {clip}, !.edited = @ \cup ListFields]
                  ELSE [form EXCEPT !.fields.scope = @ \cup {clip}, !.edited = @ \cup {"scope"}]
     \/ \E clip \in IF form.fields.scope # {} THEN form.fields.scope ELSE ScopeClips :
          form' = [form EXCEPT !.fields.pinned = IF clip \in @ THEN @ \ {clip} ELSE @ \cup {clip},
                               !.edited = @ \cup {"pinned"}]
  /\ UNCHANGED <<agents, gone, agentOf, listed, request, picked, edits, saved, other, raced>>

\* handleSubmit and saveAgent up to its await; the name may not be empty.
Save ==
  /\ form.open /\ request.kind = "none" /\ form.fields.name # {""} /\ Edit
  /\ request' = [kind |-> "save", id |-> form.agent, input |-> form.fields, edited |-> form.edited, basis |-> form.basis]
  /\ UNCHANGED <<agents, gone, agentOf, listed, form, picked, saved, other, raced>>

\* What the row is to be: the user's edits on the row as it was; an edit that
\* empties a field does not count.
Intended(r, id) ==
  [f \in Fields |-> IF f \in r.edited /\ r.input[f] # Blank(f) THEN r.input[f]
                    ELSE IF r.id # NoAgent THEN agents[r.id][f] ELSE Null]

Replied == request' = Idle

\* The server's part of a save, and its answer: the form closes, whichever is
\* open by now, and the list is loaded.
Saved ==
  /\ request.kind = "save"
  /\ \/ /\ request.id = NoAgent
        /\ \E id \in NewIds : /\ agents' = createAgent(id, parseAgentInput(request.input))
                              /\ saved' = [id |-> id, row |-> Intended(request, id)]
     \/ /\ request.id \in DOMAIN agents
        /\ agents' = updateAgent(request.id, parseAgentInput(request.input))
        /\ saved' = IF agents[request.id] = request.basis
                    THEN [id |-> request.id, row |-> Intended(request, request.id)] ELSE NoAgent
  /\ listed' = agents' /\ Replied
  /\ form' = Closed
  /\ UNCHANGED <<gone, agentOf, picked, edits, other, raced>>

\* The request is refused or lost: an error, and the form stays.
Failed ==
  /\ request.kind # "none"
  /\ Replied
  /\ UNCHANGED <<agents, gone, agentOf, listed, form, picked, edits, saved, other, raced>>

\* confirmDelete.
AskDelete ==
  /\ request.kind = "none" /\ Edit
  /\ \E id \in DOMAIN listed : request' = [kind |-> "delete", id |-> id, checked |-> FALSE]
  /\ UNCHANGED <<agents, gone, agentOf, listed, form, picked, saved, other, raced>>

\* The first statement of the request's command.
Look ==
  /\ request.kind \in {"delete", "topic"} /\ ~request.checked
  /\ \/ request.kind = "delete" /\ CountTopics(request.id)
     \/ request.kind = "topic" /\ FindAgent(request.id)
  /\ request' = [request EXCEPT !.checked = TRUE]
  /\ UNCHANGED <<agents, gone, agentOf, listed, form, other, picked, edits, saved>>

\* Mutant of Deleted: topics of the agent are not looked for.
DeletedAnyway ==
  /\ request.kind = "delete" /\ Erase(request.id)
  /\ listed' = agents' /\ Replied /\ Elsewhere
  /\ UNCHANGED <<agentOf, form, other, picked, edits, raced>>

Deleted ==
  /\ request.kind = "delete" /\ request.checked /\ Erase(request.id)
  /\ listed' = agents' /\ Replied /\ Elsewhere
  /\ UNCHANGED <<agentOf, form, other, picked, edits, raced>>

-----------------------------------------------------------------------------
(* A new chat.  The form is a dialog over the page.                         *)

\* useAgentPicker.select: picking the agent that is picked gives it up.
Pick ==
  /\ ~form.open
  /\ \E id \in DOMAIN listed : picked' = IF picked = id THEN NoAgent ELSE id
  /\ UNCHANGED <<agents, gone, agentOf, listed, form, request, edits, saved, other, raced>>

Deselect ==
  /\ ~form.open /\ picked # NoAgent /\ picked' = NoAgent
  /\ UNCHANGED <<agents, gone, agentOf, listed, form, request, edits, saved, other, raced>>

\* The first message of a chat; the agent may be gone by now.
NewChat ==
  /\ ~form.open /\ request.kind = "none"
  /\ request' = [kind |-> "topic", id |-> picked, checked |-> FALSE]
  /\ UNCHANGED <<agents, gone, agentOf, listed, form, picked, edits, saved, other, raced>>

TopicForAgent ==
  /\ request.kind = "topic" /\ (request.checked \/ request.id = NoAgent)
  /\ InsertTopic(request.id)
  /\ Replied
  /\ UNCHANGED <<agents, gone, listed, form, other, picked, edits, saved, raced>>

AgentsInit ==
  /\ agents = [i \in {} |-> {}] /\ gone = {} /\ agentOf = [t \in {} |-> NoAgent] /\ listed = agents
  /\ form = Closed
  /\ request = Idle /\ other = Idle /\ picked = NoAgent /\ edits = 0 /\ saved = NoAgent /\ raced = {}

AgentsNext ==
  \/ CreateAgent \/ UpdateAgent \/ DeleteTopic
  \/ BeginCommand \/ RemoveAgent \/ CreateTopic \/ CommandFails
  \/ Load \/ OpenForm \/ CloseForm \/ EditField \/ Save \/ Saved \/ Failed
  \/ AskDelete \/ Look \/ Deleted \/ Pick \/ Deselect \/ NewChat \/ TopicForAgent

AgentsSpec == AgentsInit /\ [][AgentsNext]_agentsVars

-----------------------------------------------------------------------------
(* Properties.                                                             *)

\* A topic's agent exists, whatever the user interface had loaded when it was
\* asked to delete the agent or to begin the chat (db.ts:260-271, 300-313).
\* Excepted is an agent that one process was deleting while another one was making a
\* topic for it: each looks before it writes, without a transaction, so that both
\* may go through and leave the topic with no agent (the foreign key of db.ts:75 is
\* never switched on).
TopicsHaveAgents ==
  \A t \in DOMAIN agentOf : agentOf[t] \in DOMAIN agents \cup {NoAgent} \cup raced

\* A save of the form changes what the user has changed in it and nothing else
\* of the agent, if nobody else wrote the agent after it was loaded.  Excepted is
\* an edit that empties a field: it leaves the field as it was, although the form
\* promises the default for it (AgentFormView.tsx:131, 199, 244)
\* (AgentFormView.tsx:46-72, ui/src/lib/agent.ts:36-62, handlers/agent.ts:81-110,
\* db.ts:226-258).
SavesTheEdits == saved # NoAgent => agents[saved.id] = saved.row
=============================================================================
