---------------------------- MODULE AgentsProofs ----------------------------
(***************************************************************************)
(* Theorems about Agents, for any agents, topics and clips and any number  *)
(* of edits.                                                               *)
(***************************************************************************)
EXTENDS Agents, TLAPS

-----------------------------------------------------------------------------
(* The inductive invariant.                                                *)

\* The form shows the row it was opened with, but for what has been edited.
Shows(fields, edited, agent, basis) ==
  \A f \in Fields \ edited :
    fields[f] = IF agent = NoAgent THEN Blank(f) ELSE Displayed(basis[f], f)

Forms ==
  /\ Shows(form.fields, form.edited, form.agent, form.basis)
  /\ form.fields = [f \in Fields |-> form.fields[f]]
  /\ form = [open |-> form.open, agent |-> form.agent, edited |-> form.edited,
             basis |-> form.basis, fields |-> form.fields]

\* A save on its way is what the form showed, and has a name.
Requests ==
  /\ request.kind = "save" =>
       /\ Shows(request.input, request.edited, request.id, request.basis)
       /\ request.input = [f \in Fields |-> request.input[f]]
       /\ request.input["name"] # {""}
  /\ request.kind \in {"delete", "topic"} =>
       request = [kind |-> request.kind, id |-> request.id, checked |-> request.checked]

\* NoAgent is the id of no row.
Known == DOMAIN agents \subseteq AgentIds

\* What a command has found at its first statement still holds at its second one,
\* unless a command of the other kind was at work on the agent at the same time.
Finds ==
  /\ \A id : Between("topic", id) => id \in DOMAIN agents \cup raced
  /\ \A id, t : Between("delete", id) /\ t \in DOMAIN agentOf /\ agentOf[t] = id =>
       id \in raced \cup {NoAgent}
  /\ \A id : Between("topic", id) /\ Between("delete", id) => id \in raced

Inv == Known /\ Forms /\ Requests /\ SavesTheEdits /\ Finds

-----------------------------------------------------------------------------
(* The form.                                                               *)

LEMMA ClosedShows ==
  ASSUME form' = Closed
  PROVE  Forms'
  BY DEF Closed, Forms, Shows

LEMMA FormsStep == Forms /\ [AgentsNext]_agentsVars => Forms'
<1> SUFFICES ASSUME Forms, [AgentsNext]_agentsVars PROVE Forms'
  OBVIOUS
<1>1. CASE OpenForm
  BY <1>1 DEF OpenForm, Forms, Shows
<1>2. CASE CloseForm \/ Saved
  BY <1>2, ClosedShows DEF CloseForm, Saved
<1>3. CASE EditField
  <2>1. ASSUME NEW edited, form.edited \subseteq edited, NEW fields,
               fields = [f \in Fields |-> fields[f]],
               \A f \in Fields \ edited : fields[f] = form.fields[f],
               form' = [form EXCEPT !.fields = fields, !.edited = edited]
        PROVE  Forms'
    <3>1. form' = [open |-> form.open, agent |-> form.agent, edited |-> edited,
                   basis |-> form.basis, fields |-> fields]
      BY <2>1 DEF Forms
    <3>2. QED
      BY <2>1, <3>1 DEF Forms, Shows
  <2>2. ASSUME NEW f \in Fields \ ListFields, NEW text,
               form' = [form EXCEPT !.fields[f] = text, !.edited = @ \cup {f}]
        PROVE  Forms'
    <3>1. form' = [form EXCEPT !.fields = [form.fields EXCEPT ![f] = text], !.edited = form.edited \cup {f}]
      BY <2>2 DEF Forms
    <3>2. QED
      BY <2>1, <3>1 DEF Forms, Fields, ListFields
  <2>3. ASSUME NEW scope, NEW pinned,
               form' = [form EXCEPT !.fields.scope = scope, !.fields.pinned = pinned,
                                    !.edited = @ \cup ListFields]
        PROVE  Forms'
    <3>1. form' = [form EXCEPT !.fields = [form.fields EXCEPT !.scope = scope, !.pinned = pinned],
                               !.edited = form.edited \cup ListFields]
      BY <2>3 DEF Forms
    <3>2. QED
      BY <2>1, <3>1 DEF Forms, Fields, ListFields
  <2>4. ASSUME NEW f \in ListFields, NEW list,
               form' = [form EXCEPT !.fields[f] = list, !.edited = @ \cup {f}]
        PROVE  Forms'
    <3>1. form' = [form EXCEPT !.fields = [form.fields EXCEPT ![f] = list], !.edited = form.edited \cup {f}]
      BY <2>4 DEF Forms
    <3>2. QED
      BY <2>1, <3>1 DEF Forms, Fields, ListFields
  <2>5. "scope" \in ListFields /\ "pinned" \in ListFields
    BY DEF ListFields
  <2>6. QED
    BY <1>3, <2>2, <2>3, <2>4, <2>5 DEF EditField
<1>4. CASE UNCHANGED form
  BY <1>4 DEF Forms, Shows
<1>5. QED
  BY <1>1, <1>2, <1>3, <1>4
  DEF AgentsNext, agentsVars, CreateAgent, UpdateAgent, BeginCommand, RemoveAgent, CreateTopic,
      CommandFails, DeleteTopic, Load, Save, Failed,
      AskDelete, Look, Deleted, Pick, Deselect, NewChat, TopicForAgent

LEMMA RequestsStep == Forms /\ Requests /\ [AgentsNext]_agentsVars => Requests'
<1> SUFFICES ASSUME Forms, Requests, [AgentsNext]_agentsVars PROVE Requests'
  OBVIOUS
<1>1. CASE Save
  BY <1>1 DEF Save, Forms, Requests, Shows
<1>2. CASE Saved \/ Failed \/ Deleted \/ TopicForAgent
  <2>1. request'.kind = "none"
    BY <1>2 DEF Saved, Failed, Deleted, TopicForAgent, Replied, Idle
  <2>2. QED
    BY <2>1 DEF Requests
<1>5. CASE AskDelete \/ NewChat
  <2>1. ASSUME NEW kind \in {"delete", "topic"}, NEW id,
               request' = [kind |-> kind, id |-> id, checked |-> FALSE]
        PROVE  Requests'
    BY <2>1 DEF Requests
  <2>2. QED
    BY <1>5, <2>1 DEF AskDelete, NewChat
<1>6. CASE Look
  BY <1>6 DEF Look, Requests
<1>3. CASE UNCHANGED request
  BY <1>3 DEF Requests, Shows
<1>4. QED
  BY <1>1, <1>2, <1>3, <1>5, <1>6
  DEF AgentsNext, agentsVars, CreateAgent, UpdateAgent, BeginCommand, RemoveAgent, CreateTopic,
      CommandFails, DeleteTopic, Load, OpenForm, CloseForm, EditField, Pick, Deselect

-----------------------------------------------------------------------------
(* The table.                                                              *)

\* What createAgent and updateAgent make of the rows.
LEMMA Created ==
  ASSUME NEW id, NEW given
  PROVE  /\ DOMAIN createAgent(id, given) = DOMAIN agents \cup {id}
         /\ createAgent(id, given)[id] =
              [f \in Fields |-> IF f \in DOMAIN given THEN given[f] ELSE Null]
         /\ \A i \in DOMAIN agents \ {id} : createAgent(id, given)[i] = agents[i]
  BY DEF createAgent

LEMMA Updated ==
  ASSUME NEW id \in DOMAIN agents, NEW given
  PROVE  /\ DOMAIN updateAgent(id, given) = DOMAIN agents
         /\ updateAgent(id, given)[id] =
              [f \in Fields |->
                 IF f \notin DOMAIN given THEN agents[id][f]
                 ELSE IF f = "llm_model" /\ given[f] = {""} THEN Null ELSE given[f]]
         /\ \A i \in DOMAIN agents \ {id} : updateAgent(id, given)[i] = agents[i]
  BY DEF updateAgent

LEMMA KnownStep == Known /\ [AgentsNext]_agentsVars => Known'
<1> SUFFICES ASSUME Known, [AgentsNext]_agentsVars PROVE Known'
  OBVIOUS
<1>1. ASSUME NEW id \in AgentIds, NEW given, agents' = createAgent(id, given) PROVE Known'
  BY <1>1 DEF Known, createAgent
<1>2. ASSUME NEW id \in DOMAIN agents, NEW given, agents' = updateAgent(id, given) PROVE Known'
  BY <1>2, Updated DEF Known
<1>3. ASSUME NEW id, Erase(id) PROVE Known'
  BY <1>3 DEF Known, Erase
<1>4. CASE UNCHANGED agents
  BY <1>4 DEF Known
<1>5. CASE CreateAgent
  BY <1>5, <1>1 DEF CreateAgent, NewIds
<1>6. CASE UpdateAgent
  BY <1>6, <1>2 DEF UpdateAgent
<1>7. CASE Saved
  BY <1>7, <1>1, <1>2 DEF Saved, NewIds
<1>8. CASE RemoveAgent \/ Deleted
  BY <1>8, <1>3 DEF RemoveAgent, Deleted
<1>9. QED
  BY <1>4, <1>5, <1>6, <1>7, <1>8
  DEF AgentsNext, agentsVars, BeginCommand, CreateTopic, CommandFails, Look, DeleteTopic, Load, OpenForm, CloseForm, EditField, Save, Failed, AskDelete,
      Pick, Deselect, NewChat, TopicForAgent

\* An agent is made of the form: what is empty in it is not given, and null.
LEMMA CreatedAsIntended ==
  ASSUME Requests, request.kind = "save", request.id = NoAgent, NEW id \in AgentIds,
         agents' = createAgent(id, parseAgentInput(request.input))
  PROVE  agents'[id] = Intended(request, id)
<1> DEFINE given == parseAgentInput(request.input)
<1>1. /\ DOMAIN request.input = Fields /\ "name" \in Fields
      /\ request.input["name"] # Blank("name")
  BY DEF Requests, Fields, Blank, ListFields
<1>2. DOMAIN given = {f \in Fields : request.input[f] # Blank(f)}
      /\ \A f \in DOMAIN given : given[f] = request.input[f]
  BY <1>1 DEF parseAgentInput
<1>3. \A f \in Fields \ request.edited : request.input[f] = Blank(f)
  BY DEF Requests, Shows
<1> HIDE DEF given
<1>4. agents'[id] = [f \in Fields |-> IF f \in DOMAIN given THEN given[f] ELSE Null]
  BY Created DEF given
<1>5. ASSUME NEW f \in Fields
      PROVE  (IF f \in DOMAIN given THEN given[f] ELSE Null) =
             (IF f \in request.edited /\ request.input[f] # Blank(f) THEN request.input[f] ELSE Null)
  BY <1>2, <1>3
<1>6. QED
  BY <1>4, <1>5 DEF Intended

\* An agent is updated by the form: what is empty in it is not given and kept,
\* what has not been edited is given as it was.
LEMMA UpdatedAsIntended ==
  ASSUME Requests, request.kind = "save", request.id \in DOMAIN agents, request.id # NoAgent,
         agents[request.id] = request.basis,
         agents' = updateAgent(request.id, parseAgentInput(request.input))
  PROVE  agents'[request.id] = Intended(request, request.id)
<1> DEFINE given == parseAgentInput(request.input)
           old == agents[request.id]
<1>1. /\ DOMAIN request.input = Fields /\ "name" \in Fields
      /\ request.input["name"] # Blank("name")
      /\ Blank("llm_model") = {""}
  BY DEF Requests, Fields, Blank, ListFields
<1>2. DOMAIN given = {f \in Fields : request.input[f] # Blank(f)}
      /\ \A f \in DOMAIN given : given[f] = request.input[f]
  BY <1>1 DEF parseAgentInput
<1>3. \A f \in Fields \ request.edited : request.input[f] = Blank(f) \/ request.input[f] = old[f]
  BY DEF Requests, Shows, Displayed
<1> HIDE DEF given
<1>4. agents'[request.id] =
        [f \in Fields |-> IF f \notin DOMAIN given THEN old[f]
                          ELSE IF f = "llm_model" /\ given[f] = {""} THEN Null ELSE given[f]]
  BY Updated DEF given
<1>5. ASSUME NEW f \in Fields
      PROVE  (IF f \notin DOMAIN given THEN old[f]
              ELSE IF f = "llm_model" /\ given[f] = {""} THEN Null ELSE given[f]) =
             (IF f \in request.edited /\ request.input[f] # Blank(f) THEN request.input[f] ELSE old[f])
  BY <1>1, <1>2, <1>3
<1>6. QED
  BY <1>4, <1>5 DEF Intended

LEMMA SavesStep == Known /\ Requests /\ SavesTheEdits /\ [AgentsNext]_agentsVars => SavesTheEdits'
<1> SUFFICES ASSUME Known, Requests, SavesTheEdits, [AgentsNext]_agentsVars, saved' # NoAgent
             PROVE  agents'[saved'.id] = saved'.row
  BY DEF SavesTheEdits
<1>1. CASE UNCHANGED <<agents, saved>>
  BY <1>1 DEF SavesTheEdits
<1>2. CASE Saved
  <2>1. ASSUME request.id = NoAgent, NEW id \in NewIds,
               agents' = createAgent(id, parseAgentInput(request.input)),
               saved' = [id |-> id, row |-> Intended(request, id)]
        PROVE  agents'[saved'.id] = saved'.row
    BY <1>2, <2>1, CreatedAsIntended DEF Saved, NewIds
  <2>2. ASSUME request.id \in DOMAIN agents,
               agents' = updateAgent(request.id, parseAgentInput(request.input)),
               agents[request.id] = request.basis,
               saved' = [id |-> request.id, row |-> Intended(request, request.id)]
        PROVE  agents'[saved'.id] = saved'.row
    BY <1>2, <2>2, UpdatedAsIntended, AgentsAssumption DEF Saved, Known
  <2>3. QED
    BY <1>2, <2>1, <2>2 DEF Saved
<1>3. QED
  BY <1>1, <1>2
  DEF AgentsNext, agentsVars, CreateAgent, UpdateAgent, BeginCommand, RemoveAgent, CreateTopic,
      CommandFails, Elsewhere, DeleteTopic, Load,
      OpenForm, CloseForm, EditField, Save, Failed, AskDelete, Look, Deleted, Pick, Deselect, NewChat,
      TopicForAgent

-----------------------------------------------------------------------------
(* The topics.                                                             *)

\* Steps that begin no command, take no agent and insert no topic.
LEMMA FindsKept ==
  ASSUME Finds, UNCHANGED raced, DOMAIN agents \subseteq DOMAIN agents',
         \A id : (Between("topic", id)' => Between("topic", id))
                 /\ (Between("delete", id)' => Between("delete", id)),
         \A t \in DOMAIN agentOf' : t \in DOMAIN agentOf /\ agentOf'[t] = agentOf[t]
  PROVE  Finds'
  BY DEF Finds

\* A command begins: what it finds holds, or it races.
LEMMA FindsAtFirst ==
  ASSUME Finds, UNCHANGED <<agents, agentOf>>, NEW id,
         \/ /\ CountTopics(id)
            /\ \A i : (Between("topic", i)' => Between("topic", i))
                      /\ (Between("delete", i)' => Between("delete", i) \/ i = id)
         \/ /\ FindAgent(id)
            /\ \A i : (Between("topic", i)' => Between("topic", i) \/ i = id)
                      /\ (Between("delete", i)' => Between("delete", i))
  PROVE  Finds'
<1>1. raced \subseteq raced' /\ (raced' = raced \/ raced' = raced \cup {id})
  BY DEF CountTopics, FindAgent, Race
<1>2. CASE /\ CountTopics(id)
           /\ \A i : (Between("topic", i)' => Between("topic", i))
                     /\ (Between("delete", i)' => Between("delete", i) \/ i = id)
  BY <1>1, <1>2 DEF Finds, CountTopics, Race
<1>3. CASE /\ FindAgent(id)
           /\ \A i : (Between("topic", i)' => Between("topic", i) \/ i = id)
                     /\ (Between("delete", i)' => Between("delete", i))
  BY <1>1, <1>3 DEF Finds, FindAgent, Race
<1>4. QED
  BY <1>2, <1>3

\* A deletion ends.
LEMMA FindsErased ==
  ASSUME Known, Finds, NEW id, Erase(id), Between("delete", id), UNCHANGED <<raced, agentOf>>,
         \A i : (Between("topic", i)' => Between("topic", i))
                /\ (Between("delete", i)' => Between("delete", i))
  PROVE  Finds'
<1>1. DOMAIN agents' = DOMAIN agents \ {id}
  BY DEF Erase
<1>2. \A i : Between("topic", i) => i \in DOMAIN agents' \cup raced
  BY <1>1 DEF Finds
<1>3. QED
  BY <1>2 DEF Finds

\* A new topic ends.
LEMMA FindsInserted ==
  ASSUME Finds, NEW id, InsertTopic(id), Between("topic", id) \/ id = NoAgent,
         UNCHANGED <<raced, agents>>,
         \A i : (Between("topic", i)' => Between("topic", i))
                /\ (Between("delete", i)' => Between("delete", i))
  PROVE  Finds'
<1>1. \A t \in DOMAIN agentOf' :
        (t \in DOMAIN agentOf /\ agentOf'[t] = agentOf[t]) \/ agentOf'[t] = id
  BY DEF InsertTopic
<1>2. QED
  BY <1>1 DEF Finds

LEMMA FindsStep == Known /\ Requests /\ Finds /\ [AgentsNext]_agentsVars => Finds'
<1> SUFFICES ASSUME Known, Requests, Finds, [AgentsNext]_agentsVars PROVE Finds'
  OBVIOUS
<1>a. /\ Idle.kind # "topic" /\ Idle.kind # "delete"
  BY DEF Idle
<1>1. CASE UNCHANGED <<agents, agentOf, request, other, raced>>
  BY <1>1, FindsKept DEF Between
<1>b. ASSUME NEW id, NEW given, agents' = createAgent(id, given) PROVE DOMAIN agents \subseteq DOMAIN agents'
  BY <1>b, Created
<1>c. ASSUME NEW id \in DOMAIN agents, NEW given, agents' = updateAgent(id, given)
      PROVE  DOMAIN agents \subseteq DOMAIN agents'
  BY <1>c, Updated
<1>2. CASE CreateAgent
  <2>1. DOMAIN agents \subseteq DOMAIN agents'
    BY <1>2, <1>b DEF CreateAgent
  <2>2. QED
    BY <1>2, <2>1, FindsKept DEF CreateAgent, Between
<1>3. CASE UpdateAgent
  <2>1. DOMAIN agents \subseteq DOMAIN agents'
    BY <1>3, <1>c DEF UpdateAgent
  <2>2. QED
    BY <1>3, <2>1, FindsKept DEF UpdateAgent, Between
<1>4. CASE DeleteTopic
  BY <1>4, FindsKept DEF DeleteTopic, Between
<1>5. CASE BeginCommand
  <2>1. PICK id \in DOMAIN agents :
          \/ CountTopics(id) /\ other' = [kind |-> "delete", id |-> id]
          \/ FindAgent(id) /\ other' = [kind |-> "topic", id |-> id]
    BY <1>5 DEF BeginCommand
  <2>2. UNCHANGED <<agents, agentOf, request>>
    BY <1>5 DEF BeginCommand
  <2>3. QED
    BY <2>1, <2>2, FindsAtFirst DEF Between
<1>6. CASE RemoveAgent
  <2>1. Erase(other.id) /\ Between("delete", other.id) /\ UNCHANGED <<agentOf, raced>>
    BY <1>6 DEF RemoveAgent, Between
  <2>2. \A i : (Between("topic", i)' => Between("topic", i)) /\ (Between("delete", i)' => Between("delete", i))
    BY <1>6, <1>a DEF RemoveAgent, Between
  <2>3. QED
    BY <2>1, <2>2, FindsErased
<1>7. CASE CreateTopic
  <2>1. InsertTopic(other.id) /\ Between("topic", other.id) /\ UNCHANGED <<agents, raced>>
    BY <1>7 DEF CreateTopic, Between
  <2>2. \A i : (Between("topic", i)' => Between("topic", i)) /\ (Between("delete", i)' => Between("delete", i))
    BY <1>7, <1>a DEF CreateTopic, Between
  <2>3. QED
    BY <2>1, <2>2, FindsInserted
<1>8. CASE CommandFails
  BY <1>8, <1>a, FindsKept DEF CommandFails, Between
<1>9. CASE Save
  <2>1. request'.kind = "save" /\ UNCHANGED <<agents, agentOf, other, raced>>
    BY <1>9 DEF Save
  <2>2. QED
    BY <2>1, FindsKept DEF Between
<1>10. CASE Saved
  <2>1. request'.kind = "none" /\ UNCHANGED <<agentOf, other, raced>>
    BY <1>10 DEF Saved, Replied, Idle
  <2>2. DOMAIN agents \subseteq DOMAIN agents'
    BY <1>10, <1>b, <1>c DEF Saved
  <2>3. QED
    BY <2>1, <2>2, FindsKept DEF Between
<1>11. CASE Failed
  BY <1>11, <1>a, FindsKept DEF Failed, Replied, Between
<1>12. CASE AskDelete \/ NewChat
  <2>1. request'.checked = FALSE /\ UNCHANGED <<agents, agentOf, other, raced>>
    BY <1>12 DEF AskDelete, NewChat
  <2>2. QED
    BY <2>1, FindsKept DEF Between
<1>13. CASE Look
  <2>1. /\ request'.kind = request.kind /\ request'.id = request.id
        /\ UNCHANGED <<agents, agentOf, other>>
    BY <1>13 DEF Look, Requests
  <2>2. \/ request.kind = "delete" /\ CountTopics(request.id)
        \/ request.kind = "topic" /\ FindAgent(request.id)
    BY <1>13 DEF Look
  <2>3. QED
    BY <2>1, <2>2, FindsAtFirst DEF Between
<1>14. CASE Deleted
  <2>1. Erase(request.id) /\ Between("delete", request.id) /\ UNCHANGED <<agentOf, raced>>
    BY <1>14 DEF Deleted, Between
  <2>2. \A i : (Between("topic", i)' => Between("topic", i)) /\ (Between("delete", i)' => Between("delete", i))
    BY <1>14, <1>a DEF Deleted, Replied, Between
  <2>3. QED
    BY <2>1, <2>2, FindsErased
<1>15. CASE TopicForAgent
  <2>1. /\ InsertTopic(request.id) /\ UNCHANGED <<agents, raced>>
        /\ Between("topic", request.id) \/ request.id = NoAgent
    BY <1>15 DEF TopicForAgent, Between
  <2>2. \A i : (Between("topic", i)' => Between("topic", i)) /\ (Between("delete", i)' => Between("delete", i))
    BY <1>15, <1>a DEF TopicForAgent, Replied, Between
  <2>3. QED
    BY <2>1, <2>2, FindsInserted
<1>16. QED
  BY <1>1, <1>2, <1>3, <1>4, <1>5, <1>6, <1>7, <1>8, <1>9, <1>10, <1>11, <1>12, <1>13, <1>14, <1>15
  DEF AgentsNext, agentsVars, Load, OpenForm, CloseForm, EditField, Pick, Deselect

LEMMA TopicsStep == Known /\ Finds /\ TopicsHaveAgents /\ [AgentsNext]_agentsVars => TopicsHaveAgents'
<1> SUFFICES ASSUME Known, Finds, TopicsHaveAgents, [AgentsNext]_agentsVars PROVE TopicsHaveAgents'
  OBVIOUS
<1>1. ASSUME DOMAIN agents \subseteq DOMAIN agents', raced \subseteq raced', UNCHANGED agentOf
      PROVE  TopicsHaveAgents'
  BY <1>1 DEF TopicsHaveAgents
<1>2. ASSUME NEW id, NEW given, agents' = createAgent(id, given), UNCHANGED <<agentOf, raced>>
      PROVE  TopicsHaveAgents'
  BY <1>1, <1>2, Created
<1>3. ASSUME NEW id \in DOMAIN agents, NEW given, agents' = updateAgent(id, given),
             UNCHANGED <<agentOf, raced>>
      PROVE  TopicsHaveAgents'
  BY <1>1, <1>3, Updated
<1>4. ASSUME NEW id, Between("delete", id), Erase(id), UNCHANGED <<agentOf, raced>>
      PROVE  TopicsHaveAgents'
  <2>1. id # NoAgent /\ DOMAIN agents' = DOMAIN agents \ {id}
    BY <1>4, AgentsAssumption DEF Erase, Known
  <2>2. \A t \in DOMAIN agentOf : agentOf[t] = id => id \in raced
    BY <1>4, <2>1 DEF Finds
  <2>3. QED
    BY <1>4, <2>1, <2>2 DEF TopicsHaveAgents
<1>5. CASE DeleteTopic
  BY <1>5 DEF DeleteTopic, TopicsHaveAgents
<1>6. ASSUME NEW id, Between("topic", id) \/ id = NoAgent, InsertTopic(id), UNCHANGED <<agents, raced>>
      PROVE  TopicsHaveAgents'
  <2>1. id \in DOMAIN agents \cup {NoAgent} \cup raced
    BY <1>6 DEF Finds
  <2>2. QED
    BY <1>6, <2>1 DEF InsertTopic, TopicsHaveAgents
<1>7. CASE CreateAgent
  BY <1>2, <1>7 DEF CreateAgent
<1>8. CASE UpdateAgent
  BY <1>3, <1>8 DEF UpdateAgent
<1>9. CASE Saved
  BY <1>2, <1>3, <1>9 DEF Saved
<1>10. CASE RemoveAgent \/ Deleted
  BY <1>4, <1>10 DEF RemoveAgent, Deleted, Between
<1>11. CASE CreateTopic \/ TopicForAgent
  BY <1>6, <1>11 DEF CreateTopic, TopicForAgent, Between
<1>12. CASE BeginCommand \/ Look
  BY <1>1, <1>12 DEF BeginCommand, Look, CountTopics, FindAgent, Race
<1>13. CASE UNCHANGED <<agents, agentOf, raced>>
  BY <1>1, <1>13
<1>14. QED
  BY <1>5, <1>7, <1>8, <1>9, <1>10, <1>11, <1>12, <1>13
  DEF AgentsNext, agentsVars, CommandFails, Load, OpenForm, CloseForm, EditField, Save, Failed,
      AskDelete, Pick, Deselect, NewChat

-----------------------------------------------------------------------------
(* The theorems.                                                           *)

LEMMA AgentsInvariant == AgentsSpec => [](Inv /\ TopicsHaveAgents)
<1>1. AgentsInit => Inv /\ TopicsHaveAgents
  BY DEF AgentsInit, Idle, Inv, Known, Forms, Shows, Closed, Requests, SavesTheEdits, Finds, Between,
         TopicsHaveAgents
<1>2. Inv /\ TopicsHaveAgents /\ [AgentsNext]_agentsVars => (Inv /\ TopicsHaveAgents)'
  BY KnownStep, FormsStep, RequestsStep, SavesStep, FindsStep, TopicsStep DEF Inv
<1>3. QED
  BY <1>1, <1>2, PTL DEF AgentsSpec

\* No deletion of an agent and no new chat leaves a topic with an agent that does not
\* exist, but for an agent that was being deleted by one process while another one
\* was making a topic for it.
THEOREM TopicsHaveAgentsHolds == AgentsSpec => []TopicsHaveAgents
  BY AgentsInvariant, PTL

\* The form of the agent manager writes what was edited in it and keeps the rest; an
\* edit that empties a field does not count.
THEOREM SavesTheEditsHolds == AgentsSpec => []SavesTheEdits
<1>1. Inv => SavesTheEdits
  BY DEF Inv
<1>2. QED
  BY <1>1, AgentsInvariant, PTL

=============================================================================
