------------------------------ MODULE MCService -----------------------------
(***************************************************************************)
(* What the service is asked for between runs: lists (Pages), the           *)
(* configuration (Config), agents (Agents).  They have no state in common;   *)
(* a behaviour runs one of them.                                            *)
(***************************************************************************)
EXTENDS Pages, Config, Agents

VARIABLE part   \* the one that runs

Only(chosen) == part = chosen /\ part' = part

MCLists ==
  {<<"topics", "all">>, <<"messages", "all">>, <<"runs", "all">>, <<"runs", "running">>,
   <<"topicRuns", "all">>, <<"topicRuns", "running">>, <<"events", "scheduled">>, <<"events", "all">>}

MCKeys ==
  {<<"llm_provider">>, <<"providers">>, <<"providers", "a", "api_key">>, <<"name", "x">>,
   <<"pinned", "0">>, <<"hubs", "1", "url">>}

MCNumerals == <<"0", "1", "2">>

MCSeed ==
  (<<>> :> "map") @@ (<<"name">> :> "pi") @@ (<<"hubs">> :> "seq") @@ (<<"pinned">> :> "seq")
    @@ (<<"providers">> :> "map") @@ (<<"providers", "a">> :> "map")
    @@ (<<"providers", "a", "base_url">> :> "u") @@ (<<"providers", "a", "api_key">> :> "")
    @@ (<<"llm_provider">> :> "a") @@ (<<"llm_model">> :> "m")

\* Before the setup, and after it.
MCFirstTrees == {MCSeed, (<<"providers", "a", "api_key">> :> "k") @@ MCSeed}

\* What WritesOnlyItsKey and SetupLeadsToChat are said of.
ASSUME MCNumbers == NumbersNameItems
ASSUME MCNoSequence == NoSequenceOfProviders

\* The handlers of the settings panel are alike.
MCAlike == Permutations(Handlers)

Init ==
  /\ part \in {"pages", "config", "agents"}
  /\ PagesInit /\ ConfigInit /\ AgentsInit
  /\ part # "pages" => reader.list = "topics"
  /\ part # "config" => doc = MCSeed

Next ==
  \/ Only("pages") /\ PagesNext /\ UNCHANGED <<configVars, agentsVars>>
  \/ Only("config") /\ ConfigNext /\ UNCHANGED <<pagesVars, agentsVars>>
  \/ Only("agents") /\ AgentsNext /\ UNCHANGED <<pagesVars, configVars>>

Spec == Init /\ [][Next]_<<part, pagesVars, configVars, agentsVars>>
=============================================================================
