SPECIFICATION Spec
CONSTANTS
  Topics = {31, 32, 33}
  RunIds = {11, 12, 13}
  EventIds = {21, 22, 23}
  MaxMessages = 3
  MaxClock = 1
  MaxRows = 4
  Limits = {1}
  Lists <- MCLists
  NoCursor = NoCursor
  Providers = {"a", "b"}
  Presets = {"a"}
  Clips = {"c"}
  Numerals <- MCNumerals
  Keys <- MCKeys
  Seed <- MCSeed
  FirstTrees <- MCFirstTrees
  MaxWrites = 3
  Handlers = {h1, h2}
  AgentIds = {a1, a2}
  TopicIds = {t1}
  ScopeClips = {"c"}
  MaxEdits = 2
  NoAgent = NoAgent
SYMMETRY MCAlike
INVARIANTS NoRepeats QuietRowsListed PinsAgree PanelShowsFile SetupLeadsToChat TopicsHaveAgents SavesTheEdits
PROPERTIES WritesOnlyItsKey
CHECK_DEADLOCK FALSE
