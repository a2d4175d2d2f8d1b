SPECIFICATION Spec
CONSTANTS
  MaxEvents = 3
  LastIndex = 1
  MaxInPipe = 4
  None = None
  CommandLines <- MCCommandLines
  Stdins <- MCStdins
  Clips <- MCClips
  Commands <- MCCommands
  Outputs <- MCOutputs
  Nothing = Nothing
  Day = 6
  Zones <- MCZones
  MaxTime = 26
  TopicNames <- MCTopicNames
  Pictures <- MCPictures
  MaxPictures = 2
  MessageTexts <- MCMessageTexts
  FirstDisk <- MCFirstDisk
  MaxMillis = 1
  NoFile = NoFile
INVARIANTS ReadAsSent CalledAsWritten ChainAsShell RunsByTheWallClock ADayApart SentAsComposed
CHECK_DEADLOCK FALSE
