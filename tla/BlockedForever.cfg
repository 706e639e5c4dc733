SPECIFICATION FairSpec
CONSTANTS
  QueueLength = 1
  MaxCrashes = 0
  CloudCommands = {"restart", "speed"}
  ButtonCommands = {}
PROPERTY EngineRecovers
