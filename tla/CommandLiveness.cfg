SPECIFICATION FairSpec
CONSTANTS
  QueueLength = 1
  MaxCrashes = 1
  CloudCommands <- SomeCloudCommands
  ButtonCommands <- SomeButtons
PROPERTIES ProgressReturns QueueServed RestartConfirmed BecomesSubscribed
