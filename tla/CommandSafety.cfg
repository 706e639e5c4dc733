\* A command of each sort, a queue with one slot, one unexpected reset.
SPECIFICATION Spec
CONSTANTS
  QueueLength = 1
  MaxCrashes = 1
  CloudCommands <- ManyCloudCommands
  ButtonCommands <- ManyButtons
INVARIANTS
  TypeOK
  AckProtocol
  BlockingIsRestart
  RestartExclusive
