SPECIFICATION FairSpec
CONSTANTS
  Lines = 2
  Capacity = 3
  MaxLength = 4
  QueueLength = 1
INVARIANTS
  TypeOK
  PromptNeverOverruns
  WholeUpdates
  StoppedIsSilent
PROPERTIES BufferIsEmptied ErrorClears
