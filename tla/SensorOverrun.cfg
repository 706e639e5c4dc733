SPECIFICATION Spec
CONSTANTS
  Lines = 2
  Capacity = 3
  MaxLength = 4
  QueueLength = 1
INVARIANT NeverOverrun
