SPECIFICATION Spec
CONSTANT MaxMessages = 5
INVARIANTS
  TypeOK
  MutualExclusion
  DeliveredInOrder
PROPERTY ImplementsStream
