SPECIFICATION FairSpec
CONSTANT
  MaxMishaps = 3
INVARIANTS
  TypeOK
  RegisteredOperates
  RestartsWithCredentials
PROPERTIES
  ComesIntoOperation
  ImplementsLifecycle
CHECK_DEADLOCK FALSE
