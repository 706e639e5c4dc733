\* Late answers to connect (private) and subscribe (shared), none to publish.
SPECIFICATION FairSpec
CONSTANTS
  Tasks = {"app", "timer"}
  Operations <- BothTasks
  LateChannels = {"connect", "subscribe"}
  MaxCalls = 3
INVARIANTS
  TypeOK
  OkMeansAnswered
  AnswerNotLost
PROPERTY ImplementsCalls
