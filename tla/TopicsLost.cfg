SPECIFICATION FairSpec
CONSTANTS
  MaxAttempts = 2
  IsSecure = TRUE
PROPERTIES
  TopicsComeBack
