SPECIFICATION LedSpec
CONSTANTS
  MaxAttempts = 2
  IsSecure = TRUE
INVARIANTS
  TypeOK
  NoTopicForgotten
  HealthyNeverResets
  RegisteredStays
  ResetIsShown
PROPERTIES
  LightsTell
  OfflineIsShown
  NeverStuckOffline
