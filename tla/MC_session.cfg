SPECIFICATION Spec
CONSTANTS
  Perms = {r1}
  Waiters = {}
  QueueLimit = 2
  MaxPrompts = 3
  MaxOpens = 2
  MaxRestarts = 1
  MaxWrites = 3
  Races = {}
CHECK_DEADLOCK FALSE
INVARIANTS
  HoldKeepsOrder
  OneTurnAtATime
  StopReachesHarness
  CrashSurfaces
  StatusHasRuntime
  NoStaleQueue
PROPERTIES
  AcceptedInOrder
  ShutdownStartsNothing
  AttentionSurvivesShutdown
  QueueDrains
  CloseCompletes
