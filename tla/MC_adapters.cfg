SPECIFICATION Spec
CONSTANTS
  Harnesses = {"pi", "omp", "grok", "mock"}
  Perms = {1}
  MaxTurns = 2
  MaxRequests = 6
  MaxWire = 2
  Races = {}
INVARIANTS
  ShowsWhatHappens
  ApprovalsReachable
PROPERTIES
  KeepsContract
  TurnsSettle
CHECK_DEADLOCK FALSE
