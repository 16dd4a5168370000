SPECIFICATION Spec
CONSTANTS
  Environments <- MCEnvironments
  MaxEvents = 3
  MaxRequests = 2
  MaxRestarts = 2
  MaxLinks = 2
CHECK_DEADLOCK FALSE
INVARIANTS
  TypeOK
  FileOrdered
  SeenIsKeptIntact
  CaughtUp
  StreamComplete
PROPERTIES
  ViewKeeps
  Converges
