SPECIFICATION Spec
CONSTANTS
  Environments <- Torn
  MaxEvents = 3
  MaxRequests = 2
  MaxRestarts = 2
  MaxLinks = 2
CHECK_DEADLOCK FALSE
INVARIANT SeenIsKept
