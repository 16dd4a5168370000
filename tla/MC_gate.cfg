SPECIFICATION Spec
CONSTANTS
  MaxEver = 3
  MaxSessions = 2
  Calls = {1, 2}
  MaxDepth = 1
  MaxMoves = 2
  Touched = {2}
  MaxFanout = 1
  Extension = TRUE
  Races = {}
CHECK_DEADLOCK FALSE
INVARIANTS
  RunsAsApproved
  LimitsHold
  WaitingIsAnswerable
  DeletedStaysDeleted
PROPERTIES
  CallsAreAnswered

