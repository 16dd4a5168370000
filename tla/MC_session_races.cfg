SPECIFICATION Spec
CONSTANTS
  Perms = {r1}
  Waiters = {w1}
  QueueLimit = 1
  MaxPrompts = 2
  MaxOpens = 2
  MaxRestarts = 1
  MaxWrites = 3
  Races = {"overlap", "stop", "close", "shutdown", "crash", "reject"}
CHECK_DEADLOCK FALSE
INVARIANTS
  TypeOK
  WaitersReleased
  RunningIffActive
  DiskCurrent
  AttentionCurrent
