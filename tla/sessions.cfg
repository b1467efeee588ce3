SPECIFICATION Spec
CONSTANTS
  MaxTurns = 3
  MaxTime = 3
  MaxFaults = 1
  QueueCap = 2
  TTL = 1
CHECK_DEADLOCK FALSE
INVARIANT SessionLasts
