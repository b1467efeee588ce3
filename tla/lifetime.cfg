SPECIFICATION LFairSpec
CONSTANTS
  Schema <- MCSchema
  Legacy <- MCLegacy
  NameTable = "upstreams"
  NameIndex = "idx_upstreams_name"
  NameColumn = "g_idx_upstreams_name"
  Active = "is_active"
  Origins <- MCOrigins
  Procs = {p1, p2}
  MaxFaults = 2
  Here = p1
  Sync = {c1, c2}
  Async = {d1, d2}
  Stoppers = {s1, s2}
  Cap = 1
CHECK_DEADLOCK FALSE
INVARIANTS UpIsCurrent NothingLost
PROPERTIES StartsSucceed Implements EveryoneReturns
