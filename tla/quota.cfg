SPECIFICATION MCSpec
CONSTANTS
  k1 = k1
  u1 = u1
  u2 = u2
  x1 = x1
  Keys = {k1}
  Ups = {u1, u2}
  Aliases = {x1}
  Requests = {r1, r2}
  KeyRows <- AnyKeys
  UpRows <- AnyUps
  Bound <- TwoBindings
  Zones <- AnyZone
  NoSubject = NoSubject
  Never = Never
  HoursPerDay = 4
  DaysPerMonth = 2
  MaxUsageDailyDays = 2
  MaxTokens = 1
  MaxRequests = 4
  QueueCap = 0
  LastHour = 13
INVARIANTS Overrun 
PROPERTIES HonestLimits
SYMMETRY Sym
CHECK_DEADLOCK FALSE
