SPECIFICATION MCFairSpec
CONSTANTS
  Requests = {r1, r2}
  u1 = u1
  u2 = u2
  m = m
  m2 = m2
  Ups = {u1}
  Models = {m}
  Routes <- Direct
  Limits = {0, 1, 2}
  NoSem = NoSem
  MaxChanges = 2
  MaxLapses = 0
PROPERTY GoneEnds
