SPECIFICATION MCSpec
CONSTANTS
  Requests = {r1, r2}
  u1 = u1
  u2 = u2
  m = m
  m2 = m2
  Ups = {u1, u2}
  Models = {m, m2}
  Routes <- Long
  Limits = {0, 1}
  NoSem = NoSem
  MaxChanges = 0
  MaxLapses = 1
INVARIANTS SlotsCover WithinLimit Ledger HonestRefusal CooldownHeld
SYMMETRY Sym
