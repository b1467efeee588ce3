SPECIFICATION MCSpec
CONSTANTS
  KeyIds = {}
  UpIds = {1, 2}
  AliasIds = {a1}
  x = x
  y = y
  OneLookup = TRUE
  Names = {x, y}
  Asked <- AskedRoutes
  Requests = {r1, r2}
  NoName = NoName
  NoRequest = NoRequest
  MaxWrites = 1
  MaxExpiries = 0
  MaxErrors = 0
SYMMETRY Symmetry
INVARIANTS Coherent FlightsAreLed OwnAnswersRight
