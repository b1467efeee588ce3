SPECIFICATION MCFairSpec
CONSTANTS
  KeyIds = {k1}
  UpIds = {}
  AliasIds = {}
  x = x
  y = y
  OneLookup = FALSE
  Names = {}
  Asked <- AskedKeys
  Requests = {r1, r2}
  NoName = NoName
  NoRequest = NoRequest
  MaxWrites = 2
  MaxExpiries = 1
  MaxErrors = 1
INVARIANT Coherent
PROPERTY LookupsEnd
