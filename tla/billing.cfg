SPECIFICATION Spec
CONSTANTS
  p = p
  w = w
  q = q
  Procs = {p, q}
  Actors <- TwoProcs
  Upstreams = {u}
  Wallets = {w, v}
  QuotaVendors = {k}
  Currencies = {cny}
  Nothing = Nothing
  Bad = Bad
  FirstVendor = w
  FirstTotal = 1
  MaxRefreshes = 2
  MaxEvents = 2
CHECK_DEADLOCK FALSE
INVARIANTS InFetchOrder NeverOverbilled NoGap ClosedQuietly
PROPERTY RefreshesEnd
