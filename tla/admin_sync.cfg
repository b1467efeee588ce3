SPECIFICATION Spec
CONSTANTS
  Absent = Absent
  Admins = {a1}
  UpNames = {"u"}
  Formats = {"openai"}
  Patches = {}
  ModelNames = {"m"}
  Lens = {0}
  VendorLists <- MCVendorLists
  AliasNames = {}
  Bindings = {}
  Labels = {}
  Files = {}
  Scenarios <- SyncScenarios
  MaxFaults = 0
CHECK_DEADLOCK FALSE
INVARIANT SyncSucceeds
