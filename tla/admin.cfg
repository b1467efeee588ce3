SPECIFICATION Spec
CONSTANTS
  Absent = Absent
  Admins = {a1, a2}
  UpNames = {"u", "v"}
  Formats = {"openai", "anthropic"}
  Patches <- MCPatches
  ModelNames = {"m", "n"}
  Lens = {0, 3}
  VendorLists <- MCVendorLists
  AliasNames = {"x", "y"}
  Bindings <- MCBindings
  Labels = {"k", "l"}
  Files <- MCFiles
  Scenarios <- MCScenarios
  MaxFaults = 1
SYMMETRY Symmetry
CHECK_DEADLOCK FALSE
INVARIANTS EnabledUnique LabelsUnique RoundTrip RetryConverges
PROPERTY SyncKeepsConfig
