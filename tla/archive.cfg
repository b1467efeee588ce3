SPECIFICATION ArchiveSpec
CONSTANTS
  Clients = {"chain", "stateless"}
  Legacy = TRUE
  MaxCalls = 3
  MaxMishaps = 1
  Cap = 5
CHECK_DEADLOCK FALSE
INVARIANTS OneRow ChainTogether ContentIsHistory PagesPartition
