SPECIFICATION FairSpec
CONSTANTS
  Values = {0, 1}
  MaxConnections = 2
  MaxCalls = 2
  MaxReports = 1
  MaxFailures = 2
INVARIANTS
  StationInv
PROPERTY
  StationBecomesKnown
