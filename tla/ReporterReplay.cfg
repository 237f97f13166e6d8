SPECIFICATION FairSpec
CONSTANTS
  Values = {0, 1}
  MaxConnections = 1
  MaxCalls = 1
  MaxReports = 0
  MaxFailures = 0
PROPERTY
  StateIsReplayed
