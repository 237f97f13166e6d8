SPECIFICATION TeardownSpec
CONSTANTS
  Users = {u1}
  ReconnectModes = {TRUE}
  BufferSize = 1
  MaxConnections = 1
  MaxConnects = 1
  MaxDisconnects = 0
  MaxSends = 0
  MaxReads = 0
  MaxErrors = 0
PROPERTY NoCallbackAfterRelease
