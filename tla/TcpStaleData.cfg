SPECIFICATION TcpSpec
CONSTANTS
  Users = {u1}
  ReconnectModes = {TRUE, FALSE}
  BufferSize = 2
  MaxConnections = 2
  MaxConnects = 1
  MaxDisconnects = 1
  MaxSends = 0
  MaxReads = 1
  MaxErrors = 0
INVARIANT BufferedDataHasDispatch
