SPECIFICATION MCSpec
CONSTANTS
  Clients = {c1, c2}
  oneShot = oneShot
  repeating = repeating
  Timers = {oneShot, repeating}
  NoTimer = none
  Interval <- MCInterval
  Repeating = {repeating}
  SelfStarting = {}
  MaxCalls = 4
  MaxLate = 1
  Ptrs = {p, q}
  Objects = {x, y}
  null = null
  MaxRaw = 2
  Users = {u1}
  ReconnectModes = {TRUE, FALSE}
  BufferSize = 2
  MaxConnections = 2
  MaxConnects = 1
  MaxDisconnects = 1
  MaxSends = 1
  MaxReads = 1
  MaxErrors = 1
  Callers = {"a", "b"}
  Full = 2
  MaxRecords = 6
  MaxPskSends = 1
  UdpThreads = {"a", "b"}
  Addresses <- MCAddresses
  MaxReports = 3
INVARIANTS
  TimerInv
  CountsOwners
  ConnectionInv
  EveryRecordOnce
  UdpInv
PROPERTIES
  DropClosesItsOwn
  NothingLeftBehind
  ToldAsSent
  HandlersMoveOn
CHECK_DEADLOCK FALSE
