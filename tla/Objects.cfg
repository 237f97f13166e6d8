SPECIFICATION MCSpec
CONSTANTS
  Callers = {c1, c2}
  Worker = worker
  Tasks = {x, y}
  MaxQueue = 4
  Lockers = {l1, l2, l3}
  Spins <- MCSpins
  Producers = {p1, p2}
  Size = 2
  MaxRecords = 3
  MaxFlushes = 0
  MaxAddresses = 2
  MaxCancels = 2
  Loggers = {a, b}
  consumer = c
  Seconds = {1, 2}
  MaxLines = 2
INVARIANTS
  ObjectInv
  SpinInv
  RaceInv
  LogInv
  LineInv
PROPERTIES
  ImplementsSerialQueue
  ObjectsMoveOn
CHECK_DEADLOCK FALSE
