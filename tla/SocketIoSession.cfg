SPECIFICATION Spec
CONSTANTS
    BufferSize = 2
    ReadSize = 2
    Answers = {"ok", "refused", "bad_extension"}
    ServerMessages = {"42", "2"}
    MaxActs = 2
    MaxSessions = 2
INVARIANTS
  SessionInv
  ProtocolKept
  DeliveredInOrder
PROPERTIES
  SessionMovesOn
CHECK_DEADLOCK FALSE
