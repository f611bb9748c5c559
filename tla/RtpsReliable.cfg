SPECIFICATION Spec
CONSTANTS
  r1 = r1
  r2 = r2
  Readers = {r1}
  Depth = 2
  NackWindow = 2
  MaxReorderAhead = 4
  MaxSeq = 4
  Msg <- MCMsg
  NoMsg = NoMsg
  Outcomes <- AnyOutcome
  TsnSocket = FALSE
  Guarded = TRUE
  Closing = TRUE
  Duplicating = TRUE
  MaxDrops = 0
  MaxCopies = 1
CHECK_DEADLOCK FALSE
INVARIANTS
  TypeOK
  NoFalseAck
  TrackerExact
PROPERTIES
  ImplementsKeepLast
  ForwardOnly
