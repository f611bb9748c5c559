SPECIFICATION FairSpec
CONSTANTS
  r1 = r1
  r2 = r2
  Readers = {r1}
  Depth = 2
  NackWindow = 2
  MaxReorderAhead = 1
  MaxSeq = 3
  Msg <- MCMsg
  NoMsg = NoMsg
  Outcomes <- AnyOutcome
  TsnSocket = FALSE
  Guarded = FALSE
  Closing = FALSE
  Duplicating = FALSE
  MaxDrops = 1
  MaxCopies = 1
CHECK_DEADLOCK FALSE
PROPERTY
  Recovery
