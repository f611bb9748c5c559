SPECIFICATION MatchedFairSpec
CONSTANTS
  r1 = r1
  r2 = r2
  Readers = {r1}
  Depth = 3
  NackWindow = 2
  MaxReorderAhead = 3
  MaxSeq = 2
  Msg <- MCMsg
  NoMsg = NoMsg
  Outcomes <- DataOnly
  TsnSocket = FALSE
  Guarded = FALSE
  Closing = TRUE
  Duplicating = FALSE
  MaxDrops = 0
  MaxCopies = 1
CHECK_DEADLOCK FALSE
PROPERTY
  DrainCompletes
