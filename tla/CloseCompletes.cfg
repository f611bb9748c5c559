SPECIFICATION FairSpec
CONSTANTS
  w1 = w1
  rx = rx
  r1 = r1
  Writers = {w1}
  Rx = rx
  Readers = {r1}
  QoS <- BlockQoS
  Partition <- OnePartition
  Depth = 1
  MaxWrites = 2
  NoSample = NoSample
CHECK_DEADLOCK FALSE
PROPERTY
  CloseCompletes
