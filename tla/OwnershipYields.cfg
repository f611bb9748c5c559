SPECIFICATION FairSpec
CONSTANTS
  w1 = w1
  w2 = w2
  w3 = w3
  Writers = {w1, w2, w3}
  Own = {w1}
  Exclusive = {w1, w2, w3}
  Manual = {w1}
  Strength <- OwnStronger
  GuidRank <- Ranks
  Lease = 1
  MinSeparation = 1
  NoWriter = NoWriter
PROPERTY
  OwnershipYields
