SPECIFICATION FairSpec
CONSTANTS
  a = a
  b = b
  w1 = w1
  r1 = r1
  Parts = {a, b}
  Writers = {w1}
  Readers = {r1}
  Owner <- OwnerAB
  Topic <- OneTopic
  Mortal = {a}
  MaxExpiries <- OnlyB
  None = None
CHECK_DEADLOCK FALSE
INVARIANTS
  TypeOK
  NoMissedMatch
  NoLockCycle
PROPERTIES
  Converges
  CrashedForgotten
