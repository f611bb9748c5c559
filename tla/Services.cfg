SPECIFICATION Spec
CONSTANTS
  None = None
  NoWriter = NoWriter
  NoFilter = NoFilter
  NoLocator = NoLocator
  Key = Key
  NoKey = NoKey
CHECK_DEADLOCK FALSE
INVARIANTS
  TypeOK
  NewestGiven
  EveryoneServed
  NoFalseAlarm
  ActiveIsStrongest
  RightAnswer
  NothingHeld
  OrderedAndCounted
  OncePerWindow
  ReadAsWritten
  FilterRight
  DeclaredWins
PROPERTIES
  VerdictsExact
  Withheld
