SPECIFICATION Spec
CONSTANTS
  None = None
  Register = Register
  Caller = Caller
  Nowhere = Nowhere
CHECK_DEADLOCK FALSE
INVARIANTS
  TypeOK
  PeersKept
  PortsFound
  StreamsIntact
  NothingLeaks
PROPERTIES
  LiveTcpKept
