SPECIFICATION Spec
CONSTANTS
  None = None
  Register = Register
  NoWriter = NoWriter
CHECK_DEADLOCK FALSE
PROPERTIES
  Returns
  Arrives
  Settles
