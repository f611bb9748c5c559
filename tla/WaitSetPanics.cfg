SPECIFICATION Spec
CONSTANTS
  Subs = {a, b, c}
  MaxSamples = 1
  MaxAttached = 3
CHECK_DEADLOCK FALSE
INVARIANT
  NoPanic
