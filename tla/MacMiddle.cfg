CONSTANTS
  a = a
  b = b
  c = c
  Nodes = {a, b, c}
  MAC_BROADCAST = MAC_BROADCAST
  None = None
  Setups <- MiddleSetup
SPECIFICATION Spec
CHECK_DEADLOCK FALSE
INVARIANT NothingLeft
