SPECIFICATION Spec
CONSTANTS
  Clients = {c1, c2}
  NULL = NULL
  Dirty = {}
  TO_TRANSMIT = 9
INVARIANTS BoardsSent
CHECK_DEADLOCK FALSE
