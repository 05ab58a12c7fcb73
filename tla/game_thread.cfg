SPECIFICATION FairSpec
CONSTANTS
  Clients = {c1, c2, c3}
  NULL = NULL
  Dirty = {c3}
  TO_TRANSMIT = 9
INVARIANTS TypeOK StartsReady
PROPERTIES GameStarts SeatsAsPromised
CHECK_DEADLOCK FALSE
