SPECIFICATION Spec
CONSTANTS
  PLAYERS_COUNT = 2
  Clients = {c1, c2}
  FIRST = 8190
  LOG_SIZE = 3
  ActionsSent = {1, 4}
  IdGarbage = {0, 1}
  NbGarbage = {0, 4}
  RowGarbage <- ZeroedOrDirty
  MAX_SENT = 3
  MAX_ALL = 4
SYMMETRY Symmetry
INVARIANTS TypeOK LoggedAsSent AppliedWasAsked
PROPERTIES LogOnlyGrows NeverBackwards FrozenAfterSecondZero ActsAsRegisters
CHECK_DEADLOCK FALSE
