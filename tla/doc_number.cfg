SPECIFICATION Spec
CONSTANTS
  PLAYERS_COUNT = 2
  Clients = {c1, c2}
  FIRST = 8190
  LOG_SIZE = 4
  ActionsSent = {1, 4}
  IdGarbage = {0}
  NbGarbage = {0}
  RowGarbage <- OnlyDirty
  MAX_SENT = 4
  MAX_ALL = 4
SYMMETRY Symmetry
INVARIANTS NumbersGoOn
CHECK_DEADLOCK FALSE
