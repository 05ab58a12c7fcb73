SPECIFICATION Spec
CONSTANTS
  MAX_CLIENTS = 2
  MAX_SERVERS = 2
  Sockets = {s1}
  Listener = Listener
  Stdin = Stdin
  NoSocket = NoSocket
  ReadyGarbage = {0, 1}
  GameGarbage = {0, 1, 2}
  MAX_HEARTS = 2
SYMMETRY Symmetry
INVARIANTS TypeOK SeatCountExact
CHECK_DEADLOCK FALSE
