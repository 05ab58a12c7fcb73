SPECIFICATION Spec
CONSTANTS
  MAX_CLIENTS = 3
  MAX_SERVERS = 2
  Sockets = {s1, s2}
  Listener = Listener
  Stdin = Stdin
  NoSocket = NoSocket
  ReadyGarbage = {0}
  GameGarbage = {2}
  MAX_HEARTS = 1
INVARIANTS GamesTogether
CHECK_DEADLOCK FALSE
