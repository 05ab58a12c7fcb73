SPECIFICATION Spec
CONSTANTS
  MAX_CLIENTS = 3
  MAX_SERVERS = 1
  Sockets = {s1}
  Listener = Listener
  Stdin = Stdin
  NoSocket = NoSocket
  ReadyGarbage = {0}
  GameGarbage = {1}
  MAX_HEARTS = 2
INVARIANTS OneThreadPerGame
CHECK_DEADLOCK FALSE
