SPECIFICATION FairSpec
CONSTANTS
  MAX_CLIENTS = 2
  MAX_SERVERS = 1
  Sockets = {s1}
  Listener = Listener
  Stdin = Stdin
  NoSocket = NoSocket
  ReadyGarbage = {0}
  GameGarbage = {1}
  MAX_HEARTS = 1
PROPERTIES GoodbyeCloses
CHECK_DEADLOCK FALSE
