SPECIFICATION Spec
CONSTANTS
  MAX_CLIENTS = 3
  MAX_SERVERS = 1
  Sockets = {s1, s2}
  Listener = Listener
  Stdin = Stdin
  NoSocket = NoSocket
  ReadyGarbage = {0}
  GameGarbage = {1}
  MAX_HEARTS = 1
SYMMETRY Symmetry
INVARIANTS AwaitedSeatIsHeld EntriesWatchOpen NobodyForgotten
PROPERTIES OnlyLeaversLoseSeats SeatsAsPromised
CHECK_DEADLOCK FALSE
