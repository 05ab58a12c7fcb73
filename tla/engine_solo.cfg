SPECIFICATION Spec
CONSTANTS
  BOARD_WIDTH = 6
  BOARD_HEIGHT = 5
  PLAYER_COUNT = 4
  Actors = {3}
  STACKED = TRUE
  DIFF_SIZE = 97
  FUSE = 2
  BLAST = 2
INVARIANTS TilesMatchBomb BombOutIsLive
PROPERTIES BombKeepsTime BreaksOnlyAtEdge DiesOfExplosion
CHECK_DEADLOCK FALSE
