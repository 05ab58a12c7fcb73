SPECIFICATION Spec
CONSTANTS
  BOARD_WIDTH = 3
  BOARD_HEIGHT = 4
  PLAYER_COUNT = 2
  Actors = {0, 1}
  STACKED = FALSE
  DIFF_SIZE = 97
  FUSE = 1
  BLAST = 0
INVARIANTS TileNamesId
CHECK_DEADLOCK FALSE
