SPECIFICATION Spec
CONSTANTS
  BOARD_WIDTH = 3
  BOARD_HEIGHT = 4
  PLAYER_COUNT = 2
  Actors = {0, 1}
  STACKED = FALSE
  DIFF_SIZE = 49
  FUSE = 1
  BLAST = 0
INVARIANTS TypeOK WallsStand NoGhosts DiffFits
PROPERTIES DeadDoNotAct StaleByAnother
CHECK_DEADLOCK FALSE
