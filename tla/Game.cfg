\* The smallest board on which shapes turn, rest, come free and fill rows.
CONSTANTS
  W = 3
  H = 3
  Tetros = {"O", "T"}
  TimeoutMax = 1
  LockoutMax = 1
  Binds = {"GAME_LEFT", "GAME_RIGHT", "GAME_DOWN", "GAME_DROP", "GAME_ROTATE", "GAME_QUIT"}
  MaxBatch = 2
SPECIFICATION Spec
PROPERTIES ImplementsPieceTimer
