CONSTANTS
  W = 4
  H = 4
  Tetros = {"O", "I"}
  TimeoutMax = 1
  LockoutMax = 1
  Binds = {"GAME_LEFT", "GAME_RIGHT", "GAME_DOWN", "GAME_DROP", "GAME_ROTATE", "GAME_QUIT", "NONE"}
  MaxBatch = 1
SPECIFICATION Spec
INVARIANTS GameOverEndsGame
