\* Without a quit key, so that only a game over ends the loop.
CONSTANTS
  W = 4
  H = 4
  Tetros = {"O", "I"}
  TimeoutMax = 1
  LockoutMax = 1
  Binds = {"GAME_LEFT", "GAME_RIGHT", "GAME_DOWN", "GAME_DROP", "GAME_ROTATE", "NONE"}
  MaxBatch = 2
SPECIFICATION Spec
PROPERTIES GameOverIsFinal
