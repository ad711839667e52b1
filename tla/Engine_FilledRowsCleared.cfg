CONSTANTS
  W = 4
  H = 4
  Tetros = {"I", "O"}
SPECIFICATION EngineSpec
PROPERTIES FilledRowsCleared
