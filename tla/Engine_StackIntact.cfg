CONSTANTS
  W = 4
  H = 4
  Tetros = {"I", "Z"}
SPECIFICATION EngineSpec
PROPERTIES StackIntact
