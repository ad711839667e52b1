\* Two shapes on a 4 x 6 board: rows that are not adjacent fill together, and
\* stacks reach the top row within two locks.
CONSTANTS
  W = 4
  H = 6
  Tetros = {"I", "Z"}
SPECIFICATION EngineSpec
INVARIANTS EngineTypeOK PieceDrawn SentinelSafe ShapeIsTetromino
PROPERTIES StackStable RefusalKeepsBoard LockCollapses WritesInBounds

