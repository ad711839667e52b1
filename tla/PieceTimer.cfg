CONSTANTS
  TimeoutMax = 2
  LockoutMax = 3
  Binds = {"GAME_LEFT", "GAME_RIGHT", "GAME_DOWN", "GAME_DROP", "GAME_ROTATE", "GAME_QUIT", "NONE"}
  MaxBatch = 2
  MaxFall = 2
SPECIFICATION Spec
INVARIANTS TypeOK LockoutPrimed LockoutRests
PROPERTIES GracePeriod NoPlummet GravityNeverLocks Settles QuitEnds
