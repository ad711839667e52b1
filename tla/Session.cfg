SPECIFICATION Spec
CONSTANTS
  EditSections = {"EDITOR", "GAME", "MENU"}
  EditNames = {"GAME_QUIT", "MENU_SELECT"}
  EditCodes = {"KEY_Q", "KEY_RETURN"}
  Typed = {"KEY_J", "KEY_K", "KEY_Q", "KEY_RETURN"}
  MaxBatch = 2
  MaxGames = 2
  Cells = {c1, c2}
  Polynos = {s1, s2, s3}
  Prototypes = prototypes
  Null = null
INVARIANTS
  TypeOK
  NoKeyLeftForMenu
  ControlsDrawable
  NoBadFree
  NothingLeaked
PROPERTIES
  QuitIsFollowed
