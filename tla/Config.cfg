SPECIFICATION Spec
CONSTANTS
  EditSections = {"GAME"}
  EditNames = {"GAME_LEFT", "GAME_PAUSE", "JUMP"}
  EditCodes = {"KEY_H", "F1"}
  Instances = {p1, p2}
  MaxEdits = 1
INVARIANTS
  TypeOK
  KeysKept
  SurvivesRestart
  ReadableUnlessTorn
