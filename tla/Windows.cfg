SPECIFICATION Spec
CONSTANTS
  H = 20
  W = 10
  Lines = {24, 45, 60}
  Cols = {82, 101}
  MaxKeys = 1
  MaxResizes = 3
INVARIANTS
  TypeOK
  ResizeNoticed
  CentredIfRoomy
PROPERTIES
  ResizeIsDrawn
