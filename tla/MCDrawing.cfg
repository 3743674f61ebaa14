CONSTANTS
  NULL = NULL
  Frame = {f1, f2, f3, f4, f5}
  Window = {w1, w2, w3}
  Screen = {s1, s2}
  Width = 4
  Height = 5
SPECIFICATION DrawSpec
SYMMETRY Symmetry
INVARIANTS
  TypeOK
  FrameForest
  OneHome
  ShownIffFramed
  KeyboardOnFramed
  FocusIsLeaf
  RootPerScreen
  FramesOnTheirScreen
  MovesStayOnScreen
  PrevUndoesNext
  FillsItsFrame
  BothWaysAgree
  LeavesTile
PROPERTIES
  KeyboardStaysWithFocus
  DrawingKept
  NewOutputStartsEmpty
  KeepsPromise
CHECK_DEADLOCK FALSE
