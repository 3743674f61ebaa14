CONSTANTS
  NULL = NULL
  Frame = {f1, f2, f3, f4, f5}
  Window = {w1, w2}
  Screen = {s1, s2}
SPECIFICATION Spec
INVARIANT ScreensFreedByHandler
CHECK_DEADLOCK FALSE
