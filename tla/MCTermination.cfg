CONSTANTS
  NULL = NULL
  Frame = {f1, f2, f3}
  Window = {w1, w2}
  Screen = {s1, s2}
SPECIFICATION Spec
PROPERTIES
  EndsWithoutOutput
CHECK_DEADLOCK FALSE
