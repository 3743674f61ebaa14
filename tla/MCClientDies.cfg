CONSTANTS
  NULL = NULL
  Surface = {s1, s2}
  Window = {w1, w2}
  MaxFailures = 1
SPECIFICATION Spec
INVARIANT NoHandlerAfterFree
CHECK_DEADLOCK FALSE
