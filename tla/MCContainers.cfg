CONSTANTS
  NULL = NULL
  w1 = w1
  w2 = w2
  w3 = w3
  w4 = w4
  w5 = w5
  Window <- MCWindow
  Hash <- MCHash
  Info = {i1, i2, i3, i4}
SPECIFICATION Spec
SYMMETRY Symmetry
INVARIANTS
  ListIsQueue
  TableIsWindows
  SearchesEnd
  NothingLeft
CHECK_DEADLOCK FALSE
