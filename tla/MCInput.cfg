CONSTANTS
  NULL = NULL
  Key <- MCKey
  Syms <- MCSyms
  Consumed <- MCConsumed
  LevelOf <- MCLevelOf
  ModOf <- MCModOf
  Func = {goleft, swapleft}
  Chords <- MCChords
  Keyboard = {k1, k2}
  Pointer = {p1, p2}
  Window = {w1, w2}
SPECIFICATION Spec
SYMMETRY Symmetry
INVARIANTS
  TypeOK
  PressCallsItsHandler
  CapsMatchDevices
  NoStuckKeys
PROPERTY SeatFollowsFocus
CHECK_DEADLOCK FALSE
