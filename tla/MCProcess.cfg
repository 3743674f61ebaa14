CONSTANTS
  NULL = NULL
  Pid = {p1, p2}
  Argv <- MCArgv
  Other <- MCOther
SPECIFICATION Spec
INVARIANTS
  HandlerReturns
  LaunchedAsAsked
  OrderlyEnd
  NothingKept
PROPERTY EndsOnceStopped
CHECK_DEADLOCK FALSE
