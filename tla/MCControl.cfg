CONSTANTS
  Client = {"library", "command", "mistyped"}
  Program <- MCProgram
  MaxCommands = 2
SPECIFICATION Spec
INVARIANTS
  NothingLost
  SuccessMeansExecuted
PROPERTIES
  FirstErrorStays
  EveryCallReturns
CHECK_DEADLOCK FALSE
