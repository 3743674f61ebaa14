CONSTANTS
  Client = {"library", "command", "mistyped"}
  Program <- MCProgram
  MaxCommands = 2
SPECIFICATION Spec
INVARIANT LastErrorIsTold
CHECK_DEADLOCK FALSE
