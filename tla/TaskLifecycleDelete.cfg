SPECIFICATION Spec
CONSTANTS
  Jobs = {j1}
  Automatic = {j1}
  Callers = {c1}
  Runs = {r1, r2}
  Commands = {"submit", "delete"}
  AsrCapacity = 1
  MaxCommands = 2
  None = None
CHECK_DEADLOCK FALSE
PROPERTIES DeletesOnlyFinished
