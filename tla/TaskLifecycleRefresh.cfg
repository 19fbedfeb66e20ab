SPECIFICATION Spec
CONSTANTS
  Jobs = {j1}
  Automatic = {}
  Callers = {c1}
  Runs = {r1, r2}
  Commands = {"submit", "refresh"}
  AsrCapacity = 1
  MaxCommands = 2
  None = None
CHECK_DEADLOCK FALSE
INVARIANTS SettledAgrees
