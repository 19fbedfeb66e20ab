SPECIFICATION FairSpec
CONSTANTS
  Jobs = {j1}
  Automatic = {}
  Callers = {c1}
  Runs = {r1, r2}
  Commands <- StopAndGo
  AsrCapacity = 1
  MaxCommands = 5
  None = None
CHECK_DEADLOCK FALSE
INVARIANTS HeldIsResumable ListedIsServed
PROPERTIES PauseReturns ListedSettles
