SPECIFICATION Spec
CONSTANTS
  Jobs = {j1}
  Automatic = {j1}
  Callers = {c1, c2}
  Runs = {r1, r2}
  Commands <- AllCommands
  AsrCapacity = 1
  MaxCommands = 4
  None = None
CHECK_DEADLOCK FALSE
SYMMETRY Interchangeable
INVARIANTS TypeOK OneRunPerJob ExecutingIsControlled MarkedIsPublished
PROPERTIES KeepsPromise
