SPECIFICATION FairSpec
CONSTANTS
  None = None
  Published <- TwoCues
  Opened <- AnyTask
  NewIds = {}
  Candidate <- OneCandidate
  NewSource <- Typing
  Times = {}
  Limit = 2
  Concurrency = 2
  MaxEdits = 1
  MaxBatches = 1
  MaxOthers = 1
CHECK_DEADLOCK FALSE
INVARIANTS ExportFresh
PROPERTIES RefreshKeepsWork BatchEnds
