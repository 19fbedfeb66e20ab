SPECIFICATION Spec
CONSTANTS
  None = None
  Published <- TwoCues
  Opened <- TranslatedTask
  NewIds = {}
  Candidate <- OneCandidate
  NewSource <- Typing
  Times = {}
  Limit = 2
  Concurrency = 2
  MaxEdits = 1
  MaxBatches = 1
  MaxOthers = 0
CHECK_DEADLOCK FALSE
PROPERTIES UndoTextIsCurrent
