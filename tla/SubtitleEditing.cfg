SPECIFICATION Spec
CONSTANTS
  None = None
  Published <- TwoCues
  Opened <- TranslatedTask
  NewIds = {3}
  Candidate <- OneCandidate
  NewSource <- Typing
  Times = {1, 2}
  Limit = 2
  Concurrency = 1
  MaxEdits = 2
  MaxBatches = 1
  MaxOthers = 0
CHECK_DEADLOCK FALSE
INVARIANTS TypeOK FreshTranslation MovedContextFlagged
PROPERTIES KeepsUserWork RevisionsAdvance UndoHonest
